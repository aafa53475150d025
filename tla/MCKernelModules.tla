--------------------------- MODULE MCKernelModules ---------------------------
EXTENDS KernelModules

(* Disk sizes around the steps of the geometry, and DEVICE_CAPACITY. *)
MCCapacities ==
  0 .. 300 \cup {4096} \cup 16000 .. 16130 \cup 32100 .. 32160
    \cup 1052819700 .. 1052819775   \* up to 65535 * 255 * 63
=============================================================================
