--------------------------- MODULE MCSmallDevices ---------------------------
(* Two users, a process that did su and one with CAP_DAC_OVERRIDE. *)
EXTENDS SmallDevices, TLC

CONSTANTS p1, p2, p3, p4, u1, u2

McUid  == p1 :> u1 @@ p2 :> u1 @@ p3 :> u2 @@ p4 :> u2
McEuid == p1 :> u1 @@ p2 :> u1 @@ p3 :> u2 @@ p4 :> u1
=============================================================================
