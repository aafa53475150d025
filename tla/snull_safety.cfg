CONSTANTS
  sn0 = sn0
  sn1 = sn1
  Devs = {sn0, sn1}
  Confs <- AllConfs
CHECK_DEADLOCK FALSE
SPECIFICATION LoadSpec
SYMMETRY Symmetric
INVARIANT BuffersAccounted
INVARIANT StoppedQueueHasWaker
INVARIANT InterruptsComeBack
INVARIANT FreedUnused
 
