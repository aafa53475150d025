CONSTANTS
  sn0 = sn0
  sn1 = sn1
  Devs = {sn0, sn1}
  Confs <- SmallConfs
CHECK_DEADLOCK FALSE
SPECIFICATION Spec
INVARIANT LockGivenBack
