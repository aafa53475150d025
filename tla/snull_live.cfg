CONSTANTS
  sn0 = sn0
  sn1 = sn1
  Devs = {sn0, sn1}
  Confs <- LossyConfs
CHECK_DEADLOCK FALSE
SPECIFICATION FairSpec
PROPERTY StoppedQueueRestarts
