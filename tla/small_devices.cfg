SPECIFICATION FairSpec
CONSTANTS
  p1 = p1
  p2 = p2
  p3 = p3
  p4 = p4
  u1 = u1
  u2 = u2
  Procs = {p1, p2, p3, p4}
  Uids = {u1, u2}
  uid <- McUid
  euid <- McEuid
  Capable = {p2}
  Nobody = Nobody
  Keys = {k1, k2}
  k1 = k1
  k2 = k2
  MaxItems = 3
  Reads = {p1, p2}
  Wrap = 4
  delay = 1
  MaxLate = 2
  JIT_ASYNC_LOOPS = 2
  MaxDone = 3
INVARIANT NoInterference
INVARIANT CountConserved
INVARIANT CountExact
INVARIANT OneUserAtATime
INVARIANT WaiterWokenByRelease
INVARIANT OneDevicePerTerminal
PROPERTY WaiterServed
INVARIANT NoReaderForgotten
INVARIANT HandlerHasFrame
INVARIANT DelayHonoured
PROPERTY ReadsReturn
