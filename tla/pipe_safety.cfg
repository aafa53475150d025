SPECIFICATION Spec
CONSTANTS
  Procs = {p1, p2, p3}
  p1 = p1
  p2 = p2
  p3 = p3
  NoProc = NoProc
  scull_p_buffer = 3
  Byte = {a}
  a = a
  Garbage = Garbage
  Modes = {{}, {"r"}, {"w"}}
  MaxCount = 2
SYMMETRY Symmetric
INVARIANT TypeOK
INVARIANT ReaderNotStranded
INVARIANT WriterWokenByReads
INVARIANT SleepInv
INVARIANT QueuesLeft
INVARIANT CountsExact
INVARIANT BufferLifetime
INVARIANT AsyncQueueLive
INVARIANT NoUninitialisedRead
