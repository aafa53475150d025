SPECIFICATION DeviceSpec
CONSTANTS
  Procs = {p1, p2}
  p1 = p1
  p2 = p2
  NoProc = NoProc
  scull_p_buffer = 3
  Byte = {a, b}
  a = a
  b = b
  Garbage = Garbage
  Modes = {{"r", "w"}}
  MaxCount = 2
PROPERTY ImplementsFifo
PROPERTY SleepingReaderServed
