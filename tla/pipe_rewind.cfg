SPECIFICATION Spec
CONSTANTS
  Procs = {p1, p2, p3}
  p1 = p1
  p2 = p2
  p3 = p3
  NoProc = NoProc
  scull_p_buffer = 2
  Byte = {a}
  a = a
  Garbage = Garbage
  Modes = {{"r"}, {"w"}}
  MaxCount = 1
SYMMETRY Symmetric
INVARIANT WriterNotStranded
