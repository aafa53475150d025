SPECIFICATION Spec
CONSTANTS
  Procs = {p1, p2}
  p1 = p1
  p2 = p2
  Byte = {a}
  a = a
  Unwritten = Unwritten
  NULL = NULL
  DEFAULT_SCULL_QUANTUM = 2
  DEFAULT_SCULL_QSET = 2
  Quanta = {1}
  Private = TRUE
  MaxPos = 3
  MaxCount = 2
SYMMETRY Symmetric
INVARIANT WritesSurvive
