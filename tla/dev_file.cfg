SPECIFICATION Spec
CONSTANTS
  Procs = {p1, p2}
  p1 = p1
  p2 = p2
  Byte = {a, b}
  a = a
  b = b
  Unwritten = Unwritten
  NULL = NULL
  DEFAULT_SCULL_QUANTUM = 1
  DEFAULT_SCULL_QSET = 2
  Quanta = {2}
  Private = FALSE
  MaxPos = 3
  MaxCount = 2
  MemQuantum = 2
  MemQset = 1
  Piece = 1
  TmpBuf = 1
SYMMETRY Symmetric
INVARIANT GeometryMatchesData
INVARIANT ListCoversSize
INVARIANT OverrunsNeedOutdated
PROPERTY ImplementsSparseFile
