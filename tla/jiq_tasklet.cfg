SPECIFICATION Spec
CONSTANTS
  Procs = {p1}
  p1 = p1
  NoProc = NoProc
  FileSets = {{"tasklet"}}
  LIMIT = 2
  Signals = 0
INVARIANT TaskletReaderWoken
