SPECIFICATION FairSpec
CONSTANTS
  Procs = {p1, p2}
  p1 = p1
  p2 = p2
  NoProc = NoProc
  FileSets = {{"wqdelay", "timer"}, {"tasklet", "timer"}}
  LIMIT = 1
  Signals = 1
\* The readers of jiqtasklet and jiqtimer may both be stranded; nothing moves then.
CHECK_DEADLOCK FALSE
INVARIANT WorkReaderWoken
INVARIANT TimerReaderWoken
INVARIANT TimerQuiet
PROPERTY ReaderReturns
