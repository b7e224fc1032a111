SPECIFICATION RigSpec
CONSTANTS
  Experiments <- MCExperiments
  MaxBroken = 0
  MaxBusy = 0
INVARIANTS
  NoTimingWindow
CHECK_DEADLOCK FALSE
