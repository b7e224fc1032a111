SPECIFICATION RigSpec
CONSTANTS
  Experiments <- MCExperiments
  MaxBroken = 0
  MaxBusy = 1
INVARIANTS
  RacerErrorsCounted
CHECK_DEADLOCK FALSE
