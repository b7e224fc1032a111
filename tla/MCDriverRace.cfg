SPECIFICATION FairRunSpec
CONSTANTS
  c1 = c1
  va = va
  vb = vb
  h1 = h1
  h2 = h2
  Checkpoint <- MCCheckpoint
  Value <- MCValue
  Host <- MCHosts
  NoValue = NoValue
  NoTask = NoTask
  RootId = RootId
  Nothing = Nothing
  Interrupt = c1
  InterruptTask = 2
  MaxTask = 2
  MaxResumes = 3
  MaxSeq = 7
  MaxCrash = 1
  MaxInvalid = 1
INVARIANTS
  PerformedOnce
  GatedByAnswer
  OnlyCrashLoses
  ForkServedOwn
PROPERTIES
  RunBecomesDurable
CHECK_DEADLOCK FALSE
