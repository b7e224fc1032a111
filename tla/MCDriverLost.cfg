SPECIFICATION RunSpec
CONSTANTS
  c1 = c1
  va = va
  vb = vb
  h1 = h1
  h2 = h2
  Checkpoint <- MCCheckpoint
  Value <- MCValue
  Host <- MCOneHost
  NoValue = NoValue
  NoTask = NoTask
  RootId = RootId
  Nothing = Nothing
  Interrupt = c1
  InterruptTask = 2
  MaxTask = 2
  MaxResumes = 1
  MaxSeq = 6
  MaxCrash = 1
  MaxInvalid = 0
INVARIANTS
  DurableMeansPerformed
CHECK_DEADLOCK FALSE
