SPECIFICATION FairMCSpec
CONSTANTS
  Experiments <- MCExperiments
  MaxBroken = 1
  MaxBusy = 1
  Host = {h1, h2}
  Schedule <- MCSchedule
  MaxServes = 2
  MaxFaults = 1
INVARIANTS
  RigTypeOK
  VerdictsHold
  FreezeExact
  LedgerAtKillExact
  GateExclusive
  NobodyLeft
  GatedFiresOnce
  CountIsFinal
  AbandonedBlocks
PROPERTIES
  ParentEnds
  FreshServeEnds
CHECK_DEADLOCK FALSE
