SPECIFICATION MCSpec
CONSTANTS
  root = root
  fork = fork
  Branch <- MCBranch
  RootBranch = root
  Width = 4
  MaxLog = 3
  Worker = {w1, w2}
  Gates = 2
  Value = {yes, bad}
  Bad = {bad}
  NoCkpt = NoCkpt
  MaxCalls = 3
  MaxSeq = 12
  MaxFail = 1
  MaxDeath = 1
  Plans <- MCPlans
  Output <- MCOutput
  StableKey = {"violation"}
  Absent = Absent
  Torn = Torn
  MaxRuns = 3
SYMMETRY MCSymmetry
INVARIANTS
  RecoverersAgree
  PastDurableWork
  ServedByIntent
  JournalAccounts
  CleanAuditAgreed
  BaselinesTogether
PROPERTIES
  SaverUsesPlane
CHECK_DEADLOCK FALSE
