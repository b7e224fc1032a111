SPECIFICATION Spec
CONSTANTS
  c1 = c1
  va = va
  vb = vb
  none = none
  notask = notask
  root = root
  Checkpoint <- MCCheckpoint
  Value <- MCValue
  NoValue <- none
  NoTask <- notask
  RootId <- root
  MaxTask = 2
  MaxResumes = 2
  MaxSeq = 3
SYMMETRY AnswerSymmetry
INVARIANTS
  TypeOK
  EffectOnce
  DurablePrefix
  RecoveryPlanExact
  JournalTotalOrder
  BranchPerAnswer
  ConsumeOnce
PROPERTIES
  OutcomeStable
  ReplayStable
  WritesBeforeCheckpoint
  ImplementsReference
