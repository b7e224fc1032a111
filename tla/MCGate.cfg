SPECIFICATION MCSpec
CONSTANTS
  s1 = s1
  s2 = s2
  w1 = w1
  w2 = w2
  w3 = w3
  Saver <- MCSaver
  Worker <- MCWorker
  SaverOf <- MCSaverOf
  NoOne = NoOne
  Latest = Latest
  Postgres = FALSE
  ForkOnExplicit = FALSE
  NamesCkpt = TRUE
  MaxCkpt = 2
  MaxCrash = 1
  MaxFault = 1
INVARIANTS
  TypeOK
  AtMostOneServed
  LatchBackedByRow
  NamedJournaledByHolder
PROPERTIES
  ImplementsConsumeOnce
