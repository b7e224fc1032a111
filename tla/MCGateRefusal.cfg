SPECIFICATION Spec
CONSTANTS
  s1 = s1
  s2 = s2
  w1 = w1
  w2 = w2
  w3 = w3
  Saver <- MCSaver
  Worker <- MCWorker
  SaverOf <- MCSaverOf
  NoOne = NoOne
  Latest = Latest
  Postgres = FALSE
  ForkOnExplicit = TRUE
  NamesCkpt = TRUE
  MaxCkpt = 1
  MaxCrash = 0
  MaxFault = 0
PROPERTIES
  RefusalIsTrue
