SPECIFICATION FairSpec
CONSTANTS
  s1 = s1
  s2 = s2
  w1 = w1
  w2 = w2
  w3 = w3
  Saver <- MCSaver
  Worker <- MCPair
  SaverOf <- MCPairSaverOf
  NoOne = NoOne
  Latest = Latest
  Postgres = FALSE
  ForkOnExplicit = TRUE
  NamesCkpt = TRUE
  MaxCkpt = 1
  MaxCrash = 1
  MaxFault = 0
PROPERTIES
  ParkedIsServed
