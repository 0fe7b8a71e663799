SPECIFICATION FairSpec
CONSTANTS
  NumEps = 2
  SendTimeout = 2
  MaxRetriesAccepted = 7
  MaxRetriesDropped = 3
  MaxLateness = 1
  MaxFaults = 1
  MaxOutages = 1
  Worlds <- MCWorlds
INVARIANT TypeOK
INVARIANT FilteringNotOverstated
INVARIANT MappingNotOverstated
INVARIANT ExactVerdict
PROPERTY AnalysisEnds
CHECK_DEADLOCK FALSE
