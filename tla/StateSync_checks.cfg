SPECIFICATION FairSpec
CONSTANTS
  File = {f1, f2}
  MaxWrites = 3
  MaxStarts = 2
  MaxFaults = 2
CHECK_DEADLOCK FALSE
INVARIANTS
  CompletionSaves
PROPERTIES
  RegressesOnlyWhenDamaged
  WritesReachRemote
  StopEnds
