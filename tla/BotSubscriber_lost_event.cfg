SPECIFICATION FairSpec
CONSTANTS
  Bot = {b1}
  Version = {v1, v2}
  Call = {k1}
  NoBot = NoBot
  NoVersion = NoVersion
  Deleted = Deleted
  NoDoc = NoDoc
  Cap = 1
  MaxPartition = 3
  MaxCalls = 1
  MaxFaults = 1
CHECK_DEADLOCK FALSE
PROPERTIES
  EventuallyAgrees
