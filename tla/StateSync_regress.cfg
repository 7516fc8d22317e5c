SPECIFICATION Spec
CONSTANTS
  File = {f1, f2}
  MaxWrites = 2
  MaxStarts = 2
  MaxFaults = 0
CHECK_DEADLOCK FALSE
PROPERTIES
  RemoteNeverRegresses
