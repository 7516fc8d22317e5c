SPECIFICATION Spec
CONSTANTS
  Bot = {b1, b2}
  Config = {v1, v2}
  Container = {c1, c2}
  NoBot = NoBot
  NoConfig = NoConfig
  NoContainer = NoContainer
  Untracked = Untracked
  Threshold = 2
  MaxEdits = 3
  MaxFaults = 2
SYMMETRY Symmetry
INVARIANTS
  NoDoubleRun
  CycleLeavesOnePerWantedBot
  RestartsOnlyOutdated
  ShutdownStopsOwn
