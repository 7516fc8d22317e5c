SPECIFICATION FairSpec
CONSTANTS
  Bot = {b1}
  Config = {v1, v2}
  Container = {c1, c2}
  NoBot = NoBot
  NoConfig = NoConfig
  NoContainer = NoContainer
  Untracked = Untracked
  Threshold = 1
  MaxEdits = 2
  MaxFaults = 2
PROPERTIES
  Converges
