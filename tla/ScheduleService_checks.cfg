SPECIFICATION FairSpec
CONSTANTS
  Schedule = {s1, s2}
  Cron = {c1, c2}
  Run = {r1, r2, r3, r4}
  NoSchedule = NoSchedule
  NoCron = NoCron
  NoDoc = NoDoc
  MaxEdits = 2
  MaxFaults = 1
INVARIANTS
  OneExecution
  
PROPERTIES
  DueRuns
