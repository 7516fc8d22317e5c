SPECIFICATION Spec
CONSTANTS
  Schedule = {s1, s2}
  Cron = {c1}
  Run = {r1, r2, r3}
  NoSchedule = NoSchedule
  NoCron = NoCron
  NoDoc = NoDoc
  MaxEdits = 1
  MaxFaults = 0
PROPERTIES
  StartsOnlyDue
