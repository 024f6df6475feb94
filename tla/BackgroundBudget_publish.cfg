SPECIFICATION Spec
CONSTANTS
  None = None
  Jobs = {c1, p1}
  MaintenanceJobs = {}
  PriorityJobs = {p1}
  Idents = {t1, t2, t3, t4}
  MaxPriorityStreak = 2
  MaxIo = 1
  MaxFaults = 1

INVARIANT
  HalfPublishedKept
