SPECIFICATION Spec
CONSTANTS
  None = None
  Jobs = {c1, m1, p1}
  MaintenanceJobs = {m1}
  PriorityJobs = {p1}
  Idents = {t1, t2, t3, t4}
  MaxPriorityStreak = 2
  MaxIo = 1
  MaxFaults = 1
SYMMETRY Symmetry
INVARIANTS
  TypeOK
  WorkUnderPermit
  FairTurns
  LiveTicketKept
