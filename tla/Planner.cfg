SPECIFICATION FairSpec
CONSTANTS
  s1 = s1  s2 = s2  c1 = c1  c2 = c2
  Schedules = {s1}
  Timings <- SlotsChanged
  Misfires = {"skip", "run_once_if_late", "catch_up"}
  Grace = 1
  Clients = {c1}
  MaxTime = 3
  MaxCalls = 2
  MaxFaults = 2
INVARIANTS
  PlannerLosesNoSlot
  OnlyStaleMisfires
  LateWorkRuns
PROPERTIES
  EventuallyPlanned
