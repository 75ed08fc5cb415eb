SPECIFICATION Spec
CONSTANTS
  s1 = s1  s2 = s2  c1 = c1  c2 = c2
  Schedules = {s1}
  Timings <- SlotsThenNone
  Misfires = {"catch_up"}
  Grace = 1
  Clients = {c1}
  MaxTime = 3
  MaxCalls = 1
  MaxFaults = 0
PROPERTIES
  CatchUpRecordsAll
