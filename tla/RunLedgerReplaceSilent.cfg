SPECIFICATION Spec
CONSTANTS
  s1 = s1  o1 = o1  o2 = o2  o3 = o3
  Schedules = {s1}
  Occurrences = {o1, o2, o3}
  ScheduleOf <- MCScheduleOf
  Policies <- PoliciesReplace
  MaxAttempts = 1
  Backoff <- MCBackoff
  TTL = 1
  CandidateLimit = 3
  Lateness = {0}
  MaxTime = 1
  MaxClaims = 1
SYMMETRY Interchangeable
PROPERTIES
  ReplaceSignalsActive
