SPECIFICATION Spec
CONSTANTS
  s1 = s1  o1 = o1  o2 = o2  o3 = o3
  Schedules = {s1}
  Occurrences = {o1}
  ScheduleOf <- MCScheduleOf
  Policies <- PoliciesEdited
  MaxAttempts = 2
  Backoff <- MCBackoff
  TTL = 2
  CandidateLimit = 1
  Lateness = {0}
  MaxTime = 3
  MaxClaims = 2
INVARIANTS
  TypeOK
  LeaseIffActive
  RetryChain
  OneActiveAttempt
  DeadLettersMatch
  SuccessMeansJobSucceeded
PROPERTIES
  OnlyOwnerWrites
  RegistrationKept
  RecoverySparesOwner
  RecoveryRespectsRenewal
  RefinesLifecycle
