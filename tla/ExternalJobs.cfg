SPECIFICATION Spec
CONSTANTS
    o1 = o1
    o2 = o2
    b1 = b1
    b2 = b2
    Origins = {o1, o2}
    Bodies = {b1, b2}
    Targets <- MCTargets
    MaxAttempts = 2
    MaxClaims = 2
INVARIANTS
    SameInstructions
    NoOrphanWork
    CheckpointTrue
    OwnerInSync
PROPERTIES
    CheckpointForward
CHECK_DEADLOCK FALSE
