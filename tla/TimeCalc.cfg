SPECIFICATION Spec
CONSTANTS
    Sub = 3
    Last = 10
    Everys = {1, 2}
    Crons <- MCCrons
    Delays = {1, 2, 3, 4, 5, 7, 8, 9}
    MaxAttempts = 5
    PreviewRuns = 2
INVARIANTS
    NoSlotSkipped
    DelaysDouble
CHECK_DEADLOCK FALSE
