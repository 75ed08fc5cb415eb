SPECIFICATION FairSpec
CONSTANTS
    d1 = d1
    d2 = d2
    d3 = d3
    d4 = d4
    e1 = e1
    x = x
    y = y
    Deliveries = {d1, d2, d3, d4}
    Events = {e1}
    Data = {x, y}
    EventOf <- MCEventOf
    DataOf <- MCDataOf
    MaxConns = 2
INVARIANTS
    OneRunPerEvent
    EventHasRun
    AnswersTrue
PROPERTIES
    AllAnswered
CHECK_DEADLOCK FALSE
