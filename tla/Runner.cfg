SPECIFICATION FairSpec
CONSTANTS
    k1 = k1
    k2 = k2
    k3 = k3
    Keys <- MCKeys
    Offers <- MCOffers
    Workers = {w1, w2}
    MaxJobs = 2
    MaxDeliveries = 2
    MaxStops = 2
    MaxFaults = 1
INVARIANTS
    HeldOnce
    SendsWithinPolicy
    DeliveryTruthful
PROPERTIES
    WritesUnderLock
    KeepsService
    JobsFinish
CHECK_DEADLOCK FALSE
