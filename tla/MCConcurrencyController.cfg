SPECIFICATION FairSpec
CONSTANTS
    c1 = c1
    c2 = c2
    c3 = c3
    c4 = c4
    c5 = c5
    Callers <- FiveCallers
    Unbounded <- OneUnbounded
    Limit = 2
    MaxQueueDepth = 1
INVARIANTS
    SlotConservation
    PendingExact
    BoundedAdmission
    NoLostWakeup
    ReportsExact
PROPERTIES
    ImplementsAdmission
    WaiterLeavesQueue
