SPECIFICATION Spec
CONSTANTS
    c1 = c1
    c2 = c2
    Nothing = Nothing
    Targets <- Clips
    Ttl = 2
    Interval = 2
    MaxTime = 5
INVARIANTS
    NoTornUpload
    KeptSinceStored
    SweptInTime
\* The clock stops at MaxTime.
CHECK_DEADLOCK FALSE
