SPECIFICATION FairSpec
CONSTANTS
    c1 = c1
    c2 = c2
    p1 = p1
    p2 = p2
    p3 = p3
    NoProc = NoProc
    Callers <- TwoCallers
    Procs <- ThreeProcs
INVARIANTS
    LockExclusive
    NoOrphan
PROPERTIES
    SpawnsAlone
    EveryCallAnswered
\* After shutdown, with every sidecar dead, nothing is left to happen.
CHECK_DEADLOCK FALSE
