SPECIFICATION Spec
CONSTANTS
    c1 = c1
    c2 = c2
    p1 = p1
    p2 = p2
    p3 = p3
    NoProc = NoProc
    Callers <- OneCaller
    Procs <- ThreeProcs
PROPERTIES
    DroppedHandleIsDead
CHECK_DEADLOCK FALSE
