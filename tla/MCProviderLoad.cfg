SPECIFICATION FairSpec
CONSTANTS
    r1 = r1
    r2 = r2
    r3 = r3
    r4 = r4
    Callers <- FourCallers
INVARIANTS
    LockExclusive
PROPERTIES
    NeverReloads
    AnswersTruthful
    WaiterAnswered
