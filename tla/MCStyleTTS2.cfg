SPECIFICATION FairSpec
CONSTANTS
    r1 = r1
    r2 = r2
    r3 = r3
    Callers <- ThreeCallers
    Limit = 1
INVARIANTS
    ModelUsedWithinLimit
    BuiltOnce
    LoadedIsUsable
    VoiceFileWhole
PROPERTIES
    CallAnswered
