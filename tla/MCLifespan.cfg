SPECIFICATION AppSpec
CONSTANTS
    Configured <- List
    Builtin <- Known
    Required <- QwenRequired
    Terminable <- Qwens
    Voices <- Catalogue
    Retired <- Gone
INVARIANTS
    TypeOK
    RequiredAreRegistered
    ProbeEndsFirst
PROPERTIES
    ShutdownReachesAll
    ShutdownCompletes
    VoicesProbed
\* A crashed or stopped process takes no more steps.
CHECK_DEADLOCK FALSE
