SPECIFICATION EdgeSpec
CONSTANTS
    k1 = k1
    k2 = k2
    k3 = k3
    NoAudio = NoAudio
    Keys <- ThreeKeys
    Audios = {}
    Enabled = TRUE
    MaxEntries = 2
    Recordings <- Files
    Says <- Spoken
    WantsWav <- ForWav
    Lists = {0, 26, 27}
    Budgets = {0, 3}
    AttemptTimeout = 60
    RequestTimeout = 120
    Latencies = {1, 38, 58}
INVARIANTS
    HoldsMostRecent
    TimeoutNeedsSlowAttempt
    FailureUsesBudget
    DurationTrue
    WavReadable
PROPERTIES
    ServesLastWritten
