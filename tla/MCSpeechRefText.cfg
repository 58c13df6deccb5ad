SPECIFICATION Spec
CONSTANTS
    r1 = r1
    r2 = r2
    r3 = r3
    Requests <- ThreeRequests
    Bodies <- TwoRefTexts
    Provider = "m"
    Registered <- OneProvider
    ByLanguage <- RoutingTable
    Default = "m"
    Lower <- LowerCase
    Catalog <- Clips
    Sidecars <- Transcripts
    Uploads <- OneUpload
    RefVoices <- Ids
    LongTexts <- NoLongTexts
    NativeFormat = "wav"
    NativeRate = 24000
    Limit = 1
    MaxQueueDepth = 1
    CacheEnabled = TRUE
    MaxEntries = 1
    None = None
    Cancellable = FALSE
INVARIANTS
    AnswerUsesRefText
