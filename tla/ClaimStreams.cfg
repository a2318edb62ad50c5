SPECIFICATION Spec
CONSTANTS
    Tokens = {"a", "b"}
    EOS = "eos"
    Models <- TwoModels
    Prompts <- TwoPrompts
    MaxNews = {2}
    MaxRequests = 2
    MaxBatch = 2
    PrefillChunk = 1
    PinLiveNodes = TRUE
    EvictionPolicy = "Lru"
    HiddenBytes = 1
    LogitsBytes = 1
    CacheBudget = 20
    LiveStateBudget = 2
    Block = 1
    NoLogits = NoLogits
INVARIANT
    StreamsMatchSolo
CHECK_DEADLOCK FALSE
