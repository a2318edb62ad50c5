SPECIFICATION Spec
CONSTANTS
    Tokens = {"a", "b"}
    EOS = "eos"
    Models <- TwoModels
    Prompts <- TwoPrompts
    MaxNews = {1}
    MaxRequests = 2
    MaxBatch = 2
    PrefillChunk = 2
    PinLiveNodes = TRUE
    EvictionPolicy = "Lru"
    HiddenBytes = 1
    LogitsBytes = 1
    CacheBudget = 20
    LiveStateBudget = 2
    Block = 0
    NoLogits = NoLogits
INVARIANT
    NeverPanics
CHECK_DEADLOCK FALSE
