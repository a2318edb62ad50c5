SPECIFICATION FairSpec
CONSTANTS
    Tokens = {"a", "b"}
    EOS = "eos"
    Models <- TwoModels
    Prompts <- TwoPrompts
    MaxNews = {0}
    MaxRequests = 3
    MaxBatch = 1
    PrefillChunk = 1
    PinLiveNodes = TRUE
    EvictionPolicy = "Lru"
    HiddenBytes = 1
    LogitsBytes = 1
    CacheBudget = 20
    LiveStateBudget = 2
    Block = 0
    NoLogits = NoLogits
PROPERTY
    IdleMeansDrained
CHECK_DEADLOCK FALSE
