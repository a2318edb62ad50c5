SPECIFICATION FairSpec
CONSTANTS
    Tokens = {"a", "b"}
    EOS = "eos"
    Models <- ThreeModels
    Prompts <- TwoPrompts
    MaxNews = {0, 2}
    MaxRequests = 4
    MaxBatch = 2
    PrefillChunk = 1
    PinLiveNodes = TRUE
    EvictionPolicy = "Lru"
    HiddenBytes = 1
    LogitsBytes = 1
    CacheBudget = 5
    LiveStateBudget = 2
    Block = 0
    NoLogits = NoLogits
INVARIANTS
    StreamsMatchSolo
    NeverPanics
PROPERTIES
    SequencesUndisturbed
    LoopsEndAtRest
CHECK_DEADLOCK FALSE
