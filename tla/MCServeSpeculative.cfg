SPECIFICATION Spec
CONSTANTS
    Tokens = {"a", "b"}
    EOS = "eos"
    Models <- TwoModels
    Prompts <- SharedPrompts
    MaxNews = {1, 3}
    MaxRequests = 3
    MaxBatch = 2
    PrefillChunk = 2
    PinLiveNodes = TRUE
    EvictionPolicy = "TrunkFirst"
    HiddenBytes = 1
    LogitsBytes = 1
    CacheBudget = 4
    LiveStateBudget = 2
    Block = 2
    NoLogits = NoLogits
INVARIANTS
    HiddenStatesExact
    PoolSound
PROPERTY
    SequencesUndisturbed
CHECK_DEADLOCK FALSE
