SPECIFICATION HSpec
CONSTANTS
    Tokens = {"a", "b"}
    EOS = "eos"
    Models <- TwoModels
    Prompts <- NestedPrompts
    MaxNews = {0, 2}
    MaxRequests = 3
    MaxConnections = 3
    MaxBatch = 2
    PrefillChunk = 1
    PinLiveNodes = TRUE
    EvictionPolicy = "Lru"
    HiddenBytes = 1
    LogitsBytes = 1
    CacheBudget = 5
    LiveStateBudget = 2
    Block = 2
    NoLogits = NoLogits
    SpecTypes = {"none", "draft", "auto"}
INVARIANTS AnswersMatchSolo
PROPERTIES ConnectionsAnswered
CHECK_DEADLOCK FALSE
