SPECIFICATION MCFairSpec
CONSTANTS
    Pages = {p1, p2, p3}
    NoPage = NoPage
    PageBytes <- ByteEach
    SlotCount = 1
    SlotBytes = 1
    PageableBudget = 0
    PinnedBudget = 1
    NvmeCap = 1
    TransferCap = 1
    ComputeCap = 1
    Contract = {}
    MaxGen = 1
    MaxTickets = 6
    MaxLeases = 3
    Requests = {"r1", "r2", "r3", "r4"}
    Depth = 2
    Chunks <- SomeChunks
    Hopeless = {"r4"}
INVARIANTS
    SpeculationSound
    IdleHoldsNothing
    CallsAccepted
    RequestsSettleOnce
    NoLostWakeup
PROPERTIES
    RunEnds
    CallsReturn
CHECK_DEADLOCK FALSE
