SPECIFICATION Spec
CONSTANTS
    Pages = {p1, p2}
    NoPage = NoPage
    PageBytes <- OneByte
    SlotCount = 2
    SlotBytes = 1
    PageableBudget = 2
    PinnedBudget = 2
    NvmeCap = 1
    TransferCap = 2
    ComputeCap = 2
    Contract = {"own slot", "own kind"}
    MaxGen = 1
    MaxTickets = 2
    MaxLeases = 2
SYMMETRY PageSymmetry
INVARIANTS
    IInv
    BudgetsHold
PROPERTY ImplementsOwnership
CHECK_DEADLOCK FALSE
