SPECIFICATION Spec
CONSTANTS
    Pages = {p1, p2}
    NoPage = NoPage
    PageBytes <- OneByte
    SlotCount = 1
    SlotBytes = 1
    PageableBudget = 1
    PinnedBudget = 1
    NvmeCap = 1
    TransferCap = 1
    ComputeCap = 1
    Contract = {}
    MaxGen = 1
    MaxTickets = 3
    MaxLeases = 1
SYMMETRY PageSymmetry
INVARIANTS
    LeaseProtectsSlot
    HeldLeaseReleasable
    LiveTicketMatchesRecord
PROPERTIES
    LeasedPageFrozen
    StaleAnswerChangesNothing
CHECK_DEADLOCK FALSE
