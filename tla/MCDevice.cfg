SPECIFICATION MCSpec
CONSTANTS
  Queues = {compute, transfer}
  Commands = {c1, c2}
  Buffers = {b1}
  Jobs <- SlotJobs
  NoJob = NoJob
  MaxValue = 2
  OneSubmitter = TRUE
  SlotCount = 1
  Keys = {k1, k2}
  EvictsUnmarked = FALSE
  Wrappers = {w1, w2}
  Pages = {p1, p2, p3}
  Sizes = {1, 3}
  Capacity = 4
  MaxTime = 2
  PoolBytes = 9
  Alignment = 2
  Requests = {1, 2, 3}
  MaxHandles = 5
  MinBytes = 1
  MaxBytes = 6
  StepBytes = 2
  Headroom = 1
  FreeReadings = {0, 2, 3, 4, 7}
  MaxEpoch = 3
  PageIds = {1, 2, 3, 4}
  PageBytes = {1, 2, 4}
  HighWatermark = 3
  TargetWatermark = 2
  QueueCapacity = 2
  ArenaBytes = 5
  TransferBytes = {0, 1, 3}
  MaxTransfers = 5
  AwaitsSubmitted = TRUE
  Identities = {"i1"}
  Bases = {"b1", "b2"}
  VramMiB = 6
  Protected = 2
  Compute = 1
  Needs = {1, 3}
  RecoverAfter = 2
  SlowWindow = 2
  EventCapacity = 2
  MaxObservations = 3
  MaxSpent = 2
  MaxReserveEpoch = 3
  MaxDebt = 2
  Origins = {o1, o2}
  Tokens = {t1, t2}
  Owners = {a}
  MaxDepth = 2
  MaxGeneration = 2
  MaxRetains = 1
  MaxNodes = 4
  Contract = {"attach once", "one lease per owner", "one origin per tree",
              "retain before release"}
  Payloads = {x, y}
  MaxPuts = 2
  FileStore = FALSE
  Resources = {r1, r2}
  ResourceBytes = {0, 1, 2}
  Tiers = {"VramResident"}
  MaxEvents = 5
  MaxBumps = 1
  MaxQueued = 2
CONSTRAINT Bounds
CHECK_DEADLOCK FALSE
INVARIANTS HandlesHaveOwners SlotsHoldTheirKeys SubmissionsSound MemoryBounded
INVARIANTS MetabolismSound GraphSound StoresSound
PROPERTIES HostStepsAllowed
