SPECIFICATION MCSpec
CONSTANTS
  TensorNames = {"t1", "t2"}
  TensorBytes = {1, 2}
  VramBytes = 3
  MaxTensors = 2
  Namespaces = {"n1", "n2"}
  MaxHorizon = 2
  MaxBlocks = 2
  EventRoom = 1
  Alignments = {0, 16}
  AlignmentTypes = {"u32", "i32", "array"}
  DirectoryBytes = {40}
  Columns = {16, 32}
  ExpertCounts = {0, 1, 2}
  Types = {"Q4_0", "R4X_D32A", "MXFP4"}
  Offsets = {0, 32, 64, 96}
  FileBytes = {200}
  MaxItems = 1
  MaxFileTensors = 2
  Spans <- MCSpans
  Pins = {Unpinned, "a"}
  Unpinned = Unpinned
  MaxExtractions = 2
  Unit = 100
  PackageHeader = 3
  ManifestBytes = {10, 90, 91, 92, 93, 94, 95, 96, 97, 98, 99, 890, 891, 892, 893, 894, 895, 896}
  PayloadSizes = {0, 1, 100, 150}
  MaxPayloads = 4
  SidecarOffsets = {100, 150, 200}
  SidecarSizes = {0, 60, 100}
  SidecarAlignments = {50, 100}
  MaxEntries = 2
  Models <- MCModels
  Candidates <- MCCandidates
  Supported = {"Q6_K", "Q8_K_XL", "Q4_K_S"}
  Losses = {Absent, 10, 60}
  Absent = Absent
  Budgets = {500, 700, 1000}
  Decoders <- MCDecoders
  Tokens = {0, 1, 2}
  Eos = 2
  MaxPrompt = 3
  MaxNew = 3
  Modulus = 31
  Lanes = 4
  MaxBatch = 2
  MaxValues = 5
  MaxSeq = 3
  ChunkSize = 2
  Logit <- MCLogits
  CostScale = 1000
  Residues = 101
  KernelRows <- Dispatched
  HalfExp = 3
  HalfFrac = 3
  SingleExp = 5
  SingleFrac = 6
  GroupSize = 8
  CodeBits = 3
  Codes <- NarrowCodes
  CodeUnits = {1, 5, 40, 400}
  ByteValues = {0, 1, 2}
  MaxRun = 2
  MaxSource = 5
CHECK_DEADLOCK FALSE
INVARIANTS EngineSound FormatsHonest TokensExact DispatchesExact
INVARIANTS FilesSound WeightsFound BackEndsFaithful CodecsSound
