SPECIFICATION MCSpec
CONSTANTS
  TensorNames = {"t1", "t2"}
  TensorBytes = {1}
  VramBytes = 3
  MaxTensors = 1
  Namespaces = {"n1", "n2"}
  MaxHorizon = 2
  MaxBlocks = 2
  EventRoom = 1
  Alignments = {0, 16}
  AlignmentTypes = {"u32", "i32", "array"}
  DirectoryBytes = {40}
  Columns = {16, 32}
  ExpertCounts = {0, 1, 2}
  Types = {"Q4_0", "R4X_D32A", "MXFP4"}
  Offsets = {0, 32, 64, 96}
  FileBytes = {200}
  MaxItems = 1
  MaxFileTensors = 1
  Spans <- MCSpans
  Pins = {Unpinned, "a"}
  Unpinned = Unpinned
  MaxExtractions = 1
  Unit = 100
  PackageHeader = 3
  ManifestBytes = {10, 90, 91, 92, 93, 94, 95, 96, 97, 98, 99, 890, 891, 892, 893, 894, 895, 896}
  PayloadSizes = {0, 1, 100, 150}
  MaxPayloads = 1
  SidecarOffsets = {100, 150, 200}
  SidecarSizes = {0, 60, 100}
  SidecarAlignments = {50, 100}
  MaxEntries = 1
  Models <- MCModels
  Candidates <- MCCandidates
  Supported = {"Q6_K", "Q8_K_XL", "Q4_K_S"}
  Losses = {Absent, 10, 60}
  Absent = Absent
  Budgets = {500}
  Decoders <- MCDecoders
  Tokens = {0, 1, 2}
  Eos = 2
  MaxPrompt = 1
  MaxNew = 1
  Modulus = 31
  Lanes = 4
  MaxBatch = 1
  MaxValues = 1
  MaxSeq = 1
  ChunkSize = 2
  Logit <- MCLogits
  CostScale = 1000
  Residues = 101
  KernelRows <- EveryQ80Row
  HalfExp = 3
  HalfFrac = 3
  SingleExp = 5
  SingleFrac = 6
  GroupSize = 8
  CodeBits = 3
  Codes <- NarrowCodes
  CodeUnits = {1}
  ByteValues = {0, 1, 2}
  MaxRun = 2
  MaxSource = 5
CHECK_DEADLOCK FALSE
INVARIANT CanonicalQ80
