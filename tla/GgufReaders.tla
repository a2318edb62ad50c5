---------------------------- MODULE GgufReaders -----------------------------
(***************************************************************************)
(* The three readers of a GGUF tensor directory: har-model's GgufReader    *)
(* ("core"), har-storage's expert index ("store") and har-model-compiler's *)
(* GgufInspector ("compiler"); the expert slices and the row windows that  *)
(* are read through the offsets they compute.  A file is the alignment     *)
(* entries of its metadata, its expert count (0: none declared), the       *)
(* length of its directory and the tensors it lists.                       *)
(***************************************************************************)
EXTENDS Integers, SequencesExt

CONSTANTS Alignments, AlignmentTypes, DirectoryBytes, Columns, ExpertCounts, Types, Offsets,
          FileBytes, MaxItems, MaxFileTensors

ASSUME ReaderAssumption ==
    UNION {Alignments, DirectoryBytes, Columns, ExpertCounts, Offsets, FileBytes} \subseteq Nat

Projections == {"gate", "up", "down"}
FileTensor == [projection : Projections \cup {"none"}, layer : {0, 1}, columns : Columns,
               experts : ExpertCounts \ {0}, type : Types, offset : Offsets]
UpTo(S, n) == UNION {[1..k -> S] : k \in 0..n}
File == [alignments : UpTo([type : AlignmentTypes, value : Alignments], MaxItems),
         directory : DirectoryBytes, experts : ExpertCounts, bytes : FileBytes,
         tensors : UpTo(FileTensor, MaxFileTensors)]

Bottom(x) == IF x < 0 THEN 0 ELSE x
DivCeil(a, b) == (a + b - 1) \div b
Align(x, a) == IF a = 0 THEN x ELSE DivCeil(x, a) * a

-----------------------------------------------------------------------------
(* Elements and bytes of a block, per type; a type a reader does not know   *)
(* is not in its table.                                                     *)
Common == [F32 |-> <<1, 4>>, F16 |-> <<1, 2>>, BF16 |-> <<1, 2>>,
           Q4_0 |-> <<32, 18>>, Q4_1 |-> <<32, 20>>, Q5_0 |-> <<32, 22>>, Q5_1 |-> <<32, 24>>,
           Q8_0 |-> <<32, 34>>, Q2_K |-> <<256, 84>>, Q3_K |-> <<256, 110>>,
           Q4_K |-> <<256, 144>>, Q5_K |-> <<256, 176>>, Q6_K |-> <<256, 210>>, Q8_K |-> <<256, 292>>]
CoreTable == Common @@ [R4X_D32A |-> <<256, 144>>, MXFP4 |-> <<256, 256>>]
StoreTable == Common @@ [Q8_1 |-> <<32, 36>>, MXFP4 |-> <<32, 17>>, NVFP4 |-> <<64, 36>>]
CompilerTable == Common @@ [Q8_1 |-> <<32, 36>>]
Table == [core |-> CoreTable, store |-> StoreTable, compiler |-> CompilerTable]

Elements(t) == t.columns * t.experts
Known(reader, t) == IF t.type \in DOMAIN Table[reader]
                    THEN DivCeil(Elements(t), Table[reader][t.type][1]) * Table[reader][t.type][2]
                    ELSE 0

(* The declared alignment.  The general readers parse the text of whatever  *)
(* number or string is there, the last entry winning; an array is text that *)
(* is no number to one and no entry at all to the other.  The store takes   *)
(* the two unsigned types only.                                             *)
Numeric(e) == e.type # "array"
LastOf(s, default) == IF s = <<>> THEN default ELSE Last(s).value
AlignmentOf(reader, f) ==
    CASE reader = "core" ->
            LET e == f.alignments
                v == IF e # <<>> /\ ~Numeric(Last(e)) THEN 32 ELSE LastOf(e, 32)
            IN IF v = 0 THEN 1 ELSE v
      [] reader = "compiler" -> LastOf(SelectSeq(f.alignments, Numeric), 32)
      [] reader = "store" ->
            LastOf(SelectSeq(f.alignments, LAMBDA e : e.type \in {"u32", "u64"}), 32)

DataStart(reader, f) == Align(f.directory, AlignmentOf(reader, f))

Accepts(reader, f) ==
    CASE reader = "core" -> DataStart(reader, f) <= f.bytes
      [] reader = "store" -> AlignmentOf(reader, f) \in 1..1048576
      [] reader = "compiler" -> TRUE

(* Distance to the tensor that follows in the file; tensors at one offset   *)
(* follow in directory order.                                               *)
Followers(f, i) == {j \in DOMAIN f.tensors :
                      \/ f.tensors[j].offset > f.tensors[i].offset
                      \/ f.tensors[j].offset = f.tensors[i].offset /\ j > i}
Span(f, i) == Min({f.tensors[j].offset : j \in Followers(f, i)}) - f.tensors[i].offset

(* A tensor as the two general readers describe it.  An unknown type takes  *)
(* its span; to the core reader a tensor of no bytes is unknown too.        *)
Described(reader, f, i) ==
    LET t == f.tensors[i]
        rest == IF Followers(f, i) # {} THEN Span(f, i)
                ELSE Bottom(f.bytes - (DataStart(reader, f) + t.offset))
        sized == IF reader = "core" THEN Known(reader, t) # 0 ELSE t.type \in DOMAIN Table[reader]
    IN [offset |-> DataStart(reader, f) + t.offset,
        bytes |-> IF sized THEN Known(reader, t) ELSE rest]

-----------------------------------------------------------------------------
(* ExpertIndex::from_gguf: a stacked tensor is cut into one slice per       *)
(* expert when its last dimension is the expert count and its bytes divide  *)
(* evenly; a tensor that cannot be cut is left out silently.  The count is  *)
(* the first one a shard declares, else the tensor's own dimension.         *)
ExpertCount(shards, t) ==
    LET declared == SelectSeq(shards, LAMBDA f : f.experts > 0)
    IN IF declared = <<>> THEN t.experts ELSE declared[1].experts

ParentBytes(f, i) ==
    IF f.tensors[i].type \in DOMAIN StoreTable THEN Known("store", f.tensors[i])
    ELSE IF Followers(f, i) # {} THEN Span(f, i) ELSE 0

Stacked(shards, s, i) ==
    LET t == shards[s].tensors[i] IN
    /\ t.projection \in Projections
    /\ ExpertCount(shards, t) > 0 /\ t.experts = ExpertCount(shards, t)
    /\ ParentBytes(shards[s], i) > 0 /\ ParentBytes(shards[s], i) % t.experts = 0

Slice(shards, s, i, e) ==
    LET f == shards[s]
        t == f.tensors[i]
        share == ParentBytes(f, i) \div t.experts
    IN [page |-> <<t.layer, e, t.projection>>, shard |-> s, bytes |-> share,
        offset |-> DataStart("store", f) + t.offset + e * share]

ExpertIndex(shards) ==
    {Slice(shards, x[1], x[2], x[3]) :
        x \in {y \in (DOMAIN shards) \X (1..MaxFileTensors) \X (0..Max(ExpertCounts)) :
                 /\ y[2] \in DOMAIN shards[y[1]].tensors
                 /\ Stacked(shards, y[1], y[2])
                 /\ y[3] < shards[y[1]].tensors[y[2]].experts}}

-----------------------------------------------------------------------------
(* load_rows reads the first rows of a tensor of one of three row formats;  *)
(* a row that is no whole number of blocks is a panic for two of them, and  *)
(* the third has a row size but no backend.  read_tensor_range refuses what *)
(* leaves the tensor.                                                       *)
RowBytes(t) == LET b == CoreTable[t.type] IN DivCeil(t.columns, b[1]) * b[2]
LoadRows(f, i, rows) ==
    LET t == f.tensors[i]
        d == Described("core", f, i)
    IN CASE t.type \notin {"Q4_0", "Q4_K", "R4X_D32A"} -> "Unsupported"
         [] t.type # "R4X_D32A" /\ t.columns % CoreTable[t.type][1] # 0 -> "Panic"
         [] t.type # "R4X_D32A" /\ t.columns % CoreTable[t.type][1] = 0
            /\ (rows = 0 \/ rows * RowBytes(t) > d.bytes) -> "Refused"
         [] OTHER -> IF t.type = "R4X_D32A"
                     THEN IF rows = 0 \/ rows * RowBytes(t) > d.bytes THEN "Refused" ELSE "Panic"
                     ELSE "Loaded"

-----------------------------------------------------------------------------
(* A file a converter writes: one alignment, declared as an unsigned        *)
(* number or left at its default, and tensors of types every reader knows,  *)
(* in the order of their offsets, apart from each other and aligned.        *)
Converted(f) ==
    /\ Len(f.alignments) <= 1
    /\ \A k \in DOMAIN f.alignments :
         f.alignments[k].type \in {"u32", "u64"} /\ f.alignments[k].value > 0
    /\ \A i \in DOMAIN f.tensors :
         /\ f.tensors[i].type \in DOMAIN Common
         /\ f.tensors[i].offset % AlignmentOf("store", f) = 0
         /\ \A j \in DOMAIN f.tensors : i < j =>
              f.tensors[i].offset + Known("store", f.tensors[i]) <= f.tensors[j].offset
    /\ DataStart("store", f) <= f.bytes

(***************************************************************************)
(* The readers agree on every file a converter writes: all accept it and   *)
(* give every tensor the same place and length, and what the expert index  *)
(* makes of the file lies in those places: the slices of a tensor tile it, *)
(* no two slices overlap, and two slices of one page are of two tensors.   *)
(***************************************************************************)
ReadersAgree(f) ==
    Converted(f) =>
        /\ \A r \in DOMAIN Table : Accepts(r, f)
        /\ \A i \in DOMAIN f.tensors :
             /\ Described("core", f, i) = Described("compiler", f, i)
             /\ Stacked(<<f>>, 1, i) =>
                  LET d == Described("compiler", f, i)
                      cut == {Slice(<<f>>, 1, i, e) : e \in 0..(f.tensors[i].experts - 1)}
                  IN /\ \A x \in cut : x.offset >= d.offset /\ x.offset + x.bytes <= d.offset + d.bytes
                     /\ MapThenSumSet(LAMBDA x : x.bytes, cut) = d.bytes
        /\ \A x, y \in ExpertIndex(<<f>>) :
             x # y => x.offset + x.bytes <= y.offset \/ y.offset + y.bytes <= x.offset

(***************************************************************************)
(* Rows that are loaded lie inside their tensor and are whole rows: the   *)
(* first so many shares of the tensor when its rows are stored one after   *)
(* another.                                                                *)
(***************************************************************************)
RowsInside(f) ==
    \A i \in DOMAIN f.tensors, rows \in 0..Max(ExpertCounts) :
        LoadRows(f, i, rows) = "Loaded" =>
            /\ f.tensors[i].columns % CoreTable[f.tensors[i].type][1] = 0
            /\ rows * RowBytes(f.tensors[i]) = Known("core", [f.tensors[i] EXCEPT !.experts = rows])
            /\ rows <= f.tensors[i].experts
=============================================================================
