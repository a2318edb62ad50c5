----------------------------- MODULE MCPipeline -----------------------------
(***************************************************************************)
(* Checks the path of a model from its file to a token: the readers of the *)
(* file, the allocation of formats, the slices and packages, the plans and *)
(* the engine, the decoders, their tokenizers, kernels, the codecs of the  *)
(* KV pages and back ends.  The parts share no state.  A behaviour steps   *)
(* the one state machine chosen at the start, or holds one input of the    *)
(* algorithms that are functions.                                          *)
(***************************************************************************)
EXTENDS Execution, GgufReaders, Containers, Layouts, Allocation, NativeDecode, QuantLayouts,
        Workgroup, Tokenizers, ServingModels, R4kvPages, TLC

CONSTANTS KernelRows, \* the kernels, rows and blocks to a row that are dispatched
          \* of PageCodecs:
          HalfExp, HalfFrac, SingleExp, SingleFrac, GroupSize, CodeBits, Codes, CodeUnits,
          ByteValues, MaxRun, MaxSource

VARIABLES part, input, number, group, bytes

Codecs == INSTANCE PageCodecs WITH source <- bytes
codecVars == <<number, group, bytes>>
mvars == <<part, input, evars, cvars, avars, nvars, wvars, codecVars>>

ExecutionRests == /\ model = 0 /\ plan = 0 /\ block = 0 /\ at = 0 /\ outcome = 0 /\ resolved = 0
                  /\ collector = 0
ContainersRest == /\ source = 0 /\ slice = 0 /\ package = 0 /\ extract = 0 /\ verify = 0
                  /\ rebuild = 0 /\ written = 0
AllocationRests == /\ tensors = 0 /\ measured = 0 /\ budget = 0 /\ choices = 0 /\ phase = 0
DecoderRests == /\ decoder = 0 /\ prompt = 0 /\ fed = 0 /\ hidden = 0 /\ layer = 0 /\ token = 0
                /\ position = 0 /\ caches = 0 /\ recurrent = 0 /\ logits = 0 /\ generated = 0
                /\ status = 0
WorkgroupRests == job = 0 /\ code = 0 /\ pc = 0 /\ shared = 0 /\ private = 0 /\ output = 0

-----------------------------------------------------------------------------
(* The inputs of the functions.                                             *)
(* One tensor of every type and place, or two that follow one another.      *)
Files == {f \in File : /\ Len(f.tensors) = 2 =>
                            /\ f.alignments = <<>>
                            /\ f.tensors[1].layer = 0 /\ f.tensors[1].projection = "gate"
                       /\ Len(f.tensors) = 1 => f.tensors[1].layer = 0}

(* One entry of every kind in every sidecar, or two in one with the header  *)
(* the index expects.                                                       *)
Sidecars == {s \in Sidecar : Len(s.entries) = 2 =>
                 s.digest = "index" /\ s.data = Unit /\ s.entries[1].expert = 0}

Letters == {97, 98, 32, 39, 115, 49, 233, 60}
SingleBytes == << <<97>>, <<98>>, <<115>>, <<39>>, <<49>>, <<60>>, <<62>>, <<32>>, <<288>>, <<195>>, <<169>> >>
Words == { <<>>, << <<97, 98>>, <<97, 97>>, <<97, 98, 97>> >>,
           << <<97, 97>>, <<288, 97>>, <<195, 169>>, <<60, 62>>, <<39, 115>>, <<97>> >> }
Pair(a, b) == <<a, b>>
MergeLists ==
    { <<>>,
      << Pair(<<97>>, <<98>>), Pair(<<97>>, <<97>>), Pair(<<97, 98>>, <<97>>) >>,
      << Pair(<<97>>, <<97>>), Pair(<<288>>, <<97>>), Pair(<<195>>, <<169>>), Pair(<<60>>, <<62>>),
         Pair(<<39>>, <<115>>), Pair(<<97>>, <<98>>), Pair(<<97>>, <<97>>) >> }
Vocabularies == {[tokens |-> SingleBytes \o w, merges |-> m] : w \in Words, m \in MergeLists}
Texts == UpTo(Letters, 2) \cup [1..4 -> {97, 98, 32, 233}] \cup [1..5 -> {97, 98}]
           \cup [1..3 -> {10, 32, 97, 39}] \cup [1..2 -> {60, 62, 97}] \cup {<<39, 83>>, <<39, 76, 108>>}

HorizonPlans == {p \in [min : 0..3, max : 0..4] : PlanAccepted(p.min, p.max)}
DepthCosts == {<<0, 0>>, <<1, 0>>, <<2, 1>>, <<3, 2>>, <<0, 6>>}
DenseShapes == [layers : {1, 2}, heads : {2}, kv : {1, 2}]
                 \cup {[layers |-> 2, heads |-> 4, kv |-> 2]}

(* Pages that differ in every field, restored into every stream near them;  *)
(* and pages written over one another.                                      *)
Headers(fields) == [prefix : fields, start : {1}, pos : fields, lo : {1, 2}, hi : {2, 3},
                    kFmt : {1, 3}, vFmt : {3}, generation : fields]
LiveStreams == [prefix : {1, 2}, start : {1, 2}, pos : {1, 2}, lo : {1, 2}, hi : {2, 3},
            kFmt : {1, Anything}, vFmt : {0, 3, Anything}, generation : {1, Anything}]
OnePage == {[header |-> h, body |-> <<5, 6>>] : h \in Headers({1, 2})}
Overwritten == {[header |-> h, body |-> b] :
                   h \in {g \in Headers({1, 2}) : g.pos = 1 /\ g.lo = 1 /\ g.hi = 3},
                   b \in {<<>>, <<5>>, <<5, 6>>, <<5, 7>>, <<8, 6>>}}
AnyOf(p) == [prefix |-> p, start |-> 1, pos |-> 1, lo |-> 2, hi |-> 3,
             kFmt |-> Anything, vFmt |-> Anything, generation |-> Anything]

TensorOf(n, d, b) == [name |-> n, dtype |-> d, elements |-> 2, bytes |-> b]
Captures == [q : 0..4, kv : 0..3, map : UpTo(0..2, 4), prefix : {1}, generated : {1}, total : {2},
             origins : {<<"prefix", "generated">>}, paged : {TRUE}, probs : {TRUE}, tensors : {{}}]
            \cup [q : {2}, kv : {1}, map : {<<0, 0>>}, prefix : 0..1, generated : 0..1, total : 0..2,
                  origins : UpTo({"prefix", "generated"}, 2), paged : BOOLEAN, probs : BOOLEAN,
                  tensors : {{TensorOf("Q", "f16", 4), TensorOf("K", "f32", k), TensorOf("V", v, 4)} :
                                k \in {4, 8}, v \in {"bf16", "f64"}}]
Held == {[Q |-> 4, K |-> 8, V |-> n] : n \in {4, 8}}

InputsOf(kind) ==
    CASE kind = "file"   -> [kind : {kind}, of : Files]
      [] kind = "layout" -> [kind : {kind}, base : ManifestBytes, sizes : Lists(PayloadSizes, MaxPayloads)]
      [] kind = "sidecar" -> [kind : {kind}, of : Sidecars]
      [] kind = "rows"   -> [kind : {kind}, columns : {0, 2, 3, 4}, rows : 0..3, block : {2}, bytes : {3}]
      [] kind = "format" -> [kind : {kind}, of : DOMAIN BlockBytes]
      [] kind = "kernel" -> [kind : {kind}, of : KernelRows]
      [] kind = "byte"   -> [kind : {kind}, of : 0..255]
      [] kind = "text"   -> [kind : {kind}, vocabulary : Vocabularies, text : Texts]
      [] kind = "horizon" ->
            [kind : {kind}, plan : HorizonPlans,
             of : [candidate : 0..3, permitted : BOOLEAN, acceptance : {50}, backlogged : {FALSE},
                   costs : UNION {[1..n -> DepthCosts] : n \in {2, 3}}, slack : {<<>>, <<2, 2>>}]
                  \cup [candidate : {3}, permitted : {TRUE}, acceptance : {0, 50}, backlogged : BOOLEAN,
                        costs : [1..3 -> DepthCosts], slack : {<<>>}]]
      [] kind = "dense"  -> [kind : {kind}, shape : DenseShapes, tokens : UpTo(0..2, 4)]
      [] kind = "moe"    -> [kind : {kind}, of : [experts : {3, 4}, topK : {1, 2, 3}, shared : BOOLEAN],
                             inputs : UNION {[1..n -> [hidden : {0, 5}, token : 0..2]] : n \in 1..3}]
      [] kind = "page"   -> {[kind |-> kind, old |-> p, new |-> p, stream |-> s] : p \in OnePage, s \in LiveStreams}
                              \cup [kind : {kind}, old : Overwritten, new : Overwritten,
                                    stream : {AnyOf(p) : p \in {1, 2}}]
      [] kind = "capture" -> [kind : {kind}, of : Captures, held : Held]
Kinds == {"page", "capture", "file", "layout", "sidecar", "rows", "format", "kernel", "byte", "text", "horizon", "dense", "moe"}

(* Every kernel reads rows of one block and of several, except that         *)
(* q8_0_gemv is given what it can read: even rows of a single block.        *)
Dispatched ==
    {k \in [kernel : Kernels, row : 0..3, bpr : {1, 2, 7, 8}] :
        /\ k.kernel = "q8_gemv" => k.bpr = 1 /\ k.row % 2 = 0
        /\ k.kernel = "q8_kv" => k.bpr = 8}
(* What the header of q8_0_gemv.comp admits.                                *)
EveryQ80Row == [kernel : {"q8_gemv"}, row : 0..49, bpr : {1, 2}]

-----------------------------------------------------------------------------
(* One plan of two tensors for the blocks; every plan is checked on its own.*)
BlockPlan == /\ Len(model) = 2 /\ plan = CompileModel(model)
             /\ model[1].name # model[2].name /\ model[1].hot /\ ~model[2].hot
             /\ \A i \in 1..2 : model[i].kernel = "dense" /\ model[i].bytes = 2
             /\ model[1].name = CHOOSE n \in TensorNames : TRUE

MCInit ==
    /\ part \in {"input", "plan", "block", "container", "format", "decode", "workgroup",
                "numbers", "groups", "bytes"}
    /\ Codecs!CInit
    /\ IF part \in {"plan", "block"} THEN EInit /\ (part = "block" => BlockPlan) ELSE ExecutionRests
    /\ IF part = "container" THEN CInit ELSE ContainersRest
    /\ IF part = "format" THEN AInit ELSE AllocationRests
    /\ IF part = "decode" THEN DInit ELSE DecoderRests
    /\ IF part = "workgroup" THEN WInit ELSE WorkgroupRests
    /\ IF part = "input" THEN \E kind \in Kinds : input \in InputsOf(kind) ELSE input = [kind |-> "none"]

CodecNext == \/ part = "numbers" /\ Codecs!NextNumber
             \/ part = "groups" /\ Codecs!NextGroup
             \/ part = "bytes" /\ Codecs!NextSource

MCNext ==
    /\ UNCHANGED <<part, input>>
    /\ \/ part = "block" /\ ENext /\ UNCHANGED <<cvars, avars, nvars, wvars, codecVars>>
       \/ part = "container" /\ CNext /\ UNCHANGED <<evars, avars, nvars, wvars, codecVars>>
       \/ part = "format" /\ ANext /\ UNCHANGED <<evars, cvars, nvars, wvars, codecVars>>
       \/ part = "decode" /\ DNextToken /\ UNCHANGED <<evars, cvars, avars, wvars, codecVars>>
       \/ part = "workgroup" /\ WNext /\ UNCHANGED <<evars, cvars, avars, nvars, codecVars>>
       \/ CodecNext /\ UNCHANGED <<evars, cvars, avars, nvars, wvars>>

MCSpec == MCInit /\ [][MCNext]_mvars

-----------------------------------------------------------------------------
(* PlanSound of every plan compiled, imported or read back; BlocksCounted   *)
(* of every sequence of speculative blocks.                                 *)
EngineSound == /\ part = "plan" => PlanSound
               /\ part = "block" => BlocksCounted

(* AllocationHonest for every model, measurement and budget.                *)
FormatsHonest == part = "format" => AllocationHonest

(* DecodingExact and KernelsExact for every prompt and every dispatch.      *)
TokensExact == part = "decode" => DecodingExact
DispatchesExact == part = "workgroup" => KernelsExact

(* What is written to a file is found there again: slices and packages      *)
(* under every interleaving of the commands that write them, the readers of *)
(* a model file agree and stay inside it, packages and sidecars settle      *)
(* apart, ranges of rows are those rows, a stored KV page restores whole or *)
(* not at all, and a capture that is valid can be replayed.                 *)
FilesSound ==
    /\ part = "container" => ContainersSound
    /\ input.kind = "file" => ReadersAgree(input.of) /\ RowsInside(input.of)
    /\ input.kind = "layout" => LayoutSettles(input.base, input.sizes)
    /\ input.kind = "sidecar" => VerifiedServes(input.of)
    /\ input.kind = "rows" => RowsAreRows(input)
    /\ input.kind = "page" => PageFailsClosed(input.old, input.new, input.stream)
    /\ input.kind = "capture" => CaptureReplayable(input.of, input.held)

(* The kernels find the bits of their weights: no bit serves two weights    *)
(* and each kernel reads what the format's reference reads, but for the     *)
(* codes of the eighth block where q4k_batched is given that many.          *)
WeightsFound ==
    /\ input.kind = "format" => BitsUsedOnce(input.of)
    /\ input.kind = "kernel" =>
         IF input.of.kernel = "q4k_batched" /\ input.of.bpr = 8
         THEN LeavesLastCodes(input.of.row)
         ELSE ReadsItsRow(input.of.kernel, input.of.row, input.of.bpr)

(* A text comes back through either tokenizer, the serving back ends        *)
(* compute what their layouts promise, and no draft depth up to the plan's  *)
(* maximum promises more for its cost than the one chosen.                  *)
BackEndsFaithful ==
    /\ input.kind = "byte" => SpellsBack(input.of)
    /\ input.kind = "text" => TextReturns(input.vocabulary, input.text)
    /\ input.kind = "dense" => PackingFaithful(input.shape, input.tokens)
    /\ input.kind = "moe" => BatchingExact(input.of, input.inputs)
    /\ input.kind = "horizon" => HorizonSound(input.plan, input.of)

(* r4kv codecs and half precision: what is packed comes back, and what is   *)
(* quantized as near as a step rounded to half precision allows.            *)
CodecsSound == /\ part \in {"groups", "bytes"} => Codecs!CodecsRoundTrip
               /\ part = "numbers" => Codecs!NearestHalf

(* q8_0_gemv.comp:3, "The layout is the canonical GGML Q8_0 block: fp16 d   *)
(* followed by 32 signed int8 quants (34 bytes per block)": for any row of  *)
(* any number of blocks the kernel reads the row.                           *)
CanonicalQ80 == input.kind = "kernel" => ReadsItsRow(input.of.kernel, input.of.row, input.of.bpr)

(* Instances of the sequences and sets a configuration file cannot write.   *)
NarrowCodes == {-3, -1, 2}
MCSpans == <<"a", "b", "a">>
MCNames == {[markers |-> {"router"}, projection |-> "none"],
            [markers |-> {"expert", "ffn"}, projection |-> "up"],
            [markers |-> {"attn", "output"}, projection |-> "o"],
            [markers |-> {"norm", "attn"}, projection |-> "q"]}
MCModels == {<<[name |-> a, blocks |-> 3], [name |-> b, blocks |-> 2]>> : a \in MCNames, b \in MCNames}
MCCandidates == <<"Q6_K", "Q4_K_S", "Q8_K_XL">>
MCDecoders ==
    {[layers |-> 2, interval |-> 1, taps |-> 2, experts |-> 1, used |-> 1, bounded |-> TRUE],
     [layers |-> 3, interval |-> 2, taps |-> 3, experts |-> 3, used |-> 2, bounded |-> FALSE],
     [layers |-> 2, interval |-> 0, taps |-> 2, experts |-> 2, used |-> 1, bounded |-> FALSE],
     [layers |-> 2, interval |-> 1, taps |-> 2, experts |-> 2, used |-> 3, bounded |-> FALSE]}
MCLogits == {NaN, 0, 1}
=============================================================================
