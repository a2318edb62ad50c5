----------------------------- MODULE ServeScheduler -----------------------------
(***************************************************************************)
(* har-serve/src/scheduler.rs: continuous batching over one pool of cached *)
(* states keyed by the nodes of a prefix graph.                            *)
(*                                                                         *)
(* step() runs under &mut self, so a call is a step: admission, sampling   *)
(* from cached logits, one prefill chunk or one decode step for every      *)
(* running sequence, release of pins, eviction.                            *)
(*                                                                         *)
(* A prefix-graph node is the token string that leads to it.  A hidden     *)
(* state is the string it was computed from, and a row of logits is the    *)
(* state it was computed at: what they say is right exactly when that      *)
(* string is the one the sequence has consumed.  Abstracted: KV page       *)
(* records, telemetry, and the report except for its kind.                 *)
(***************************************************************************)
EXTENDS Integers, Sequences, FiniteSets, SequencesExt, FiniteSetsExt, Functions

CONSTANTS
    Tokens, EOS,        \* the vocabulary without, and its end-of-stream token
    Models,             \* next token by last token consumed, EOS included
    Prompts, MaxNews,   \* what callers submit
    MaxRequests,        \* bound: calls to submit
    MaxBatch, PrefillChunk, PinLiveNodes, EvictionPolicy, \* ServeConfig
    HiddenBytes, LogitsBytes,                  \* CachedState::bytes
    CacheBudget, LiveStateBudget,              \* max_cache_bytes, max_live_state_bytes
    Block,              \* SpecConfig::block; 0 is a model without speculation
    NoLogits            \* None

ASSUME ServeAssumption ==
    /\ EOS \notin Tokens
    /\ Models \subseteq [Tokens \cup {EOS} -> Tokens \cup {EOS}]
    /\ Prompts \subseteq Seq(Tokens) \ {<<>>} /\ MaxNews \subseteq Nat
    /\ {MaxRequests, MaxBatch, CacheBudget, LiveStateBudget, Block} \subseteq Nat
    /\ {PrefillChunk, HiddenBytes, LogitsBytes} \subseteq Nat \ {0}
    /\ PinLiveNodes \in BOOLEAN /\ EvictionPolicy \in {"Lru", "TrunkFirst"}

\* None is not a row of logits.
ASSUME NoLogitsAssumption == NoLogits \notin Seq(Tokens \cup {EOS})

VARIABLES
    greedy,     \* argmax of the model's logits, given the last token consumed
    graph,      \* the nodes of the prefix graph
    cache,      \* state_cache
    cacheBytes,
    sequences,  \* admitted so far, by SequenceId
    queue,      \* submitted and not admitted
    stepIndex,
    report,     \* StepReport::kind of the last step
    panicked

vars == <<greedy, graph, cache, cacheBytes, sequences, queue, stepIndex, report,
          panicked>>

Running(s)   == s.state = "Running"
Live         == {i \in DOMAIN sequences : Running(sequences[i])}
PromptLen(s) == Len(s.stream) - s.generated
Upto(s, d)   == SubSeq(s, 1, d)
Path(s)      == Upto(s.stream, s.consumed)          \* Sequence::node
Bytes(c, n)  == HiddenBytes + IF c[n].logits = NoLogits THEN 0 ELSE LogitsBytes
BytesOf(c, N) == SumFunctionOnSet([n \in N |-> Bytes(c, n)], N)
Now          == stepIndex + 1
Monus(a, b)  == Max({0, a - b})

Init ==
    /\ greedy \in Models
    /\ graph = {<<>>} /\ cache = <<>> /\ cacheBytes = 0
    /\ sequences = <<>> /\ queue = <<>> /\ stepIndex = 0
    /\ report = "None" /\ panicked = FALSE

Submit(prompt, n) ==
    /\ ~panicked /\ Len(sequences) + Len(queue) < MaxRequests
    /\ queue' = Append(queue, [stream |-> prompt, max_new |-> n])
    /\ UNCHANGED <<greedy, graph, cache, cacheBytes, sequences, stepIndex, report,
                   panicked>>

(***************************************************************************)
(* admit: as many queued requests as the batch and the live-state budget   *)
(* leave room for, in order.  Nothing becomes resident meanwhile.          *)
(***************************************************************************)
Resident(n)  == n \in graph /\ n \in DOMAIN cache
\* `request` is the prompt again, kept for the properties: the code's prompt() loses a
\* token once an EOS is counted.  longest_prefix stops at the first node that is not resident.
Matched(prompt) ==
    Max({d \in 0..Len(prompt) : \A j \in 1..d : Resident(Upto(prompt, j))})

\* Cached logits seed the first sample only when the whole prompt is resident.  The
\* variants take them at any match, and never.
PendingForgotten(prompt, d) == NoLogits
PendingPartial(prompt, d) ==
    IF d > 0 THEN cache[Upto(prompt, d)].logits ELSE NoLogits
Pending(prompt, d) == IF d = Len(prompt) THEN cache[prompt].logits ELSE NoLogits

\* The variant loads the cached state only with its logits.
HiddenOfWhole(prompt, d) == IF d # Len(prompt) THEN <<>> ELSE cache[prompt].hidden
Hidden(prompt, d)        == IF d = 0 THEN <<>> ELSE cache[Upto(prompt, d)].hidden

Resumed(q) ==
    LET d == Matched(q.stream) IN
    [request |-> q.stream, stream |-> q.stream, max_new |-> q.max_new, generated |-> 0,
     state |-> "Running", consumed |-> d, pending |-> Pending(q.stream, d),
     hidden |-> Hidden(q.stream, d)]

\* The variant goes on counting finished sequences.
MaxLive    == Min({MaxBatch, LiveStateBudget \div HiddenBytes})
RoomForAll == Monus(MaxLive, Len(sequences))
Room       == Monus(MaxLive, Cardinality(Live))
Admitted == [i \in 1..Min({Len(queue), Room}) |-> Resumed(queue[i])]

\* Sequence i of f holds node n when n is on its path.
Holders(f, I, n) == Cardinality({i \in I : IsPrefix(n, Path(f[i]))})
PinTimes(e, k)   == IF PinLiveNodes /\ k > 0
                    THEN [e EXCEPT !.pinned = @ + k, !.last = Now] ELSE e

\* A match is an access of the matched node and pin_path pins all of its path.  The
\* variant pins the matched node alone.
AfterAdmissionPinningOne(new) ==
    [n \in DOMAIN cache |->
        PinTimes(cache[n], Cardinality({i \in DOMAIN new : n = Path(new[i])}))]
AfterAdmission(new) ==
    [n \in DOMAIN cache |->
        LET hit == \E i \in DOMAIN new : n = Path(new[i])
        IN  PinTimes([cache[n] EXCEPT !.last = IF hit THEN Now ELSE @],
                     Holders(new, DOMAIN new, n))]

(***************************************************************************)
(* What a step does to one sequence.  sample_greedy counts the token it    *)
(* samples and appends it unless it ends the stream.                       *)
(***************************************************************************)
Argmax(logits) == greedy[Last(logits)]
Finish(s)      == [s EXCEPT !.state = "Finished"]
Sample(s, logits) ==
    LET t    == Argmax(logits)
        told == [s EXCEPT !.generated = @ + 1]
    IN  IF t = EOS THEN Finish(told) ELSE [told EXCEPT !.stream = Append(@, t)]

\* Admission-time sampling of a sequence whose whole prompt was resident.
Seeded(s) == Running(s) /\ s.consumed = PromptLen(s) /\ s.pending # NoLogits
Seed(s)   == IF ~Seeded(s) THEN s
             ELSE IF s.max_new > 0 THEN [Sample(s, s.pending) EXCEPT !.pending = NoLogits]
             ELSE Finish(s)

\* A result: the sequence after the step, the state computed at each depth it
\* consumed, and whether the step lists it among those whose pins it releases.
Result(s, states, releases) == [seq |-> s, states |-> states, releases |-> releases]
State(hidden, logits)       == [hidden |-> hidden, logits |-> logits]

\* Chunked prefill: only the last token of the chunk has its logits kept.
Prefills(s) == s.consumed < PromptLen(s)
Prefill(s) ==
    LET end     == Min({s.consumed + PrefillChunk, PromptLen(s)})
        after(d) == s.hidden \o SubSeq(s.stream, s.consumed + 1, d)
        states  == [d \in s.consumed + 1 .. end |->
                       State(after(d), IF d = end THEN after(d) ELSE NoLogits)]
        moved   == [s EXCEPT !.hidden = after(end), !.consumed = end]
    IN  IF end < Len(s.stream) THEN Result(moved, states, FALSE)
        ELSE IF s.generated < s.max_new
             THEN Result(Sample(moved, after(end)), states, FALSE)
             ELSE Result(Finish(moved), states, TRUE)

\* What speculation accepts after `before` is what the target would have said, at
\* most k tokens of it, and nothing beyond an EOS.
Accepted(before, k) ==
    LET said[j \in 0..k] ==
            IF j = 0 THEN <<>>
            ELSE LET d == said[j-1] IN
                 IF d # <<>> /\ Last(d) = EOS THEN d ELSE Append(d, Argmax(before \o d))
    IN  said[k]

\* Decode: the pending token of the stream, then the accepted drafts up to EOS or
\* max_new.  The logits kept with the first state are those after all the drafts.
Exhausted(s)     == s.generated >= s.max_new
DraftState(before, drafts, j)   == before \o Upto(drafts, j)
Decode(s, k) ==
    LET before == Append(s.hidden, Last(s.stream))
        drafts == Accepted(before, k)
        kept   == Min({Cardinality({j \in DOMAIN drafts : drafts[j] # EOS}),
                       s.max_new - s.generated})
        after  == before \o drafts
        first  == s.consumed + 1
        states == [d \in first .. first + kept |->
                      State(DraftState(before, drafts, d - first),
                            IF d = first THEN after ELSE NoLogits)]
        moved  == [s EXCEPT !.stream = @ \o Upto(drafts, kept), !.generated = @ + kept,
                            !.consumed = first + kept, !.hidden = after]
        told   == IF kept < Len(drafts) \/ Exhausted(moved) THEN Finish(moved)
                  ELSE Sample(moved, after)
    IN  Result(told, states, ~Running(told))

\* The input token's edge is named by stream[..consumed + 1], a slice that panics
\* when the stream ends at consumed.
OutOfStream(s) == ~Prefills(s) /\ s.consumed + 1 > Len(s.stream)

\* Prefills and decodes of a step are separate model calls, and decodes always run.  The
\* variant has them wait for the prefills.
PrefillsFirst(s) ==
    LET R == {i \in DOMAIN s : Running(s[i])}
        P == {i \in R : Prefills(s[i])}
    IN  IF P # {} THEN P ELSE R
Runs(s) == {i \in DOMAIN s : Running(s[i])}

(***************************************************************************)
(* step: r[i] is what the step does to running sequence i.                 *)
(***************************************************************************)
Consumes(r, n) == Len(n) \in DOMAIN r.states /\ IsPrefix(n, r.seq.stream)
Visited(r)     == {Upto(r.seq.stream, d) : d \in DOMAIN r.states}

\* A node new to the graph is cached with the state of the sequence that reached it
\* first, prefills before decodes; a node that is only followed is pinned.
Stored(s, r, c) ==
    LET created == (UNION {Visited(r[i]) : i \in DOMAIN r}) \ graph
        By(n)   == {i \in DOMAIN r : Consumes(r[i], n)}
        First(n) == LET P == {i \in By(n) : Prefills(s[i])}
                    IN  Min(IF P # {} THEN P ELSE By(n))
        New(n)  == LET e == r[First(n)].states[Len(n)] IN
                   [hidden |-> e.hidden, logits |-> e.logits, last |-> Now, pinned |-> 0]
    IN  [n \in DOMAIN c \cup created |->
            PinTimes(IF n \in created THEN New(n) ELSE c[n], Cardinality(By(n)))]

\* unpin_path, for the sequences in `released`.
Unpinned(s, released, c) ==
    [n \in DOMAIN c |-> [c[n] EXCEPT !.pinned = Monus(@, Holders(s, released, n))]]

\* evict_to_budget takes the least key among the unpinned states until the rest
\* fits; the HashMap's order decides between equal keys.  The variant does not look
\* at pins.
EvictableAny(c) == DOMAIN c
Evictable(c)    == {n \in DOMAIN c : c[n].pinned = 0}
NoLater(c, m, n) ==
    IF EvictionPolicy = "Lru" THEN c[m].last <= c[n].last
    ELSE \/ Len(m) > Len(n)
         \/ Len(m) = Len(n) /\ c[m].last >= c[n].last
Victims(c, bytes) ==
    LET Over(V) == Monus(bytes, BytesOf(c, V)) > CacheBudget IN
    {V \in SUBSET Evictable(c) :
        /\ \A m \in V, n \in Evictable(c) \ V : NoLater(c, m, n)
        /\ Over(V) => V = Evictable(c)
        /\ V # {} => \E m \in V : (\A n \in V : NoLater(c, n, m)) /\ Over(V \ {m})}

(***************************************************************************)
(* step, with a model that accepts at most `block` drafts at a time.       *)
(* \E x \in {e} names the one value x can have, each computed once.        *)
(***************************************************************************)
StepUpTo(block) ==
    /\ ~panicked
    /\ Admitted # <<>> \/ Live # {} \/ report # "Idle" \* else only stepIndex would move
    /\ \E new \in {Admitted} : \E s0 \in {sequences \o new} :
       \E s1 \in {[i \in DOMAIN s0 |-> Seed(s0[i])]} :
       LET go      == Runs(s1)
           decodes == {i \in go : ~Prefills(s1[i])}
       IN  IF \E i \in decodes : OutOfStream(s1[i])
           THEN /\ panicked' = TRUE
                /\ UNCHANGED <<greedy, graph, cache, cacheBytes, sequences, queue,
                               stepIndex, report>>
           ELSE /\ \E k \in [decodes -> 0..block] :
                   \E r \in {[i \in go |-> IF i \in decodes THEN Decode(s1[i], k[i])
                                           ELSE Prefill(s1[i])]} :
                   \E released \in {{i \in DOMAIN s0 : Seeded(s0[i]) /\ s0[i].max_new = 0}
                                    \cup {i \in go : r[i].releases}} :
                   /\ sequences' = [i \in DOMAIN s1 |-> IF i \in go THEN r[i].seq
                                                        ELSE s1[i]]
                   /\ graph' = graph \cup UNION {Visited(r[i]) : i \in go}
                   /\ \E c1 \in {Stored(s1, r, AfterAdmission(new))} :
                      \E c2 \in {Unpinned(sequences', released, c1)} :
                      \E bytes \in {cacheBytes + BytesOf(c1, DOMAIN c1 \ DOMAIN cache)} :
                      \E V \in Victims(c2, bytes) :
                      /\ cache' = Restrict(c2, DOMAIN c2 \ V)
                      /\ cacheBytes' = Monus(bytes, BytesOf(c2, V))
                /\ queue' = SubSeq(queue, Len(new) + 1, Len(queue))
                /\ stepIndex' = Now
                /\ report' = IF go = {} THEN "Idle"
                             ELSE IF decodes # go THEN "Prefill" ELSE "Decode"
                /\ UNCHANGED <<greedy, panicked>>

Step == StepUpTo(Block)

Next == (\E p \in Prompts, n \in MaxNews : Submit(p, n)) \/ Step

Spec == Init /\ [][Next]_vars

\* Whoever submits calls step again until it reports Idle, as run_to_idle and the loop
\* of handle_streaming do; nobody is obliged to go on after that.
FairSpec == Spec /\ WF_vars(Step /\ report # "Idle")

-----------------------------------------------------------------------------
(***************************************************************************)
(* Properties.                                                             *)
(***************************************************************************)
Node == Seq(Tokens)

\* Every variable keeps its type; a node of the pool is a node of the graph, and
\* cached hidden states and logits are strings the model can have consumed.
TypeOK ==
    /\ greedy \in Models
    /\ graph \subseteq Node /\ DOMAIN cache \subseteq graph \ {<<>>}
    /\ \A n \in DOMAIN cache :
          /\ cache[n].hidden \in Node /\ cache[n].pinned \in Nat
          /\ cache[n].last \in 1..stepIndex
          /\ cache[n].logits = NoLogits \/ cache[n].logits \in Seq(Tokens \cup {EOS})
    /\ cacheBytes \in Nat /\ stepIndex \in Nat
    /\ \A i \in DOMAIN sequences :
          LET s == sequences[i] IN
          /\ s.stream \in Node /\ s.consumed \in 0..Len(s.stream)
          /\ s.generated \in Nat /\ s.state \in {"Running", "Finished"}
    /\ report \in {"None", "Idle", "Prefill", "Decode"} /\ panicked \in BOOLEAN

\* The correctness contract of the module: a sequence's tokens are those it would have
\* alone and cold, whatever ran beside it and wherever it resumed from.
Solo(prompt, n) ==
    LET said[j \in 0..n] ==
            IF j = 0 THEN prompt
            ELSE LET p == said[j-1]
                     t == Argmax(p)
                 IN  IF Len(p) < Len(prompt) + j - 1 \/ t = EOS THEN p ELSE Append(p, t)
    IN  said[n]
StreamsMatchSolo ==
    \A i \in DOMAIN sequences :
        LET s == sequences[i]
            t == Solo(s.request, s.max_new)
        IN  IsPrefix(s.stream, t) /\ (~Running(s) => s.stream = t)

\* No call of step panics.
NeverPanics == ~panicked

\* Reuse starts from the right state: what is cached at a node, and what a running
\* sequence carries, was computed from exactly the tokens of its path.
HiddenStatesExact ==
    /\ \A n \in DOMAIN cache : cache[n].hidden = n
    /\ \A i \in Live : sequences[i].hidden = Path(sequences[i])

\* A cached node is pinned at least once for each live sequence whose path it is on;
\* pins are taken one node at a time and released a path at a time.
LivePathsPinned ==
    PinLiveNodes =>
        \A n \in DOMAIN cache : cache[n].pinned >= Holders(sequences, Live, n)

\* Eviction never takes a state from under a sequence that goes on running.
LiveNodesStay ==
    [][PinLiveNodes =>
        \A n \in DOMAIN cache :
            (\E i \in Live : Running(sequences'[i]) /\ IsPrefix(n, Path(sequences[i])))
                => n \in DOMAIN cache']_vars

\* The byte counter is what the pool holds, and the pool is over its budget only when
\* everything in it is pinned, whatever kind of step came last.
PoolWithinBudget ==
    /\ cacheBytes = BytesOf(cache, DOMAIN cache)
    /\ cacheBytes > CacheBudget => Evictable(cache) = {}

\* Every live sequence consumes a token in every step: a long prompt does not stall
\* the decoding of others.
LiveSequencesAdvance ==
    [][stepIndex' # stepIndex =>
        \A i \in Live : sequences'[i].consumed > sequences[i].consumed]_vars

\* What a loop over step leaves when it ends at the first Idle: every sequence that was
\* admitted finishes, and requests stay queued only behind a full batch that this last
\* step admitted and finished without running anything.
AdmittedFinish ==
    \A i \in 1..MaxRequests :
        i \in DOMAIN sequences ~> i \in DOMAIN sequences /\ ~Running(sequences[i])
IdleLeavesOnlyQueued ==
    [][stepIndex' # stepIndex /\ report' = "Idle" =>
        /\ Live' = {}
        /\ queue' # <<>> => Len(sequences') = Len(sequences) + MaxLive]_vars
LoopsEndAtRest == AdmittedFinish /\ IdleLeavesOnlyQueued

\* scheduler.rs:966, "Run steps until the queue and all sequences drain", of a loop that
\* returns at the first Idle.
IdleMeansDrained ==
    [][stepIndex' # stepIndex /\ report' = "Idle" => queue' = <<>> /\ Live' = {}]_vars
=============================================================================
