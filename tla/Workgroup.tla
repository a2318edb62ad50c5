------------------------------ MODULE Workgroup ------------------------------
(***************************************************************************)
(* The compute shaders' workgroups.  The lanes run one program each at its *)
(* own pace and meet at barriers; between two barriers they touch shared   *)
(* memory in any order.  Three programs: the batched matrix product (stage *)
(* the row, accumulate per sequence, reduce and emit one sequence after    *)
(* the other through the same shared array), the greedy choice of a token  *)
(* and the chunked attention of one query head.                            *)
(***************************************************************************)
EXTENDS Integers, SequencesExt

CONSTANTS Lanes,     \* lanes of a workgroup, a power of two
          MaxBatch,  \* sequences in a batch
          MaxValues, \* logits to choose from
          MaxSeq, ChunkSize, \* positions cached, and of them in a chunk
          Logit      \* the values a logit takes
NaN == -100     \* a logit that is no candidate
Lowest == -50   \* what a lane starts from

ASSUME WorkgroupAssumption ==
    /\ Lanes \in {2, 4, 8} /\ {MaxBatch, MaxValues, MaxSeq, ChunkSize} \subseteq Nat \ {0}
    /\ \A v \in Logit : v = NaN \/ v > Lowest

VARIABLES job,     \* what was dispatched
          code,    \* the program its lanes run
          pc,      \* pc[i]: the next instruction of lane i
          shared,  \* the shared arrays
          private, \* private[i]: the registers of lane i
          output   \* quotients: of attention a sum over a sum, of the others a value over 1
wvars == <<job, code, pc, shared, private, output>>

Lane == 0..(Lanes - 1)
NoToken == 1000

-----------------------------------------------------------------------------
(* Sums are rounded, so their order can be told apart.                      *)
Plus(a, b) == IF a + b > 40 THEN ((a + b) \div 4) * 4 ELSE a + b
Weight(lane, word) == (3 * lane + 2 * word) % 7
Input(n, lane) == 1 + ((5 * n + lane) % 4)

Strides == LET halving[s \in 0..Lanes] == IF s = 0 THEN <<>> ELSE <<s>> \o halving[s \div 2]
           IN halving[Lanes \div 2]
Barrier == [op |-> "barrier", n |-> 0]
Do(op, n) == [op |-> op, n |-> n]

(* One column: put, halve until one lane holds the sum, emit, and a barrier *)
(* before the array is used again.                                          *)
Column(n) == <<Do("put", n), Barrier>> \o
    FlattenSeq([k \in DOMAIN Strides |-> <<Do("add", Strides[k]), Barrier>>])
    \o <<Do("emit", n), Barrier>>
Gemv(batch) == <<Do("stage", 0), Barrier, Do("accumulate", batch)>>
                 \o FlattenSeq([n \in 1..batch |-> Column(n)])
Choose == <<Do("scan", 0), Barrier>>
    \o FlattenSeq([k \in DOMAIN Strides |-> <<Do("better", Strides[k]), Barrier>>]) \o <<Do("token", 0)>>

Score(p, first) == <<Do("dot", p), Barrier>>
    \o FlattenSeq([k \in DOMAIN Strides |-> <<Do("add", Strides[k]), Barrier>>])
    \o <<Do(IF p = first THEN "first" ELSE "score", p), Barrier>>
Chunk(c, seq) == LET first == ChunkSize * c + 1
                     last == Min({seq, ChunkSize * (c + 1)})
                 IN FlattenSeq([k \in 1..(last - first + 1) |-> Score(first + k - 1, first)])
                      \o <<[op |-> "values", n |-> first, last |-> last]>>
Attention(seq) == FlattenSeq([c \in 1..((seq + ChunkSize - 1) \div ChunkSize) |-> Chunk(c - 1, seq)])
                    \o <<Do("divide", 0)>>

Program(j) == CASE j.kernel = "gemv"   -> Gemv(j.batch)
                [] j.kernel = "choose" -> Choose
                [] j.kernel = "attend" -> Attention(Len(j.keys))

-----------------------------------------------------------------------------
Jobs == [kernel : {"gemv"}, batch : 1..MaxBatch]
        \cup [kernel : {"choose"}, logits : UNION {[1..n -> Logit] : n \in 1..MaxValues}]
        \cup [kernel : {"attend"}, keys : UNION {[1..n -> 0..2] : n \in 0..MaxSeq}]

WInit == /\ job \in Jobs
         /\ code = Program(job)
         /\ pc = [i \in Lane |-> 1]
         /\ shared = [words |-> [i \in Lane |-> NaN], partial |-> [i \in Lane |-> 0],
                      ids |-> [i \in Lane |-> NoToken], scores |-> [i \in 1..ChunkSize |-> 0],
                      top |-> Lowest]
         /\ private = [i \in Lane |-> [acc |-> [n \in 1..MaxBatch |-> 0], best |-> Lowest, id |-> NoToken,
                                       m |-> Lowest, l |-> 0, o |-> 0, top |-> Lowest]]
         /\ output = [n \in 1..Max({MaxBatch, Lanes}) |-> <<>>]

At(i, op) == pc[i] \in DOMAIN code /\ code[pc[i]].op = op
N(i) == code[pc[i]].n
Advance(i) == pc' = [pc EXCEPT ![i] = @ + 1]

(* A lane waits at a barrier until every lane has come to it.               *)
PassBarrier(i) == /\ At(i, "barrier") /\ \A k \in Lane : pc[k] >= pc[i]
                  /\ Advance(i) /\ UNCHANGED <<job, code, shared, private, output>>

Stage(i) == /\ At(i, "stage")
            /\ shared' = [shared EXCEPT !.words[i] = Weight(i, 1)]
            /\ Advance(i) /\ UNCHANGED <<job, code, private, output>>

(* A weight's scale and code lie in words other lanes have staged.          *)
Accumulate(i) ==
    /\ At(i, "accumulate")
    /\ LET weight == shared.words[i] + shared.words[Lanes - 1 - i]
       IN private' = [private EXCEPT ![i].acc =
                        [n \in 1..MaxBatch |-> IF n > N(i) THEN 0 ELSE weight * Input(n, i)]]
    /\ Advance(i) /\ UNCHANGED <<job, code, shared, output>>

Put(i) == /\ At(i, "put")
          /\ shared' = [shared EXCEPT !.partial[i] = private[i].acc[N(i)]]
          /\ Advance(i) /\ UNCHANGED <<job, code, private, output>>

Add(i) == /\ At(i, "add")
          /\ shared' = IF i < N(i)
                       THEN [shared EXCEPT !.partial[i] = Plus(@, shared.partial[i + N(i)])] ELSE shared
          /\ Advance(i) /\ UNCHANGED <<job, code, private, output>>

Emit(i) == /\ At(i, "emit")
           /\ output' = IF i = 0 THEN [output EXCEPT ![N(i)] = <<shared.partial[0], 1>>] ELSE output
           /\ Advance(i) /\ UNCHANGED <<job, code, shared, private>>

(* Every lane takes each Lanes-th logit; of equals the first seen is kept.  *)
Scan(i) ==
    /\ At(i, "scan")
    /\ LET mine == {t \in DOMAIN job.logits : (t - 1) % Lanes = i /\ job.logits[t] # NaN}
           top == Max({Lowest} \cup {job.logits[t] : t \in mine})
           id == IF mine = {} THEN NoToken ELSE Min({t \in mine : job.logits[t] = top})
       IN shared' = [shared EXCEPT !.partial[i] = top, !.ids[i] = id]
    /\ Advance(i) /\ UNCHANGED <<job, code, private, output>>

BetterOf(i) ==
    /\ At(i, "better")
    /\ LET k == i + N(i)
       IN shared' = IF /\ i < N(i)
                       /\ \/ shared.partial[k] > shared.partial[i]
                          \/ shared.partial[k] = shared.partial[i] /\ shared.ids[k] < shared.ids[i]
                    THEN [shared EXCEPT !.partial[i] = shared.partial[k], !.ids[i] = shared.ids[k]]
                    ELSE shared
    /\ Advance(i) /\ UNCHANGED <<job, code, private, output>>

Token(i) == /\ At(i, "token")
            /\ output' = IF i = 0 THEN [output EXCEPT ![1] =
                                       IF shared.ids[0] = NoToken THEN <<1, 1>> ELSE <<shared.ids[0], 1>>]
                         ELSE output
            /\ Advance(i) /\ UNCHANGED <<job, code, shared, private>>

(* Only the key's first component carries its score in this model.          *)
Dot(i) == /\ At(i, "dot")
          /\ shared' = [shared EXCEPT !.partial[i] = IF i = 0 THEN job.keys[N(i)] ELSE 0]
          /\ Advance(i) /\ UNCHANGED <<job, code, private, output>>

(* Lane 0 keeps the chunk's maximum in a register and publishes it with the *)
(* score.                                                                   *)
StoreScore(i) ==
    /\ At(i, "first") \/ At(i, "score")
    /\ LET top == Max({shared.partial[0], IF At(i, "first") THEN Lowest ELSE private[i].top})
       IN IF i # 0 THEN UNCHANGED <<shared, private>>
          ELSE /\ shared' = [shared EXCEPT !.scores[1 + ((N(i) - 1) % ChunkSize)] = shared.partial[0],
                                           !.top = top]
               /\ private' = [private EXCEPT ![i].top = top]
    /\ Advance(i) /\ UNCHANGED <<job, code, output>>

(* exp(s - m) as a power of two, scaled so that it stays whole.             *)
Exp(d) == IF d < -20 THEN 0 ELSE 2 ^ (8 + d)
Value(i, p) == 2 * p + i

\* Variant: the sum so far is not brought to the new maximum.
CombineUnscaled(r, top, o, l) ==
    LET m == Max({r.m, top})
    IN [r EXCEPT !.m = m, !.o = @ + (o * Exp(top - m)) \div 256, !.l = @ + (l * Exp(top - m)) \div 256]
Combine(r, top, o, l) ==
    LET m == Max({r.m, top})
    IN [r EXCEPT !.m = m, !.o = (@ * Exp(r.m - m) + o * Exp(top - m)) \div 256,
                          !.l = (@ * Exp(r.m - m) + l * Exp(top - m)) \div 256]

(* The chunk's values weighted by its scores, then joined to the running    *)
(* maximum, sum and output.                                                 *)
Values(i) ==
    /\ At(i, "values")
    /\ LET chunk == N(i)..code[pc[i]].last
           e(p) == Exp(shared.scores[1 + ((p - 1) % ChunkSize)] - shared.top)
       IN private' = [private EXCEPT ![i] =
            Combine(@, shared.top, MapThenSumSet(LAMBDA p : e(p) * Value(i, p), chunk),
                    MapThenSumSet(e, chunk))]
    /\ Advance(i) /\ UNCHANGED <<job, code, shared, output>>

Divide(i) == /\ At(i, "divide")
             /\ output' = [output EXCEPT ![i + 1] =
                             IF private[i].l > 0 THEN <<private[i].o, private[i].l>> ELSE <<0, 1>>]
             /\ Advance(i) /\ UNCHANGED <<job, code, shared, private>>

WNext == \E i \in Lane :
           \/ PassBarrier(i)
           \/ Stage(i)
           \/ Accumulate(i)
           \/ Put(i)
           \/ Add(i)
           \/ Emit(i)
           \/ Scan(i)
           \/ BetterOf(i)
           \/ Token(i)
           \/ Dot(i)
           \/ StoreScore(i)
           \/ Values(i)
           \/ Divide(i)
-----------------------------------------------------------------------------
Finished == \A i \in Lane : pc[i] > Len(code)
TreeSum(f) == FoldLeft(LAMBDA g, s : [i \in 0..(s - 1) |-> Plus(g[i], g[i + s])], f, Strides)[0]
Product(n) == TreeSum([i \in Lane |-> (Weight(i, 1) + Weight(Lanes - 1 - i, 1)) * Input(n, i)])
Greedy(logits) ==
    LET candidates == {t \in DOMAIN logits : logits[t] # NaN}
    IN IF candidates = {} THEN 1
       ELSE CHOOSE t \in candidates : \A u \in candidates :
              logits[t] > logits[u] \/ (logits[t] = logits[u] /\ t <= u)
Softmax(keys, i) ==
    LET top == Max({keys[p] : p \in DOMAIN keys})
        e(p) == Exp(keys[p] - top)
    IN <<MapThenSumSet(LAMBDA p : e(p) * Value(i, p), DOMAIN keys), MapThenSumSet(e, DOMAIN keys)>>

(***************************************************************************)
(* Whatever order the lanes ran in: every sequence of the batch gets the   *)
(* sum of its own column in the tree's order, the token is the lowest of   *)
(* the highest logits, and the chunked attention is the softmax over all   *)
(* positions at once (zero over no position).                              *)
(***************************************************************************)
KernelsExact ==
    Finished =>
        /\ job.kernel = "gemv" => \A n \in 1..job.batch : output[n] = <<Product(n), 1>>
        /\ job.kernel = "choose" => output[1] = <<Greedy(job.logits), 1>>
        /\ job.kernel = "attend" => \A i \in Lane :
             output[i + 1] = IF job.keys = <<>> THEN <<0, 1>> ELSE Softmax(job.keys, i)
=============================================================================
