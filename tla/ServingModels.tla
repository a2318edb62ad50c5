---------------------------- MODULE ServingModels ----------------------------
(***************************************************************************)
(* Two back ends of the serving layer whose layout is their correctness.   *)
(* The dense model keeps its whole state in one flat vector,               *)
(*     [x | per layer: key rows 0..n-1, value rows 0..n-1],                *)
(* and finds every row by an offset that changes with n.  The routed model *)
(* runs each expert once for all positions that chose it.  Numbers are     *)
(* residues (a head's vector is one of them), Weigh stands for products with *)
(* weights, and Rounded rounds, so that the order of a sum shows.             *)
(* Last, how many tokens the decode policy drafts ahead of them.           *)
(***************************************************************************)
EXTENDS Integers, SequencesExt

CONSTANTS Residues,
          CostScale \* larger than any product of scores compared
ASSUME ResiduesAssumption == Residues \in Nat \ {0}
ASSUME CostAssumption == CostScale \in Nat \ {0}

Weigh(a, b) == (3 * a + 5 * b * b + a * b + 1) % Residues
Matvec(salt, x, n) ==
    [r \in 1..n |-> FoldLeft(LAMBDA acc, v : (acc * 3 + Weigh(salt + r, v)) % Residues, 0, x)]
AddTo(x, y) == [i \in DOMAIN x |-> (x[i] + y[i]) % Residues]
Zeros(n) == [i \in 1..n |-> 0]

-----------------------------------------------------------------------------
(* Dense.  c: [layers, heads, kv]; a row holds one residue for each key     *)
(* head, x one for each head.                                               *)
DenseKvLen(c, hidden) == (Len(hidden) - c.heads) \div (2 * c.kv * c.layers)
KOffset(c, l, p, n) == c.heads + l * 2 * c.kv * n + p * c.kv

VOffset(c, l, p, n) == c.heads + (l * 2 + 1) * c.kv * n + p * c.kv
SliceOf(hidden, from, n) == SubSeq(hidden, from + 1, from + n)

(* One query head over the cached rows, the current token's not among them; *)
(* consecutive query heads share a key head.                                *)
HeadsOver(c, q, keys, values) ==
    [h \in 1..c.heads |->
        LET k == 1 + ((h - 1) \div (c.heads \div c.kv))
        IN MapThenSumSet(LAMBDA p : Weigh(q[h], keys[p][k]) * values[p][k], DOMAIN keys) % Residues]
Turned(row, pos) == [i \in DOMAIN row |-> Weigh(row[i], pos)]

(* One layer: attention, then the feed-forward part; and its new rows.      *)
DenseLayer(c, l, x, pos, keys, values) ==
    LET q == Turned(Matvec(l, x, c.heads), pos)
        attended == AddTo(x, Matvec(l + 7, HeadsOver(c, q, keys, values), c.heads))
    IN [x |-> AddTo(attended, Matvec(l + 13, attended, c.heads)),
        key |-> Turned(Matvec(l + 3, x, c.kv), pos), value |-> Matvec(l + 5, x, c.kv)]

Embed(c, x, token) == AddTo(x, [i \in 1..c.heads |-> Weigh(token, i)])
RowsAt(c, hidden, offset(_), n) == [p \in 1..n |-> SliceOf(hidden, offset(p - 1), c.kv)]
ForwardOne(c, hidden, token) ==
    LET n == DenseKvLen(c, hidden)
        step(r, l) ==
            LET koff(p) == KOffset(c, l, p, n)
                voff(p) == VOffset(c, l, p, n)
                out == DenseLayer(c, l, r.x, n, RowsAt(c, hidden, koff, n), RowsAt(c, hidden, voff, n))
            IN [x |-> out.x,
                rows |-> r.rows \o SliceOf(hidden, KOffset(c, l, 0, n), c.kv * n) \o out.key
                                \o SliceOf(hidden, VOffset(c, l, 0, n), c.kv * n) \o out.value]
        end == FoldLeft(step, [x |-> Embed(c, SubSeq(hidden, 1, c.heads), token), rows |-> <<>>],
                        [l \in 1..c.layers |-> l - 1])
    IN end.x \o end.rows
DenseRun(c, tokens) == FoldLeft(LAMBDA h, t : ForwardOne(c, h, t), Zeros(c.heads), tokens)

(* The same computation with a table of rows for every layer.               *)
TableRun(c, tokens) ==
    LET forward(s, token) ==
            LET layer(r, l) ==
                    LET out == DenseLayer(c, l - 1, r.x, Len(r.keys[l]), r.keys[l], r.values[l])
                    IN [x |-> out.x, keys |-> [r.keys EXCEPT ![l] = Append(@, out.key)],
                                     values |-> [r.values EXCEPT ![l] = Append(@, out.value)]]
            IN FoldLeft(layer, [s EXCEPT !.x = Embed(c, @, token)], [l \in 1..c.layers |-> l])
        empty == [l \in 1..c.layers |-> <<>>]
    IN FoldLeft(forward, [x |-> Zeros(c.heads), keys |-> empty, values |-> empty], tokens)

(* The flat state after any tokens is the table laid out, of the length its *)
(* position is read from.                                                   *)
PackingFaithful(c, tokens) ==
    LET table == TableRun(c, tokens)
        flat == DenseRun(c, tokens)
    IN /\ DenseKvLen(c, flat) = Len(tokens)
       /\ flat = table.x \o FlattenSeq([l \in 1..c.layers |->
                                FlattenSeq(table.keys[l]) \o FlattenSeq(table.values[l])])

-----------------------------------------------------------------------------
(* Routed.  m: [experts, topK, shared]; a position's input is one residue.  *)
Rounded(a, b) == IF a + b > 30 THEN ((a + b) \div 8) * 8 ELSE a + b
RouterLogit(x, e) == Weigh(x, e) % 3
RankedExperts(m, x) == SortSeq([e \in 1..m.experts |-> e],
    LAMBDA a, b : \/ RouterLogit(x, a) > RouterLogit(x, b)
                  \/ RouterLogit(x, a) = RouterLogit(x, b) /\ a < b)
MoeRoute(m, x) == SubSeq(RankedExperts(m, x), 1, m.topK)
RouteWeight(x, e) == 1 + RouterLogit(x, e)
ExpertOut(e, x) == Weigh(x, e + 2) % 10

(* The batch goes expert by expert, over the positions that chose it in     *)
(* their order; the k-th row of the expert's batch is the k-th member's.    *)
Groups(m, xs) == [e \in 1..m.experts |-> SelectSeq([p \in DOMAIN xs |-> p],
                                            LAMBDA p : e \in Range(MoeRoute(m, xs[p])))]

GroupRow(group, xs, k) == xs[group[k]]

Contributions(m, xs) ==
    LET groups == Groups(m, xs)
        give(sums, e) == FoldLeft(
            LAMBDA s, k : [s EXCEPT ![groups[e][k]] =
                Rounded(@, RouteWeight(xs[groups[e][k]], e) * ExpertOut(e, GroupRow(groups[e], xs, k)))],
            sums, [k \in DOMAIN groups[e] |-> k])
    IN FoldLeft(give, [p \in DOMAIN xs |-> 0], [e \in 1..m.experts |-> e])

Inputs(inputs) == [p \in DOMAIN inputs |-> (inputs[p].hidden + Weigh(inputs[p].token, 1)) % Residues]
ForwardBatch(m, inputs) ==
    LET xs == Inputs(inputs)
        routed == Contributions(m, xs)
    IN [p \in DOMAIN inputs |->
           [next |-> xs[p], logits |-> Rounded(routed[p], IF m.shared THEN ExpertOut(0, xs[p]) ELSE 0)]]
ExpertReads(m, inputs) ==
    Cardinality({e \in 1..m.experts : Groups(m, Inputs(inputs))[e] # <<>>})

(* A position of a batch gets bit for bit what it would get alone, and the  *)
(* batch reads no more experts than its positions would one by one.         *)
BatchingExact(m, inputs) ==
    /\ \A p \in DOMAIN inputs : ForwardBatch(m, inputs)[p] = ForwardBatch(m, <<inputs[p]>>)[1]
    /\ ExpertReads(m, inputs) <= MapThenSumSet(LAMBDA p : ExpertReads(m, <<inputs[p]>>), DOMAIN inputs)

-----------------------------------------------------------------------------
(* How many tokens to draft: choose_horizon of the decode policy.  Depth d  *)
(* costs costs[d] (a vector of resources and its scalar); the acceptance is *)
(* a percentage.  Scores are compared by cross multiplication; a free depth *)
(* counts as the smallest positive cost, here a part in CostScale.          *)
PlanAccepted(min, max) == min <= max /\ max <= 3
Fixed(plan) == plan.min = plan.max

Covers(slack, cost) == slack = <<>> \/ \A r \in DOMAIN cost : cost[r] <= slack[r]
Scalar(cost) == FoldLeft(LAMBDA a, b : a + b, 0, cost)
Divisor(cost) == IF Scalar(cost) = 0 THEN 1 ELSE Scalar(cost) * CostScale

\* How the promise of a depth compares with the best so far, as fractions.
Outscores(d, best, input) == d * Divisor(input.costs[best]) > best * Divisor(input.costs[d])
Ties(d, best, input) == d * Divisor(input.costs[best]) = best * Divisor(input.costs[d])

(* The code compares rounded quotients, and the later depth must exceed the *)
(* best so far: of two equal fractions rounding may make it do so or not.   *)
Contend(bests, d, input) ==
    UNION {IF best = 0 \/ Outscores(d, best, input) THEN {d}
           ELSE IF Ties(d, best, input) THEN {best, d} ELSE {best} : best \in bests}

(* The depths it may choose.  costs[d] is the cost of depth d; the list may *)
(* be too short.  Only a fixed plan looks at the minimum.                   *)
ChooseHorizon(plan, input) ==
    LET deepest == Min({input.candidate, plan.max, 3})
        covered == {d \in DOMAIN input.costs : Covers(input.slack, input.costs[d])}
    IN IF ~input.permitted \/ input.candidate = 0 \/ input.backlogged \/ input.acceptance <= 0 THEN {0}
       ELSE IF Fixed(plan) /\ plan.min > 0
       THEN IF plan.min \in covered /\ plan.min <= input.candidate THEN {plan.min} ELSE {0}
       ELSE IF deepest > Len(input.costs) THEN {0}
       ELSE FoldLeft(LAMBDA bests, d : IF d \in covered THEN Contend(bests, d, input) ELSE bests,
                     {0}, [d \in 1..deepest |-> d])

(***************************************************************************)
(* A depth other than zero is at most the candidate's and the plan's       *)
(* maximum and fits the slack; under a fixed plan it is the plan's depth,  *)
(* and otherwise no depth that fits promises more tokens for its cost.     *)
(* Another may promise as many, and the plan's minimum is not kept to.     *)
(***************************************************************************)
HorizonSound(plan, input) ==
    \A depth \in ChooseHorizon(plan, input) \ {0} :
        /\ depth <= input.candidate /\ depth <= plan.max
        /\ Covers(input.slack, input.costs[depth])
        /\ IF Fixed(plan) THEN depth = plan.min
           ELSE \A d \in 1..Min({input.candidate, plan.max}) :
                  Covers(input.slack, input.costs[d]) => ~Outscores(d, depth, input)
=============================================================================
