----------------------------- MODULE Execution ------------------------------
(***************************************************************************)
(* Execution plans (har-plan, har-ir) and the engine that runs them        *)
(* (har-execution): what validation accepts, the residency path of one     *)
(* dispatch, and the resolution of a speculative block candidate by        *)
(* candidate with the telemetry it leaves (har-telemetry, har-events).     *)
(***************************************************************************)
EXTENDS Integers, SequencesExt

CONSTANTS TensorNames, TensorBytes, VramBytes, MaxTensors,
          Namespaces, MaxHorizon, MaxBlocks, EventRoom

ASSUME ExecutionAssumption ==
    /\ TensorBytes \subseteq Nat /\ {VramBytes, MaxTensors, MaxHorizon, MaxBlocks} \subseteq Nat
    /\ EventRoom \in Nat /\ "" \notin Namespaces

VARIABLES model,   \* the tensors a plan is made from
          plan,    \* the plan the engine was given
          block,   \* the block being resolved, or NoBlock
          at,      \* its next candidate; 0 when no block is
          outcome, \* verdicts so far: namespace to accepted or not
          resolved, \* resolutions returned to the caller
          collector \* the caller's telemetry
evars == <<model, plan, block, at, outcome, resolved, collector>>

Rows(S, n) == UNION {[1..k -> S] : k \in 0..n}
Total(s) == SumFunctionOnSet(s, DOMAIN s)

-----------------------------------------------------------------------------
(* Plans.  The tensor's role decides its tier, its tier the backend.        *)
Tensor == [name : TensorNames, hot : BOOLEAN, bytes : TensorBytes, kernel : {"dense", "quantized"}]
Tier(t) == IF t.hot THEN "VramResident" ELSE "RamMapped"

(* compile_model_plan: operations form a chain in tensor order.             *)
CompileModel(tensors) ==
    [placements |-> [i \in DOMAIN tensors |-> [id |-> tensors[i].name, tier |-> Tier(tensors[i]),
                                               bytes |-> tensors[i].bytes]],
     operations |-> [i \in DOMAIN tensors |->
        [index |-> i, kernel |-> tensors[i].kernel, tier |-> Tier(tensors[i]),
         dependencies |-> IF i = 1 THEN {} ELSE {i - 1}]],
     assigned |-> Total([i \in DOMAIN tensors |->
                           IF tensors[i].hot THEN tensors[i].bytes ELSE 0])]

(* parse_model_package: the same chain, but no placement is charged to the  *)
(* budget it writes.                                                        *)
ImportModel(tensors) == [CompileModel(tensors) EXCEPT !.assigned = 0]

(* The depth-first walk of OperationTable::validate: a grey node met again  *)
(* is a cycle; the walk stops there.  Every level greys a node, so none is  *)
(* deeper than there are operations.                                        *)
Walks(ops) == [color : [DOMAIN ops -> {"white", "grey", "black"}], ok : BOOLEAN]

(* Node n on the path, its dependencies visited by below.                   *)
Enter(ops, below, n, walk) ==
    LET next == SetToSeq(ops[n].dependencies)
        after[j \in 0..Len(next)] ==
            IF j = 0 THEN [walk EXCEPT !.color[n] = "grey"] ELSE below[next[j]][after[j - 1]]
        done == after[Len(next)]
    IN IF done.ok THEN [done EXCEPT !.color[n] = "black"] ELSE done

Visit(ops) ==
    LET visit[depth \in 0..Len(ops)] ==
          [n \in DOMAIN ops |-> [walk \in Walks(ops) |->
             IF walk.color[n] = "black" \/ ~walk.ok THEN walk
             ELSE IF walk.color[n] = "grey" \/ depth = 0 THEN [walk EXCEPT !.ok = FALSE]
             ELSE Enter(ops, visit[depth - 1], n, walk)]]
    IN visit[Len(ops)]

Walk(ops) ==
    LET walk[n \in 0..Len(ops)] ==
          IF n = 0 THEN [color |-> [i \in DOMAIN ops |-> "white"], ok |-> TRUE]
          ELSE Visit(ops)[n][walk[n - 1]]
    IN walk[Len(ops)]

TableValid(ops) ==
    /\ \A i \in DOMAIN ops : ops[i].index = i /\ ops[i].dependencies \subseteq DOMAIN ops
    /\ Walk(ops).ok

(* validate, for a plan whose texts are present and whose hardware has      *)
(* every capability but that of an unknown kernel.                          *)
PlanValid(p) ==
    /\ IsInjective([i \in DOMAIN p.placements |-> p.placements[i].id])
    /\ TableValid(p.operations)
    /\ \A i \in DOMAIN p.operations : p.operations[i].kernel # "Unknown"
    /\ p.assigned <= VramBytes

(* A plan read back from disk: any table at all.                            *)
Tables == Rows([index : 1..2, kernel : {"dense", "Unknown"}, tier : {"RamMapped"},
                dependencies : SUBSET (1..2)], 2)
          \cup {t \in [1..3 -> [index : 1..3, kernel : {"dense"}, tier : {"RamMapped"},
                                dependencies : SUBSET (1..4)]] : \A i \in 1..3 : t[i].index = i}
NoPlan == [placements |-> <<>>, operations |-> <<>>, assigned |-> 0]

-----------------------------------------------------------------------------
(* ResidencyState::can_transition_to, for the states a dispatch passes.     *)
Follows(s) == CASE s = "Unavailable"    -> {"Indexed", "Error"}
                [] s = "Indexed"        -> {"ReadQueued", "ReadyHost", "Error"}
                [] s = "ReadQueued"     -> {"Reading", "Error"}
                [] s = "Reading"        -> {"ReadyHost", "Error"}
                [] s = "ReadyHost"      -> {"TransferQueued", "Computing", "Evictable", "Error"}
                [] s = "TransferQueued" -> {"CopyingToVram", "Error"}
                [] s = "CopyingToVram"  -> {"ReadyVram", "Error"}
                [] s = "ReadyVram"      -> {"Computing", "Evictable", "Evicting", "Error"}
                [] s = "Computing"      -> {"ReadyHost", "ReadyVram", "Evictable", "Error"}
                [] OTHER                -> {"Error"}

(* execute: the states one operation is taken through, up to the dispatch.  *)
DispatchPath(op) ==
    <<"Unavailable", "Indexed", "ReadQueued", "Reading", "ReadyHost">>
    \o (IF op.tier = "VramResident" THEN <<"TransferQueued", "CopyingToVram", "ReadyVram">> ELSE <<>>)
    \o <<"Computing">>

(* An illegal transition is an error of execute, before the adapter is      *)
(* called; otherwise the adapter fails or the outputs are compared.         *)
Verdicts(op) ==
    IF \A i \in 2..Len(DispatchPath(op)) : DispatchPath(op)[i] \in Follows(DispatchPath(op)[i - 1])
    THEN {"Exact", "Tolerated", "Mismatch", "Structural", "Error"} ELSE {"Error"}

-----------------------------------------------------------------------------
NoBlock == [horizon |-> 0, candidates |-> <<>>, telemetry |-> FALSE]
Candidate == [operation : 1..MaxTensors, namespace : Namespaces \cup {""}]

(* resolve_speculative_block: the checks made before anything is run.       *)
BlockAccepted(b) ==
    /\ PlanValid(plan)
    /\ Len(b.candidates) = b.horizon /\ b.horizon > 0
    /\ \A c \in Range(b.candidates) : c.namespace # "" /\ c.operation \in DOMAIN plan.operations
    /\ IsInjective([i \in DOMAIN b.candidates |-> b.candidates[i].namespace])

Resolve(b) ==
    /\ at = 0 /\ Len(resolved) < MaxBlocks /\ BlockAccepted(b)
    /\ block' = b /\ at' = 1 /\ outcome' = <<>>
    /\ UNCHANGED <<model, plan, resolved, collector>>

(* One candidate runs; a failed dispatch ends the resolution with nothing   *)
(* recorded.                                                                *)
Dispatch(verdict) ==
    /\ at \in DOMAIN block.candidates
    /\ verdict \in Verdicts(plan.operations[block.candidates[at].operation])
    /\ IF verdict = "Error"
       THEN block' = NoBlock /\ at' = 0 /\ outcome' = <<>>
       ELSE /\ outcome' = Append(outcome, verdict \in {"Exact", "Tolerated"})
            /\ at' = at + 1 /\ UNCHANGED block
    /\ UNCHANGED <<model, plan, resolved, collector>>

Accepted(s) == Cardinality({i \in DOMAIN s : s[i]})

(* record_speculation and the event that follows it.                        *)
Recorded(b, s) ==
    [records |-> Append(collector.records, [horizon |-> b.horizon, accepted |-> Accepted(s)]),
     accepted |-> collector.accepted + Accepted(s),
     rejected |-> collector.rejected + Len(s) - Accepted(s),
     events |-> IF Len(collector.events) < EventRoom
                THEN Append(collector.events, [sequence |-> Len(collector.events),
                                               accepted |-> Accepted(s)])
                ELSE collector.events]

\* Variant: a block is recorded whether or not its telemetry is enabled.
FinishAlways ==
    /\ at = Len(block.candidates) + 1 /\ block # NoBlock
    /\ resolved' = Append(resolved, [block |-> block, accepted |-> outcome])
    /\ collector' = Recorded(block, outcome)
    /\ block' = NoBlock /\ at' = 0 /\ outcome' = <<>>
    /\ UNCHANGED <<model, plan>>

Finish ==
    /\ at = Len(block.candidates) + 1 /\ block # NoBlock
    /\ resolved' = Append(resolved, [block |-> block, accepted |-> outcome])
    /\ collector' = IF block.telemetry THEN Recorded(block, outcome) ELSE collector
    /\ block' = NoBlock /\ at' = 0 /\ outcome' = <<>>
    /\ UNCHANGED <<model, plan>>

EInit == /\ model \in Rows(Tensor, MaxTensors)
         /\ plan \in {CompileModel(model), ImportModel(model)}
                     \cup (IF model = <<>> THEN {[NoPlan EXCEPT !.operations = t] : t \in Tables}
                           ELSE {})
         /\ block = NoBlock /\ at = 0 /\ outcome = <<>> /\ resolved = <<>>
         /\ collector = [records |-> <<>>, accepted |-> 0, rejected |-> 0, events |-> <<>>]

Blocks == [horizon : 0..MaxHorizon, candidates : Rows(Candidate, MaxHorizon), telemetry : BOOLEAN]

ENext == \/ \E b \in Blocks : Resolve(b)
         \/ \E v \in {"Exact", "Tolerated", "Mismatch", "Structural", "Error"} : Dispatch(v)
         \/ Finish

-----------------------------------------------------------------------------
(* The operations reachable from the set S through dependencies: what every *)
(* set has that contains S and the dependencies of its members.             *)
Closure(ops, S) ==
    LET Closed(T) == S \subseteq T /\ \A n \in T : ops[n].dependencies \subseteq T
    IN {n \in DOMAIN ops : \A T \in SUBSET DOMAIN ops : Closed(T) => n \in T}

(***************************************************************************)
(* Validation of a table agrees with its meaning: accepted exactly when    *)
(* every dependency names an operation and none depends on itself, however *)
(* indirectly.  A plan compiled here is accepted exactly when its tensors  *)
(* have distinct names and the ones kept in VRAM fit together; the model   *)
(* package import promises only the former.                                *)
(***************************************************************************)
PlanSound ==
    LET ops == plan.operations
        dense == \A i \in DOMAIN ops : ops[i].index = i
        named == \A i \in DOMAIN ops : ops[i].dependencies \subseteq DOMAIN ops
        vram == Total([i \in DOMAIN model |-> IF model[i].hot THEN model[i].bytes ELSE 0])
    IN /\ TableValid(ops) <=>
            /\ dense /\ named
            /\ \A n \in DOMAIN ops : n \notin Closure(ops, ops[n].dependencies)
       /\ model # <<>> =>
            (PlanValid(plan) <=>
               /\ \A i, j \in DOMAIN model : model[i].name = model[j].name => i = j
               /\ ((plan = CompileModel(model) /\ plan.assigned > 0) => vram <= VramBytes))

(***************************************************************************)
(* Telemetry follows the resolutions and nothing else: each block whose    *)
(* telemetry is on leaves one record, in order, its candidates counted     *)
(* once as accepted or rejected; a block that failed half-way leaves none; *)
(* an event that found no room is missing, never attached to another block.*)
(***************************************************************************)
Told == {i \in DOMAIN resolved : resolved[i].block.telemetry}
Place(i) == Cardinality(Told \cap 1..i)

BlocksCounted ==
    /\ Len(collector.records) = Cardinality(Told)
    /\ \A i \in Told :
         /\ Len(resolved[i].accepted) = resolved[i].block.horizon
         /\ collector.records[Place(i)] = [horizon |-> resolved[i].block.horizon,
                                          accepted |-> Accepted(resolved[i].accepted)]
    /\ collector.accepted =
         SumFunctionOnSet([i \in Told |-> Accepted(resolved[i].accepted)], Told)
    /\ collector.accepted + collector.rejected =
         SumFunctionOnSet([i \in Told |-> resolved[i].block.horizon], Told)
    /\ Len(collector.events) = IF Cardinality(Told) < EventRoom THEN Cardinality(Told) ELSE EventRoom
    /\ \A i \in DOMAIN collector.events :
         collector.events[i] = [sequence |-> i - 1, accepted |-> collector.records[i].accepted]
=============================================================================
