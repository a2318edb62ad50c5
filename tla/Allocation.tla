----------------------------- MODULE Allocation -----------------------------
(***************************************************************************)
(* har-model-compiler: the role a tensor's name gives it, and              *)
(* allocate_formats, which gives every tensor its cheapest admissible      *)
(* format and then spends what is left of the budget on upgrades whose     *)
(* gain was measured, the best gain per byte first.  A name is the set of  *)
(* markers found in it and its projection; a loss is a whole number of     *)
(* hundredths, Absent where nothing behavioural was measured.              *)
(***************************************************************************)
EXTENDS Integers, SequencesExt

CONSTANTS Models,     \* the models: sequences of [name, blocks] with 256 weights a block
          Candidates, \* the formats of the policy, in its order
          Supported,  \* the formats the hardware has kernels for
          Losses, Absent, Budgets

ASSUME AllocationAssumption ==
    /\ Losses \ {Absent} \subseteq 0..100 /\ Absent \notin 0..100 /\ Budgets \subseteq Nat
    /\ \A m \in Models : /\ Len(m) \in Nat /\ DOMAIN m = 1..Len(m)
                         /\ \A i \in DOMAIN m : m[i].blocks \in Nat \ {0}  \* no tensor is empty

VARIABLES tensors,  \* the model: [role, blocks] of every tensor
          measured, \* measured[i][f]: the loss of tensor i in format f
          budget,
          choices,  \* choices[i]: the format chosen for tensor i, or Absent
          phase     \* "choose", "upgrade" or "done"
avars == <<tensors, measured, budget, choices, phase>>

-----------------------------------------------------------------------------
(* classify_tensor: the first rule that applies decides.                    *)
Rules(n) ==
    LET has(m) == m \in n.markers
        attention == has("attn")
        expert == has("expert")
    IN << <<has("mtp"), "Mtp">>,
          <<has("embed"), "Embedding">>,
          <<has("router"), "Router">>,
          <<has("shared"), "SharedExpert">>,
          <<attention /\ n.projection = "qkv", "MetadataOther">>,
          <<attention /\ n.projection \in {"q", "k", "v", "o"}, "Attention">>,
          <<has("norm"), "Normalization">>,
          <<has("output") /\ ~attention, "Output">>,
          <<expert /\ n.projection \in {"gate", "up", "down"}, "RoutedExpert">>,
          <<has("ffn") /\ n.projection \in {"gate", "up", "down"}, "DenseFfn">>,
          <<TRUE, "MetadataOther">> >>
Role(n) == LET i == Min({j \in DOMAIN Rules(n) : Rules(n)[j][1]}) IN Rules(n)[i][2]

(* Bits per weight, in sixteenths, and bytes per block.                     *)
FormatSpec == [Q3_K_S |-> <<55, 110>>, Q4_K_S |-> <<72, 144>>, Q4_K_M |-> <<76, 152>>,
         Q5_K_M |-> <<92, 176>>, Q6_K |-> <<105, 210>>, Q8_K_XL |-> <<146, 292>>]
Bits(f) == FormatSpec[f][1]

(* Both loops pass over a candidate format_spec does not know.              *)
ASSUME CandidateAssumption == /\ Candidates \in Seq(DOMAIN FormatSpec)
                              /\ Absent \notin DOMAIN FormatSpec

FormatBytes(i, f) == tensors[i].blocks * FormatSpec[f][2]

Protected(i) == tensors[i].role \in {"Router", "Output", "Mtp"}
Options(i) == {f \in Range(Candidates) :
                  f \in Supported /\ (Protected(i) => Bits(f) >= Bits("Q8_K_XL"))}

(* The first loop: cheapest first.                                          *)
ChooseFormats ==
    /\ phase = "choose"
    /\ choices' = [i \in DOMAIN tensors |->
                     IF Options(i) = {} THEN Absent
                     ELSE CHOOSE f \in Options(i) : \A g \in Options(i) : Bits(f) <= Bits(g)]
    /\ phase' = "upgrade"
    /\ UNCHANGED <<tensors, measured, budget>>

Chosen == {i \in DOMAIN tensors : choices[i] # Absent}
TotalBytes == SumFunctionOnSet([i \in Chosen |-> FormatBytes(i, choices[i])], Chosen)
Remaining == IF TotalBytes > budget THEN 0 ELSE budget - TotalBytes

(* A choice nobody measured is taken to lose everything.                    *)
Current(i) == IF measured[i][choices[i]] = Absent THEN 100 ELSE measured[i][choices[i]]
Gain(u) == Current(u[1]) - measured[u[1]][Candidates[u[2]]]
Extra(u) == FormatBytes(u[1], Candidates[u[2]]) - FormatBytes(u[1], choices[u[1]])

\* Variant: what an upgrade costs is not held against the budget.
UpgradesUnbounded ==
    {u \in Chosen \X DOMAIN Candidates :
        /\ Bits(Candidates[u[2]]) > Bits(choices[u[1]])
        /\ measured[u[1]][Candidates[u[2]]] # Absent
        /\ Extra(u) > 0
        /\ Gain(u) > 0}

(* <<tensor, candidate>> pairs the second loop considers.  It does not ask  *)
(* whether the hardware supports the candidate.                             *)
Upgrades ==
    {u \in Chosen \X DOMAIN Candidates :
        /\ Bits(Candidates[u[2]]) > Bits(choices[u[1]])
        /\ measured[u[1]][Candidates[u[2]]] # Absent
        /\ Extra(u) > 0 /\ Extra(u) <= Remaining
        /\ Gain(u) > 0}

(* The best gain per byte; of equals the first met.                         *)
Better(u, w) == \/ Gain(u) * Extra(w) > Gain(w) * Extra(u)
                \/ /\ Gain(u) * Extra(w) = Gain(w) * Extra(u)
                   /\ (u[1] < w[1] \/ (u[1] = w[1] /\ u[2] < w[2]))
Upgrade ==
    /\ phase = "upgrade" /\ Upgrades # {}
    /\ LET best == CHOOSE u \in Upgrades : \A w \in Upgrades \ {u} : Better(u, w)
       IN choices' = [choices EXCEPT ![best[1]] = Candidates[best[2]]]
    /\ UNCHANGED <<tensors, measured, budget, phase>>

Conclude ==
    /\ phase = "upgrade" /\ Upgrades = {}
    /\ phase' = "done"
    /\ UNCHANGED <<tensors, measured, budget, choices>>

Feasible == TotalBytes <= budget /\ Chosen = DOMAIN tensors

(* The risk of an unmeasured first choice stays when it is upgraded.        *)
Unmeasured == \E i \in Chosen :
    LET first == CHOOSE f \in Options(i) : \A g \in Options(i) : Bits(f) <= Bits(g)
    IN measured[i][first] = Absent
ClaimsAllowed ==
    /\ \E i \in DOMAIN measured, f \in Range(Candidates) : measured[i][f] # Absent
    /\ ~Unmeasured

AInit == /\ \E m \in Models :
              tensors = [i \in DOMAIN m |-> [role |-> Role(m[i].name), blocks |-> m[i].blocks]]
         /\ budget \in Budgets
         /\ measured \in [DOMAIN tensors -> [Range(Candidates) -> Losses]]
         /\ choices = <<>> /\ phase = "choose"
ANext == ChooseFormats \/ Upgrade \/ Conclude

-----------------------------------------------------------------------------
(***************************************************************************)
(* What the finished allocation says of itself is so.  A feasible one has  *)
(* a format for every tensor and fits the budget, and upgrades are not     *)
(* what makes one infeasible; a protected tensor is never below the floor; *)
(* a quality claim is allowed only when the format every allocated tensor  *)
(* ended up with was measured; and no measured improvement that still fits *)
(* was left out.                                                           *)
(***************************************************************************)
AllocationHonest ==
    phase = "done" =>
        /\ Feasible => /\ \A i \in DOMAIN tensors : choices[i] \in Range(Candidates)
                       /\ TotalBytes <= budget
        /\ TotalBytes > budget => \A i \in Chosen : \A f \in Options(i) : Bits(choices[i]) <= Bits(f)
        /\ \A i \in Chosen : Protected(i) => choices[i] = "Q8_K_XL"
        /\ ClaimsAllowed => \A i \in Chosen : measured[i][choices[i]] # Absent
        /\ \A i \in Chosen, f \in Range(Candidates) :
             (measured[i][f] # Absent /\ measured[i][f] < Current(i) /\ Bits(f) > Bits(choices[i]))
                 => TotalBytes - FormatBytes(i, choices[i]) + FormatBytes(i, f) > budget

=============================================================================
