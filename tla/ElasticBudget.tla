--------------------------- MODULE ElasticBudget ---------------------------
(***************************************************************************)
(* The elastic VRAM budget (har-memory/src/elastic_budget.rs): adjustments *)
(* are requested in any engine phase and committed in Idle, a grow by the  *)
(* highest rung of its rollback ladder that fits the free memory measured  *)
(* at the commit.                                                          *)
(***************************************************************************)
EXTENDS Naturals, FiniteSetsExt

CONSTANTS MinBytes, MaxBytes, StepBytes, Headroom,
          FreeReadings,  \* free-memory readings a device may give
          MaxEpoch       \* bound: commits in a behaviour

ASSUME PolicyAssumption ==
    /\ {MinBytes, MaxBytes, Headroom} \subseteq Nat /\ MinBytes <= MaxBytes
    /\ StepBytes \in Nat \ {0}
    /\ FreeReadings \subseteq Nat
    /\ MaxEpoch \in Nat

VARIABLES enginePhase, current, epoch,
          pending,   \* {} or {the queued adjustment}
          reading    \* ghost: the free bytes measured by the last commit
bvars == <<enginePhase, current, epoch, pending, reading>>

Phases == {"Idle", "Prefill", "Decode"}
Budgets == MinBytes..MaxBytes
Adjustment == [kind : {"Grow", "Shrink"}, target : Budgets]

BTypeOK == /\ enginePhase \in Phases /\ current \in Budgets
           /\ epoch \in 0..MaxEpoch
           /\ \E a \in Adjustment : pending \in {{}, {a}}
           /\ reading \in FreeReadings \cup {0}

BInit == /\ enginePhase = "Idle" /\ current \in Budgets /\ epoch = 0
         /\ pending = {} /\ reading = 0

SetPhase(p) == enginePhase' = p /\ UNCHANGED <<current, epoch, pending, reading>>

(* request: a target clamped to what is held already asks for nothing; a    *)
(* second adjustment is refused while one waits.                            *)
Request(bytes) ==
    LET target == Max({MinBytes, Min({bytes, MaxBytes})}) IN
    /\ target # current /\ pending = {}
    /\ pending' = {[kind |-> IF target > current THEN "Grow" ELSE "Shrink",
                    target |-> target]}
    /\ UNCHANGED <<enginePhase, current, epoch, reading>>

CancelPending == pending' = {} /\ UNCHANGED <<enginePhase, current, epoch, reading>>

Monus(x, y) == IF x > y THEN x - y ELSE 0

\* Variant: the ladder ends one rung before the grow fits.
RungLate(a, free) ==
    Max({c \in {Max({Monus(a.target, k * StepBytes), current}) : k \in 0..MaxBytes} :
           c - current <= Monus(free, Headroom) + StepBytes \/ c = current})

(* The ladder goes down from the target by StepBytes, not below what is     *)
(* held; its first rung whose growth the readings allow.                    *)
Rung(a, free) ==
    Max({c \in {Max({Monus(a.target, k * StepBytes), current}) : k \in 0..MaxBytes} :
           c - current <= Monus(free, Headroom) \/ c = current})

(* commit_idle takes the adjustment out first: a grow that fits no rung is  *)
(* refused and gone.                                                        *)
CommitIdle(free) ==
    /\ enginePhase = "Idle" /\ epoch < MaxEpoch
    /\ \E a \in pending :
         LET committed == IF a.kind = "Shrink" THEN a.target ELSE Rung(a, free) IN
         /\ current' = committed
         /\ epoch' = epoch + (IF committed = current THEN 0 ELSE 1)
    /\ pending' = {}
    /\ reading' = free
    /\ UNCHANGED enginePhase

BNext == \/ \E p \in Phases : SetPhase(p)
         \/ \E b \in 0..(MaxBytes + 1) : Request(b)
         \/ CancelPending
         \/ \E free \in FreeReadings : CommitIdle(free)

(***************************************************************************)
(* "must happen only while the engine is idle": the budget moves only      *)
(* while the engine is idle before and after, towards the adjustment that  *)
(* waited, each time under a new epoch; a grow leaves the headroom of the  *)
(* memory that was free, and stops short of its target only when one more  *)
(* step would not have left it.                                            *)
(***************************************************************************)
AllowedMove ==
    current' # current =>
       /\ enginePhase = "Idle" /\ enginePhase' = "Idle"
       /\ epoch' = epoch + 1
       /\ \E a \in pending :
            \/ current' = a.target /\ current' < current
            \/ /\ current < current' /\ current' <= a.target
               /\ current' - current + Headroom <= reading'
               /\ current' < a.target =>
                    current' + StepBytes - current + Headroom > reading'

BudgetMoves == [][AllowedMove]_bvars
=============================================================================
