----------------------------- MODULE Metabolism -----------------------------
(***************************************************************************)
(* The metabolism controller (har-metabolism) behind its two owners: the   *)
(* runtime's telemetry join (har-runtime/src/metabolism.rs) and the decode *)
(* gate (har-decode-control/src/metabolism.rs).  Reserve accounts, the     *)
(* waste ledger, the two clocks, and what a snapshot reports.  Work, cost  *)
(* and energy figures that nothing reads back are left out.                *)
(***************************************************************************)
EXTENDS Integers, Sequences, FiniteSets

CONSTANTS Identities,   \* non-empty token and witness identities
          Bases,        \* clock bases: model root, graph, worker set
          VramMiB, Protected, Compute, \* capacities; compute has no floor
          Needs,        \* amounts asked of the reserve
          RecoverAfter, \* epochs before a borrowed reserve is written off
          SlowWindow, EventCapacity,
          MaxObservations, MaxSpent, MaxReserveEpoch, MaxDebt \* bounds of a run

ASSUME MetabolismAssumption ==
    /\ {VramMiB, Protected, Compute, SlowWindow} \subseteq Nat
    /\ {RecoverAfter, EventCapacity} \subseteq Nat \ {0} /\ Needs \subseteq Nat
    /\ {MaxObservations, MaxSpent, MaxReserveEpoch, MaxDebt} \subseteq Nat
    /\ "" \notin Identities /\ "none" \notin Bases

VARIABLES owner,        \* which of the two owners runs this controller
          reserve,      \* one account per dimension
          reserveEpoch, \* ReserveTable::epoch
          ledger, clock, basis, approved,
          telemetry     \* the runtime's collector
xvars == <<owner, reserve, reserveEpoch, ledger, clock, basis, approved, telemetry>>

Dims == {"Vram", "Compute"}
ReuseClasses == {"Exact", "Conditional", "Informational", "Unrecoverable"}
CapacityOf(d) == IF d = "Vram" THEN VramMiB ELSE Compute
Floor(d) == IF d = "Vram" THEN Protected ELSE 0
AtLeastZero(n) == IF n < 0 THEN 0 ELSE n
Least(a, b) == IF a < b THEN a ELSE b

EmptyTelemetry == [exact |-> 0, epoch |-> 0, events |-> <<>>, dropped |-> 0]

XInit ==
    /\ owner \in {"runtime", "gate"}
    /\ reserve = [d \in Dims |-> [committed |-> 0, debt |-> 0, recovery |-> 0]]
    /\ reserveEpoch = 0
    /\ ledger = [entries |-> <<>>, useful |-> 0, wasted |-> 0, misses |-> 0,
                 reclaimed |-> {}, reuse |-> {}, overlap |-> {}, credit |-> 0]
    /\ basis \in Bases
    /\ clock = [fast |-> 0, accepted |-> 0, rejected |-> 0, slow |-> 0, window |-> 0,
                samples |-> 0, slowBasis |-> "none", valid |-> FALSE]
    /\ approved = 0 /\ telemetry = EmptyTelemetry

-----------------------------------------------------------------------------
(* Reserve accounts.                                                        *)
Available(d) ==
    AtLeastZero(CapacityOf(d) - (Floor(d) + reserve[d].committed + reserve[d].debt))
Borrowed(d, n) == AtLeastZero(n - AtLeastZero(CapacityOf(d) - Floor(d)))

Commit(d, need) ==
    /\ Available(d) >= need
    /\ reserve' = [reserve EXCEPT ![d].committed = @ + need]
    /\ UNCHANGED <<owner, reserveEpoch, ledger, clock, basis, approved, telemetry>>

ReleaseReserve(d, need) ==
    /\ reserve' = [reserve EXCEPT ![d].committed = @ - Least(need, @)]
    /\ UNCHANGED <<owner, reserveEpoch, ledger, clock, basis, approved, telemetry>>

(* mobilize: the caller passes the table's epoch as now.  What is released  *)
(* later does not lower the debt, so borrowing again adds to it.            *)
Mobilize(d, need) ==
    LET a == reserve[d] IN
    /\ need <= CapacityOf(d) - a.committed /\ a.debt <= MaxDebt
    /\ reserve' = [reserve EXCEPT ![d] =
         [committed |-> a.committed + need,
          debt |-> a.debt + Borrowed(d, a.committed + need) - Borrowed(d, a.committed),
          recovery |-> reserveEpoch + RecoverAfter]]
    /\ UNCHANGED <<owner, reserveEpoch, ledger, clock, basis, approved, telemetry>>

\* Variant: a debt is kept through the epoch at which it should recover.
SettleLate(a, e) == IF e > a.recovery THEN [a EXCEPT !.debt = 0, !.recovery = 0] ELSE a

SettleDebt(a, e) == IF e >= a.recovery THEN [a EXCEPT !.debt = 0, !.recovery = 0] ELSE a

Advance ==
    /\ reserveEpoch < MaxReserveEpoch
    /\ reserveEpoch' = reserveEpoch + 1
    /\ reserve' = [d \in Dims |-> SettleDebt(reserve[d], reserveEpoch + 1)]
    /\ UNCHANGED <<owner, ledger, clock, basis, approved, telemetry>>

-----------------------------------------------------------------------------
(* The ledger.                                                              *)
Spent(class, id) ==
    [ledger EXCEPT
       !.entries = Append(@, [class |-> class, identity |-> id]),
       !.useful = @ + IF class = "Useful" THEN 1 ELSE 0,
       !.wasted = @ + IF class = "Discarded" THEN 1 ELSE 0,
       !.misses = @ + IF class = "Miss" THEN 1 ELSE 0]

(* Only the owners book useful work: see RecordExact and Observe.           *)
RecordWaste(class, id) ==
    /\ Len(ledger.entries) < MaxSpent
    /\ ledger' = Spent(class, id)
    /\ UNCHANGED <<owner, reserve, reserveEpoch, clock, basis, approved, telemetry>>

Credited == ledger.reuse \cup ledger.overlap

(* The base entry need not exist, and Reclaim::classify is not asked.       *)
RecordReclaim(id) ==
    /\ id # "" /\ id \notin ledger.reclaimed
    /\ ledger' = [ledger EXCEPT !.reclaimed = @ \cup {id}]
    /\ UNCHANGED <<owner, reserve, reserveEpoch, clock, basis, approved, telemetry>>

GrantReuse(id) ==
    /\ id # "" /\ id \in ledger.reclaimed /\ id \notin Credited
    /\ ledger' = [ledger EXCEPT !.reuse = @ \cup {id}, !.credit = @ + 1]
    /\ UNCHANGED <<owner, reserve, reserveEpoch, clock, basis, approved, telemetry>>

(* An overlap credit asks for measured bytes, not for a reclaim or a name.  *)
GrantOverlap(id) ==
    /\ id \notin Credited
    /\ ledger' = [ledger EXCEPT !.overlap = @ \cup {id}, !.credit = @ + 1]
    /\ UNCHANGED <<owner, reserve, reserveEpoch, clock, basis, approved, telemetry>>

(* Reclaim::classify: what a spent entry may be offered as.                 *)
Reclaimable(seq, current) ==
    IF ledger.entries[seq].class = "Useful" THEN current ELSE "Unrecoverable"

-----------------------------------------------------------------------------
(* Clocks: one fast tick for each observation, then the slow window, which  *)
(* starts afresh when the basis is not the one it was collected on.         *)
Ticked(useful) ==
    LET fresh == clock.slowBasis # basis
        window == (IF fresh THEN 0 ELSE clock.window) + 1
    IN [clock EXCEPT
          !.fast = @ + 1,
          !.accepted = @ + IF useful THEN 1 ELSE 0,
          !.rejected = @ + IF useful THEN 0 ELSE 1,
          !.slow = @ + 1,
          !.slowBasis = basis,
          !.valid = @ \/ fresh,
          !.samples = (IF fresh THEN 0 ELSE @) + 1,
          !.window = IF window >= SlowWindow THEN 0 ELSE window]

SetBasis(b) ==
    /\ basis' = b
    /\ clock' = [clock EXCEPT !.valid = FALSE, !.window = 0, !.samples = 0]
    /\ UNCHANGED <<owner, reserve, reserveEpoch, ledger, approved, telemetry>>

(* record_snapshot_event: the totals row is replaced, the event is dropped  *)
(* when the buffer is full.                                                 *)
Report(l, c) ==
    LET full == Len(telemetry.events) = EventCapacity IN
    [exact |-> l.useful, epoch |-> c.fast,
     events |-> IF full THEN telemetry.events
                ELSE Append(telemetry.events, [sequence |-> c.fast, exact |-> l.useful]),
     dropped |-> telemetry.dropped + IF full THEN 1 ELSE 0]

RecordExact(id) ==
    /\ owner = "runtime" /\ id # ""
    /\ clock.fast < MaxObservations /\ Len(ledger.entries) < MaxSpent
    /\ ledger' = Spent("Useful", id)
    /\ clock' = Ticked(TRUE)
    /\ telemetry' = Report(ledger', clock')
    /\ UNCHANGED <<owner, reserve, reserveEpoch, basis, approved>>

RecordObservation(useful) ==
    /\ owner = "runtime" /\ clock.fast < MaxObservations
    /\ clock' = Ticked(useful)
    /\ telemetry' = Report(ledger, clock')
    /\ UNCHANGED <<owner, reserve, reserveEpoch, ledger, basis, approved>>

TakeTelemetry ==
    /\ owner = "runtime"
    /\ telemetry' = EmptyTelemetry
    /\ UNCHANGED <<owner, reserve, reserveEpoch, ledger, clock, basis, approved>>

(* The gate's observe: an exact commit without an identity changes nothing. *)
Observe(exact, id) ==
    /\ owner = "gate" /\ clock.fast < MaxObservations /\ Len(ledger.entries) < MaxSpent
    /\ exact => id # ""
    /\ ledger' = IF exact THEN Spent("Useful", id) ELSE ledger
    /\ clock' = Ticked(exact)
    /\ UNCHANGED <<owner, reserve, reserveEpoch, basis, approved, telemetry>>

(* decide_optional of an enabled gate with known costs, and Portion::decide *)
(* under it: an admission is counted and commits nothing.                   *)
Decide(tokens, class) ==
    /\ owner = "gate" /\ approved < MaxSpent
    /\ class # "Unrecoverable" /\ tokens > 0
    /\ Available("Compute") >= 1 /\ Available("Vram") >= 1
    /\ approved' = approved + tokens
    /\ UNCHANGED <<owner, reserve, reserveEpoch, ledger, clock, basis, telemetry>>

ReserveNext ==
    \/ \E d \in Dims, n \in Needs : Commit(d, n)
    \/ \E d \in Dims, n \in Needs : ReleaseReserve(d, n)
    \/ \E d \in Dims, n \in Needs : Mobilize(d, n)
    \/ Advance
    \/ \E n \in {0, 1}, c \in ReuseClasses : Decide(n, c)

BooksNext ==
    \/ \E c \in {"Discarded", "Miss"}, id \in Identities : RecordWaste(c, id)
    \/ \E id \in Identities \cup {""} : RecordReclaim(id)
    \/ \E id \in Identities \cup {""} : GrantReuse(id)
    \/ \E id \in Identities \cup {""} : GrantOverlap(id)
    \/ \E b \in Bases : SetBasis(b)
    \/ \E id \in Identities \cup {""} : RecordExact(id)
    \/ \E useful \in BOOLEAN : RecordObservation(useful)
    \/ TakeTelemetry
    \/ \E exact \in BOOLEAN, id \in Identities \cup {""} : Observe(exact, id)

-----------------------------------------------------------------------------
(***************************************************************************)
(* An account never commits more than its capacity; a debt is gone by the  *)
(* epoch at which it recovers; and while anything is available, optional   *)
(* work leaves the protected floor alone, whatever was borrowed, released  *)
(* and written off before.                                                 *)
(***************************************************************************)
ReserveSound ==
    \A d \in Dims : LET a == reserve[d] IN
       /\ a.committed <= CapacityOf(d)
       /\ a.debt > 0 => reserveEpoch < a.recovery
       /\ Available(d) > 0 => a.committed + Available(d) <= CapacityOf(d) - Floor(d)

(***************************************************************************)
(* The books agree: every credited identity was credited once, and by      *)
(* reuse only after a reclaim; the fast clock counts every observation;    *)
(* an exact token is booked only with its accepted observation (the gate   *)
(* books exactly those); only useful work is ever reclaimable; and the     *)
(* telemetry rows follow the controller in order, none ahead of it.        *)
(***************************************************************************)
BooksAgree ==
    /\ ledger.credit = Cardinality(Credited) /\ ledger.reuse \subseteq ledger.reclaimed
    /\ clock.accepted + clock.rejected = clock.fast
    /\ ledger.useful + ledger.wasted + ledger.misses = Len(ledger.entries)
    /\ ledger.useful <= clock.accepted /\ (owner = "gate" => ledger.useful = clock.accepted)
    /\ \A s \in DOMAIN ledger.entries : 
          Reclaimable(s, "Exact") = "Exact" => ledger.entries[s].identity # ""
    /\ telemetry.exact <= ledger.useful /\ telemetry.epoch <= clock.fast
    /\ \A i, j \in DOMAIN telemetry.events : i < j =>
          /\ telemetry.events[i].sequence < telemetry.events[j].sequence
          /\ telemetry.events[i].exact <= telemetry.events[j].exact
=============================================================================
