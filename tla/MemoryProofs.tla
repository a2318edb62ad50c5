------------------------------ MODULE MemoryProofs ------------------------------
(***************************************************************************)
(* The components of MCDevice that hold memory in the host, for every size *)
(* of page, pool, budget, queue and watermark: the registry of residency   *)
(* records, the elastic budget, the expert cache, the R4KV tier and its    *)
(* transfer engine, the pinned pool, the metabolism's reserve and books.   *)
(* Each keeps its own invariant, whatever the others do.                   *)
(***************************************************************************)
EXTENDS MCDevice, DataLemmas

-----------------------------------------------------------------------------
(* har-memory/src/lib.rs: records and their registry                        *)

RegistryInv == MTypeOK /\ RegistrySound

\* No record is made yet: every log is empty at Unavailable.
LEMMA RegistryInit == MInit => RegistryInv
  <1> SUFFICES ASSUME MInit PROVE RegistryInv
    OBVIOUS
  <1>1. \A r \in Resources : machines[r] = NewMachine(FALSE, 0)
    BY DEF MInit
  <1>2. NewMachine(FALSE, 0) \in Machine
    BY DEF NewMachine, Machine, MachineState
  <1>3. machines \in [Resources -> Machine] /\ registered = {} /\ transfers = <<>>
    BY <1>2 DEF MInit
  <1>4. MTypeOK
    BY <1>3 DEF MTypeOK
  <1> QED
    BY <1>1, <1>3, <1>4 DEF RegistryInv, RegistrySound, LogExplainsState, TicketsFitRecords,
       RegisteredAreMade, NewMachine

\* What a call that drives or makes one record must show.
LEMMA RecordChange ==
    ASSUME RegistryInv, NEW r \in Resources, NEW m \in Machine,
           machines' = [machines EXCEPT ![r] = m],
           UNCHANGED <<registered, transfers>>,
           machines[r].made => /\ m.made /\ m.bytes = machines[r].bytes
                               /\ m.generation >= machines[r].generation
                               /\ machines[r].state = "Error" => m.state = "Error"
                               /\ \A i \in DOMAIN machines[r].events :
                                    i \in DOMAIN m.events /\ m.events[i] = machines[r].events[i],
           m.state = IF m.events = <<>> THEN "Unavailable" ELSE m.events[Len(m.events)].to,
           \A i \in DOMAIN m.events :
              /\ m.events[i].sequence = i - 1
              /\ m.events[i].from = IF i = 1 THEN "Unavailable" ELSE m.events[i - 1].to
              /\ m.events[i].to \in NextStates(m.events[i].from)
    PROVE  RegistryInv' /\ HistoryGrows
  <1> USE DEF RegistryInv, RegistrySound
  <1>1. /\ machines \in [Resources -> Machine] /\ machines'[r] = m
        /\ \A q \in Resources : q # r => machines'[q] = machines[q]
    BY DEF MTypeOK
  <1>2. MTypeOK'
    BY DEF MTypeOK
  <1>3. LogExplainsState'
    BY <1>1 DEF LogExplainsState
  <1>4. RegisteredAreMade'
    BY <1>1 DEF RegisteredAreMade, MTypeOK
  <1>5. TicketsFitRecords'
    <2> SUFFICES ASSUME NEW i \in DOMAIN transfers
                 PROVE  /\ transfers[i].id = i - 1 /\ transfers[i].resource \in registered
                        /\ transfers[i].bytes <= machines'[transfers[i].resource].bytes
                        /\ transfers[i].generation <= machines'[transfers[i].resource].generation
      BY DEF TicketsFitRecords
    <2> DEFINE q == transfers[i].resource
    <2>1. q \in registered /\ q \in Resources /\ machines[q].made
      BY DEF TicketsFitRecords, RegisteredAreMade, MTypeOK
    <2>2. machines'[q].bytes = machines[q].bytes /\ machines'[q].generation >= machines[q].generation
          /\ machines[q].generation \in Nat /\ machines'[q].generation \in Nat
      BY <1>1, <1>2, <2>1 DEF MTypeOK, Machine
    <2>3. transfers[i].generation \in Nat /\ transfers[i].bytes \in Nat
      <3>1. transfers[i] \in Ticket
        BY DEF MTypeOK
      <3> QED
        BY <3>1, MemoryAssumption DEF Ticket
    <2>4. /\ transfers[i].id = i - 1 /\ transfers[i].bytes <= machines[q].bytes
          /\ transfers[i].generation <= machines[q].generation
      BY DEF TicketsFitRecords
    <2> HIDE DEF q
    <2>5. transfers[i].bytes <= machines'[q].bytes /\ transfers[i].generation <= machines'[q].generation
      BY <2>2, <2>3, <2>4
    <2> QED
      BY <2>1, <2>4, <2>5 DEF q
  <1>6. HistoryGrows
    BY <1>1 DEF HistoryGrows, MTypeOK, Machine
  <1> QED
    BY <1>2, <1>3, <1>4, <1>5, <1>6

\* A failed record has nowhere to go.
LEMMA ErrorIsLast == NextStates("Error") = {}
  BY DEF NextStates

\* transition: one more legal step in the log, and the record where it leads.
LEMMA TransitionKeeps ==
    ASSUME RegistryInv, NEW r \in Resources, NEW next \in MachineState, Transition(r, next)
    PROVE  RegistryInv' /\ HistoryGrows
  <1> DEFINE old == machines[r]
             event == [sequence |-> Len(old.events), from |-> old.state, to |-> next]
  <1>1. old \in Machine /\ old.events \in Seq(Event) /\ Len(old.events) \in Nat
    BY DEF RegistryInv, MTypeOK, Machine
  <1>2. next \in NextStates(old.state) /\ UNCHANGED <<registered, transfers>>
    BY DEF Transition
  <1>4. event \in Event
    BY <1>1 DEF Event, Machine
  <1> DEFINE log == Append(old.events, event)
             m == [old EXCEPT !.state = next, !.events = log]
  <1>3. machines' = [machines EXCEPT ![r] = m]
    BY DEF Transition, RegistryInv, MTypeOK, Machine
  <1>14. log \in Seq(Event) /\ old.generation \in Nat
    BY <1>1, <1>4 DEF Machine
  <1> HIDE DEF event, log, old
  <1>5. /\ m \in Machine /\ m.made = old.made /\ m.bytes = old.bytes
        /\ m.generation = old.generation /\ m.state = next
        /\ m.events = log
    BY <1>1, <1>14 DEF Machine
  <1>6. old.state # "Error"
    BY <1>2, ErrorIsLast DEF old
  <1>7. /\ event.sequence = Len(old.events) /\ event.from = old.state /\ event.to = next
    BY DEF event, old
  <1>8. /\ old.state = IF old.events = <<>> THEN "Unavailable" ELSE old.events[Len(old.events)].to
        /\ \A i \in DOMAIN old.events :
              /\ old.events[i].sequence = i - 1
              /\ old.events[i].from = IF i = 1 THEN "Unavailable" ELSE old.events[i - 1].to
              /\ old.events[i].to \in NextStates(old.events[i].from)
    BY DEF RegistryInv, RegistrySound, LogExplainsState, old
  <1> HIDE DEF m
  <1>9. /\ DOMAIN m.events = 1..(Len(old.events) + 1) /\ DOMAIN old.events = 1..Len(old.events)
        /\ Len(m.events) = Len(old.events) + 1 /\ m.events # <<>>
        /\ m.events[Len(old.events) + 1] = event
        /\ \A i \in 1..Len(old.events) : m.events[i] = old.events[i]
    BY <1>1, <1>4, <1>5 DEF log
  <1>10. m.state = IF m.events = <<>> THEN "Unavailable" ELSE m.events[Len(m.events)].to
    BY <1>5, <1>7, <1>9
  <1>11. ASSUME NEW i \in DOMAIN m.events
         PROVE  /\ m.events[i].sequence = i - 1
                /\ m.events[i].from = IF i = 1 THEN "Unavailable" ELSE m.events[i - 1].to
                /\ m.events[i].to \in NextStates(m.events[i].from)
    <2>1. CASE i \in 1..Len(old.events)
      BY SMTT(30), <1>1, <1>8, <1>9, <2>1
    <2>2. CASE i = Len(old.events) + 1
      <3>1. m.events[i] = event
        BY <1>9, <2>2
      <3>2. old.state = IF i = 1 THEN "Unavailable" ELSE m.events[i - 1].to
        <4>1. CASE Len(old.events) = 0
          BY <1>1, <1>8, <2>2, <4>1
        <4>2. CASE Len(old.events) # 0
          <5>1. i # 1 /\ i - 1 = Len(old.events) /\ Len(old.events) \in 1..Len(old.events)
                /\ old.events # <<>>
            BY <1>1, <2>2, <4>2
          <5> QED
            BY <1>8, <1>9, <5>1
        <4> QED
          BY <4>1, <4>2
      <3>3. i - 1 = Len(old.events)
        BY <1>1, <2>2
      <3> QED
        BY <1>2, <1>7, <3>1, <3>2, <3>3
    <2> QED
      BY <1>9, <2>1, <2>2
  <1>12. \A i \in DOMAIN old.events : i \in DOMAIN m.events /\ m.events[i] = old.events[i]
    BY <1>1, <1>9
  <1>13. m.generation >= old.generation
    BY <1>5, <1>14
  <1> QED
    BY <1>2, <1>3, <1>5, <1>6, <1>10, <1>11, <1>12, <1>13, RecordChange DEF old

\* Making a record, a new generation and a new replica leave the log alone.
LEMMA RecordCallsKeep ==
    ASSUME RegistryInv, NEW r \in Resources,
           \/ \E bytes \in ResourceBytes : NewRecord(r, bytes)
           \/ BumpGeneration(r)
           \/ \E tier \in Tiers : AddReplica(r, tier)
    PROVE  RegistryInv' /\ HistoryGrows
  <1> DEFINE old == machines[r]
  <1>1. old \in Machine /\ machines \in [Resources -> Machine]
    BY DEF RegistryInv, MTypeOK
  <1>2. /\ old.state = IF old.events = <<>> THEN "Unavailable" ELSE old.events[Len(old.events)].to
        /\ \A i \in DOMAIN old.events :
              /\ old.events[i].sequence = i - 1
              /\ old.events[i].from = IF i = 1 THEN "Unavailable" ELSE old.events[i - 1].to
              /\ old.events[i].to \in NextStates(old.events[i].from)
    BY DEF RegistryInv, RegistrySound, LogExplainsState
  <1>3. ASSUME NEW bytes \in ResourceBytes, NewRecord(r, bytes)
        PROVE  RegistryInv' /\ HistoryGrows
    <2> DEFINE m == NewMachine(TRUE, bytes)
    <2>1. /\ m \in Machine /\ m.events = <<>> /\ m.state = "Unavailable"
          /\ DOMAIN m.events = {}
      BY DEF NewMachine, Machine, MachineState
    <2>2. machines' = [machines EXCEPT ![r] = m] /\ ~old.made /\ UNCHANGED <<registered, transfers>>
      BY <1>3 DEF NewRecord
    <2> HIDE DEF m
    <2> QED
      BY <2>1, <2>2, RecordChange DEF old
  <1>4. ASSUME NEW m \in Machine, machines' = [machines EXCEPT ![r] = m],
               UNCHANGED <<registered, transfers>>,
               m.made = old.made, m.bytes = old.bytes, m.state = old.state,
               m.generation >= old.generation, m.events = old.events
        PROVE  RegistryInv' /\ HistoryGrows
    <2>1. /\ old.generation \in Nat /\ m.generation \in Nat
          /\ \A i \in DOMAIN old.events :
                i \in DOMAIN m.events /\ m.events[i] = old.events[i]
      BY <1>1, <1>4 DEF Machine
    <2>2. m.state = IF m.events = <<>> THEN "Unavailable" ELSE m.events[Len(m.events)].to
      BY <1>2, <1>4
    <2>3. \A i \in DOMAIN m.events :
              /\ m.events[i].sequence = i - 1
              /\ m.events[i].from = IF i = 1 THEN "Unavailable" ELSE m.events[i - 1].to
              /\ m.events[i].to \in NextStates(m.events[i].from)
      BY <1>2, <1>4
    <2> QED
      BY <1>4, <2>1, <2>2, <2>3, RecordChange
  <1>5. CASE BumpGeneration(r)
    <2> DEFINE g == old.generation + 1
               m == [old EXCEPT !.generation = g]
    <2>1. machines' = [machines EXCEPT ![r] = m] /\ UNCHANGED <<registered, transfers>>
      BY <1>1, <1>5 DEF BumpGeneration
    <2>3. g \in Nat /\ g >= old.generation
      BY <1>1 DEF Machine
    <2> HIDE DEF old, g
    <2>2. /\ m \in Machine /\ m.made = old.made /\ m.bytes = old.bytes /\ m.state = old.state
          /\ m.generation >= old.generation /\ m.events = old.events
      BY <1>1, <2>3 DEF Machine
    <2> HIDE DEF m
    <2> QED
      BY <1>4, <2>1, <2>2
  <1>6. ASSUME NEW tier \in Tiers, AddReplica(r, tier)
        PROVE  RegistryInv' /\ HistoryGrows
    <2> DEFINE set == old.replicas \cup {tier}
               m == [old EXCEPT !.replicas = set]
    <2>1. machines' = [machines EXCEPT ![r] = m] /\ UNCHANGED <<registered, transfers>>
      BY <1>1, <1>6 DEF AddReplica
    <2>3. set \in SUBSET Tiers /\ old.generation \in Nat
      BY <1>1 DEF Machine
    <2> HIDE DEF old, set
    <2>4. m \in Machine
      BY <1>1, <2>3 DEF Machine
    <2>5. /\ m.made = old.made /\ m.bytes = old.bytes /\ m.state = old.state
          /\ m.generation = old.generation /\ m.events = old.events
      BY <1>1 DEF Machine
    <2>2. m.generation >= old.generation
      BY <2>3, <2>5
    <2> HIDE DEF m
    <2> QED
      BY <1>4, <2>1, <2>2, <2>4, <2>5
  <1> QED
    BY <1>3, <1>5, <1>6


\* A record enters the registry valid.
LEMMA RegisterKeeps ==
    ASSUME RegistryInv, NEW r \in Resources, RegisterRecord(r)
    PROVE  RegistryInv' /\ HistoryGrows
  <1> USE DEF RegistryInv, RegistrySound
  <1>1. /\ machines' = machines /\ transfers' = transfers
        /\ registered' = registered \cup {r} /\ machines[r].made /\ machines[r].bytes # 0
    BY DEF RegisterRecord, Valid
  <1>6. machines[r] \in Machine /\ \A q \in Resources : machines[q].generation \in Nat
    BY DEF MTypeOK, Machine
  <1>7. machines[r].bytes \in ResourceBytes \cup {0}
    BY <1>6 DEF Machine
  <1>8. \A b \in ResourceBytes \cup {0} : b \in Nat
    BY MemoryAssumption
  <1>2. machines[r].bytes \in Nat /\ \A q \in Resources : machines[q].generation \in Nat
    BY <1>6, <1>7, <1>8
  <1>3. MTypeOK' /\ LogExplainsState'
    BY <1>1 DEF MTypeOK, LogExplainsState
  <1>4. TicketsFitRecords' /\ RegisteredAreMade'
    BY <1>1, <1>2 DEF TicketsFitRecords, RegisteredAreMade
  <1>5. HistoryGrows
    BY <1>1, <1>2 DEF HistoryGrows
  <1> QED
    BY <1>3, <1>4, <1>5

\* A ticket takes the next identifier and the record's generation.
LEMMA QueueKeeps ==
    ASSUME RegistryInv, NEW r \in Resources, NEW bytes \in ResourceBytes,
           QueueTransfer(r, bytes)
    PROVE  RegistryInv' /\ HistoryGrows
  <1> USE DEF RegistryInv, RegistrySound
  <1> DEFINE t == [id |-> Len(transfers), resource |-> r,
                   generation |-> machines[r].generation, bytes |-> bytes,
                   completed |-> FALSE, useful |-> FALSE]
  <1>1. /\ machines' = machines /\ registered' = registered /\ transfers' = Append(transfers, t)
        /\ r \in registered /\ bytes <= machines[r].bytes
    BY DEF QueueTransfer
  <1>2. /\ transfers \in Seq(Ticket) /\ Len(transfers) \in Nat
        /\ \A q \in Resources : machines[q].generation \in Nat
    BY DEF MTypeOK, Machine
  <1>3. t \in Ticket
    BY <1>2 DEF Ticket
  <1>4. /\ t.id = Len(transfers) /\ t.resource = r /\ t.bytes = bytes
        /\ t.generation = machines[r].generation
    OBVIOUS
  <1> HIDE DEF t
  <1>5. /\ transfers' \in Seq(Ticket) /\ DOMAIN transfers' = 1..(Len(transfers) + 1)
        /\ DOMAIN transfers = 1..Len(transfers)
        /\ transfers'[Len(transfers) + 1] = t
        /\ \A i \in DOMAIN transfers : transfers'[i] = transfers[i]
    BY <1>1, <1>2, <1>3
  <1>6. MTypeOK' /\ LogExplainsState' /\ RegisteredAreMade'
    BY <1>1, <1>5 DEF MTypeOK, LogExplainsState, RegisteredAreMade
  <1>7. TicketsFitRecords'
    <2> SUFFICES ASSUME NEW i \in DOMAIN transfers'
                 PROVE  /\ transfers'[i].id = i - 1 /\ transfers'[i].resource \in registered
                        /\ transfers'[i].bytes <= machines[transfers'[i].resource].bytes
                        /\ transfers'[i].generation <= machines[transfers'[i].resource].generation
      BY <1>1 DEF TicketsFitRecords
    <2>1. CASE i \in DOMAIN transfers
      BY <1>5, <2>1 DEF TicketsFitRecords
    <2>2. CASE i = Len(transfers) + 1
      <3>1. transfers'[i] = t /\ i - 1 = Len(transfers)
        BY <1>2, <1>5, <2>2
      <3>2. machines[r].generation <= machines[r].generation
        BY <1>2
      <3> QED
        BY <1>1, <1>4, <3>1, <3>2
    <2> QED
      BY <1>2, <1>5, <2>1, <2>2
  <1>8. HistoryGrows
    BY <1>1, <1>2, <1>5 DEF HistoryGrows
  <1> QED
    BY <1>6, <1>7, <1>8

\* Completing a ticket writes its two flags, twice if it is called twice.
LEMMA CompletionKeeps ==
    ASSUME RegistryInv, NEW id, NEW useful \in BOOLEAN, CompleteTransfer(id, useful)
    PROVE  RegistryInv' /\ HistoryGrows
  <1> USE DEF RegistryInv, RegistrySound
  <1>1. PICK i \in DOMAIN transfers :
          /\ transfers' = [transfers EXCEPT ![i].completed = TRUE, ![i].useful = useful]
          /\ UNCHANGED <<machines, registered>>
    BY DEF CompleteTransfer
  <1> DEFINE t == [transfers[i] EXCEPT !.completed = TRUE, !.useful = useful]
  <1>2. /\ transfers \in Seq(Ticket) /\ transfers[i] \in Ticket
        /\ \A q \in Resources : machines[q].generation \in Nat
    BY DEF MTypeOK, Machine
  <1>3. /\ t \in Ticket /\ t.id = transfers[i].id /\ t.resource = transfers[i].resource
        /\ t.generation = transfers[i].generation /\ t.bytes = transfers[i].bytes
        /\ t.completed = TRUE
    BY <1>2 DEF Ticket
  <1>4. transfers' = [transfers EXCEPT ![i] = t]
    BY <1>1, <1>2
  <1> HIDE DEF t
  <1>5. /\ transfers' \in Seq(Ticket) /\ DOMAIN transfers' = DOMAIN transfers
        /\ transfers'[i] = t
        /\ \A j \in DOMAIN transfers : j # i => transfers'[j] = transfers[j]
    BY <1>2, <1>3, <1>4
  <1>6. MTypeOK' /\ LogExplainsState' /\ RegisteredAreMade'
    BY <1>1, <1>5 DEF MTypeOK, LogExplainsState, RegisteredAreMade
  <1>7. \A j \in DOMAIN transfers :
          /\ transfers'[j].id = transfers[j].id /\ transfers'[j].resource = transfers[j].resource
          /\ transfers'[j].generation = transfers[j].generation
          /\ transfers'[j].bytes = transfers[j].bytes
          /\ transfers[j].completed => transfers'[j].completed
    BY <1>3, <1>5
  <1>8. TicketsFitRecords'
    BY <1>1, <1>5, <1>7 DEF TicketsFitRecords
  <1>9. HistoryGrows
    BY <1>1, <1>2, <1>5, <1>7 DEF HistoryGrows
  <1> QED
    BY <1>6, <1>8, <1>9

LEMMA RegistryStays ==
    ASSUME RegistryInv, UNCHANGED mrvars
    PROVE  RegistryInv' /\ HistoryGrows
  <1>1. RegistryInv'
    BY DEF RegistryInv, RegistrySound, MTypeOK, LogExplainsState, TicketsFitRecords,
       RegisteredAreMade, mrvars
  <1>2. \A r \in Resources : machines[r].generation \in Nat
    BY DEF RegistryInv, MTypeOK, Machine
  <1>3. HistoryGrows
    BY <1>2 DEF HistoryGrows, mrvars
  <1> QED
    BY <1>1, <1>3

LEMMA RegistryStep ==
    ASSUME RegistryInv, [MNext]_mrvars
    PROVE  RegistryInv' /\ HistoryGrows
  <1>1. ASSUME NEW r \in Resources, MStep(r)
        PROVE  RegistryInv' /\ HistoryGrows
    BY <1>1, RecordCallsKeep, TransitionKeeps, RegisterKeeps, QueueKeeps DEF MStep
  <1>2. ASSUME NEW id \in 0..MaxQueued, NEW useful \in BOOLEAN, CompleteTransfer(id, useful)
        PROVE  RegistryInv' /\ HistoryGrows
    BY <1>2, CompletionKeeps
  <1> QED
    BY <1>1, <1>2, RegistryStays DEF MNext


-----------------------------------------------------------------------------
(* har-memory/src/elastic_budget.rs: the budget and its rollback ladder     *)

\* What the pending adjustment asks for lies on its side of what is held.
BudgetInv == /\ BTypeOK
             /\ \A a \in pending : IF a.kind = "Grow" THEN a.target > current
                                 ELSE a.target < current

LEMMA BudgetInit == BInit => BudgetInv
  <1>1. [kind |-> "Grow", target |-> MinBytes] \in Adjustment
    BY PolicyAssumption DEF Adjustment, Budgets
  <1> QED
    BY <1>1, PolicyAssumption DEF BInit, BudgetInv, BTypeOK, Phases

\* The rung a grow is committed at: within the ladder, within the headroom,
\* and the rung above it is not.
LEMMA RungFits ==
    ASSUME NEW base \in Nat, NEW a \in Adjustment, a.target > base, a.target <= MaxBytes,
           current = base, NEW spare \in Nat
    PROVE  LET r == Rung(a, spare) IN
           /\ r \in Nat /\ base <= r /\ r <= a.target
           /\ r # base => r - base + Headroom <= spare
           /\ base < r /\ r < a.target => r + StepBytes - base + Headroom > spare
  <1> DEFINE t == a.target
             room == Monus(spare, Headroom)
             rung(k) == Max({Monus(t, k * StepBytes), base})
             Rungs == {rung(k) : k \in 0..MaxBytes}
             S == {c \in Rungs : c - base <= room \/ c = base}
             r == Max(S)
  <1>1. /\ MaxBytes \in Nat /\ Headroom \in Nat /\ StepBytes \in Nat /\ StepBytes > 0
        /\ t \in Nat
    BY PolicyAssumption DEF Adjustment, Budgets
  <1>2. r = Rung(a, spare)
    BY DEF Rung
  <1> HIDE DEF t
  <1>3. room \in Nat /\ (room > 0 => room + Headroom = spare) /\ room + Headroom >= spare
    BY <1>1 DEF Monus
  <1>4. ASSUME NEW k \in Nat
        PROVE  /\ k * StepBytes \in Nat /\ Monus(t, k * StepBytes) \in Nat
               /\ Monus(t, k * StepBytes) <= t
               /\ rung(k) = IF Monus(t, k * StepBytes) >= base THEN Monus(t, k * StepBytes)
                            ELSE base
    <2>1. k * StepBytes \in Nat
      BY <1>1
    <2>2. Monus(t, k * StepBytes) \in Nat /\ Monus(t, k * StepBytes) <= t
      BY <1>1, <2>1 DEF Monus
    <2> QED
      BY <2>1, <2>2, MaxOfTwo
  <1> HIDE DEF room, rung
  <1>5. \A k \in 0..MaxBytes : rung(k) \in base..t
    BY <1>1, <1>4 DEF t
  <1>6. IsFiniteSet(S) /\ \A x \in S : x \in Int
    <2>1. S \in SUBSET (base..t)
      BY <1>5
    <2> HIDE DEF S
    <2>2. IsFiniteSet(base..t)
      BY <1>1, FS_Interval
    <2>3. IsFiniteSet(S)
      BY <2>1, <2>2, FS_Subset
    <2>4. base..t \subseteq Int
      BY <1>1
    <2> QED
      BY <2>1, <2>3, <2>4
  <1>7. S # {}
    <2>1. MaxBytes * StepBytes >= MaxBytes /\ MaxBytes * StepBytes \in Nat
      BY <1>1
    <2>2. Monus(t, MaxBytes * StepBytes) = 0
      BY <1>1, <2>1 DEF Monus, t
    <2>3. rung(MaxBytes) = base
      BY <1>1, <1>4, <2>2
    <2>4. base \in S
      BY <1>1, <2>3
    <2> QED
      BY <2>4
  <1>8. r \in S /\ \A c \in S : r >= c
    <2> HIDE DEF S
    <2> QED
      BY <1>6, <1>7, MaxExists
  <1>9. PICK k \in 0..MaxBytes : r = rung(k) /\ (r - base <= room \/ r = base)
    BY <1>8
  <1>10. r \in Nat /\ base <= r /\ r <= t
    BY <1>1, <1>5, <1>9 DEF t
  <1>11. r # base => r - base + Headroom <= spare
    <2> HIDE DEF r
    <2> QED
      BY <1>1, <1>3, <1>9, <1>10
  <1>12. ASSUME base < r, r < t PROVE r + StepBytes - base + Headroom > spare
    <2> HIDE DEF r
    <2> DEFINE j == k - 1
    <2>1. Monus(t, k * StepBytes) = r /\ k * StepBytes \in Nat
      BY <1>4, <1>9, <1>10, <1>12
    <2>2. r = t - k * StepBytes
      BY <1>1, <1>10, <1>12, <2>1 DEF Monus
    <2>3. k # 0
      BY <1>1, <1>12, <2>2
    <2>4. j \in 0..MaxBytes /\ k * StepBytes = j * StepBytes + StepBytes
      BY <1>1, <2>3
    <2>5. j * StepBytes \in Nat
      BY <1>1, <2>4
    <2>6. t - j * StepBytes = r + StepBytes
      BY <1>1, <1>10, <2>2, <2>4, <2>5
    <2> HIDE DEF j
    <2>7. Monus(t, j * StepBytes) = r + StepBytes
      BY <1>1, <1>10, <2>5, <2>6 DEF Monus
    <2>8. rung(j) = r + StepBytes
      BY <1>1, <1>4, <1>10, <1>12, <2>4, <2>7
    <2>9. r + StepBytes \notin S
      <3> HIDE DEF S
      <3> QED
        BY <1>1, <1>8, <1>10
    <2>10. \A c \in Rungs : c \notin S => ~(c - base <= room)
      <3> HIDE DEF Rungs
      <3> QED
        OBVIOUS
    <2>12. r + StepBytes \in Rungs
      BY <2>4, <2>8
    <2>13. ~((r + StepBytes) - base <= room)
      <3> DEFINE c == r + StepBytes
      <3>1. c \in Rungs /\ c \notin S
        BY <2>9, <2>12
      <3> HIDE DEF Rungs, S, c
      <3>2. ~(c - base <= room)
        BY <3>1, <2>10
      <3> QED
        BY <3>2 DEF c
    <2> QED
      BY <1>1, <1>3, <1>10, <2>13
  <1> QED
    BY <1>2, <1>10, <1>11, <1>12 DEF t

LEMMA BudgetStep ==
    ASSUME BudgetInv, [BNext]_bvars
    PROVE  BudgetInv' /\ AllowedMove
  <1> USE DEF BudgetInv, BTypeOK
  <1>1. /\ MinBytes \in Nat /\ MaxBytes \in Nat /\ MinBytes <= MaxBytes
        /\ FreeReadings \subseteq Nat /\ MaxEpoch \in Nat
    BY PolicyAssumption
  <1>2. ASSUME NEW p \in Phases, SetPhase(p) PROVE BudgetInv' /\ AllowedMove
    BY <1>2 DEF SetPhase, AllowedMove
  <1>3. ASSUME NEW b \in 0..(MaxBytes + 1), Request(b) PROVE BudgetInv' /\ AllowedMove
    <2> DEFINE t == Max({MinBytes, Min({b, MaxBytes})})
               a == [kind |-> IF t > current THEN "Grow" ELSE "Shrink", target |-> t]
    <2>1. /\ t # current /\ pending' = {a}
          /\ UNCHANGED <<enginePhase, current, epoch, reading>>
      BY <1>3 DEF Request
    <2>2. t \in Budgets
      BY <1>1, MaxOfTwo, MinOfTwo DEF Budgets
    <2> HIDE DEF t
    <2>3. /\ a \in Adjustment /\ a.target = t
          /\ a.kind = IF t > current THEN "Grow" ELSE "Shrink"
      BY <2>2 DEF Adjustment
    <2> HIDE DEF a
    <2>4. IF a.kind = "Grow" THEN a.target > current ELSE a.target < current
      BY <1>1, <2>1, <2>2, <2>3 DEF Budgets
    <2> QED
      BY <2>1, <2>3, <2>4 DEF AllowedMove
  <1>4. CASE CancelPending
    BY <1>4 DEF CancelPending, AllowedMove
  <1>5. ASSUME NEW spare \in FreeReadings, CommitIdle(spare) PROVE BudgetInv' /\ AllowedMove
    <2>1. PICK a \in pending :
            LET committed == IF a.kind = "Shrink" THEN a.target ELSE Rung(a, spare) IN
            /\ current' = committed
            /\ epoch' = epoch + (IF committed = current THEN 0 ELSE 1)
      BY <1>5 DEF CommitIdle
    <2>2. /\ enginePhase = "Idle" /\ epoch < MaxEpoch /\ pending' = {} /\ reading' = spare
          /\ enginePhase' = enginePhase
      BY <1>5 DEF CommitIdle
    <2>6. a \in Adjustment /\ current \in Budgets /\ epoch \in Nat
      BY <1>1
    <2>7. a.target \in Budgets /\ a.kind \in {"Grow", "Shrink"}
      BY <2>6 DEF Adjustment
    <2>3. /\ a \in Adjustment /\ current \in Nat /\ a.target \in Nat /\ a.target <= MaxBytes
          /\ MinBytes <= current /\ MinBytes <= a.target /\ a.kind \in {"Grow", "Shrink"}
          /\ spare \in Nat /\ epoch \in Nat /\ Headroom \in Nat /\ StepBytes \in Nat
      <3>1. /\ a.target \in Nat /\ a.target <= MaxBytes /\ MinBytes <= a.target
            /\ current \in Nat /\ MinBytes <= current
        BY <1>1, <2>6, <2>7 DEF Budgets
      <3>2. spare \in Nat /\ Headroom \in Nat /\ StepBytes \in Nat
        BY PolicyAssumption
      <3> QED
        BY <2>6, <2>7, <3>1, <3>2
    <2>4. CASE a.kind = "Shrink"
      <3>1. current' = a.target /\ a.target < current
        BY <2>1, <2>4
      <3>2. AllowedMove
        BY <2>1, <2>2, <2>3, <2>4, <3>1 DEF AllowedMove
      <3>3. BudgetInv'
        BY <1>1, <2>1, <2>2, <2>3, <3>1 DEF Budgets
      <3> QED
        BY <3>2, <3>3
    <2>5. CASE a.kind = "Grow"
      <3> DEFINE r == Rung(a, spare)
      <3>1. /\ current' = r /\ epoch' = epoch + (IF r = current THEN 0 ELSE 1)
            /\ a.target > current
        BY <2>1, <2>5
      <3>2. /\ r \in Nat /\ current <= r /\ r <= a.target
            /\ r # current => r - current + Headroom <= spare
            /\ current < r /\ r < a.target => r + StepBytes - current + Headroom > spare
        BY <2>3, <3>1, RungFits
      <3> HIDE DEF r
      <3>3. AllowedMove
        BY <2>1, <2>2, <2>3, <3>1, <3>2 DEF AllowedMove
      <3>4. BudgetInv'
        BY <1>1, <2>1, <2>2, <2>3, <3>1, <3>2 DEF Budgets
      <3> QED
        BY <3>3, <3>4
    <2> QED
      BY <2>3, <2>4, <2>5
  <1>6. CASE UNCHANGED bvars
    BY <1>6 DEF bvars, AllowedMove
  <1> QED
    BY <1>2, <1>3, <1>4, <1>5, <1>6 DEF BNext


-----------------------------------------------------------------------------
(* r4kv/src/dma.rs: the staging arena and the transfer records              *)

Live == In("Queued") \cup In("InFlight")

\* Identifiers are handed out once: the queue can only grow at its end.
DmaInv == DTypeOK /\ DmaSound /\ \A i \in DOMAIN records : i < nextId

LEMMA DmaInit == DInit => DmaInv
  <1> SUFFICES ASSUME DInit PROVE DmaInv
    OBVIOUS
  <1>1. queue = <<>> /\ records = [i \in {} |-> 0] /\ nextId = 1 /\ arenaUsed = 0 /\ awaiting = {}
    BY DEF DInit
  <1>2. DOMAIN records = {} /\ In("Queued") = {} /\ In("InFlight") = {}
    BY <1>1 DEF In
  <1>3. Bytes(In("Queued") \cup In("InFlight")) = 0
    BY <1>2, SumEmpty DEF Bytes
  <1>4. MaxTransfers \in Nat /\ ArenaBytes \in Nat
    BY DmaAssumption
  <1>5. DTypeOK
    BY <1>1, <1>2, <1>4 DEF DTypeOK
  <1>6. DOMAIN queue = {}
    BY <1>1
  <1>7. DmaSound
    BY <1>1, <1>2, <1>3, <1>4, <1>6, DmaAssumption DEF DmaSound
  <1> QED
    BY <1>2, <1>5, <1>7 DEF DmaInv

\* The records are finitely many and their bytes are counts.
LEMMA RecordsCount ==
    ASSUME DTypeOK, NEW S \in SUBSET (DOMAIN records)
    PROVE  /\ IsFiniteSet(S) /\ Counts([i \in DOMAIN records |-> records[i].bytes], S)
           /\ Bytes(S) \in Nat
  <1>1. IsFiniteSet(Ids)
    BY DmaAssumption, FS_Interval DEF Ids
  <1>2. S \subseteq Ids
    BY DEF DTypeOK
  <1>3. IsFiniteSet(S)
    BY <1>1, <1>2, FS_Subset
  <1>4. \A i \in S : records[i].bytes \in Nat
    <2> SUFFICES ASSUME NEW i \in S PROVE records[i].bytes \in Nat
      OBVIOUS
    <2>1. records[i] \in TransferRecord
      BY DEF DTypeOK
    <2>2. records[i].bytes \in TransferBytes
      BY <2>1 DEF TransferRecord
    <2> QED
      BY <2>2, DmaAssumption
  <1>5. Counts([i \in DOMAIN records |-> records[i].bytes], S)
    BY <1>4 DEF Counts
  <1> QED
    BY <1>3, <1>5, SumType DEF Bytes

\* The bytes, after a call, of records whose bytes the call keeps.
LEMMA BytesKept ==
    ASSUME DTypeOK, NEW S \in SUBSET (DOMAIN records), S \subseteq DOMAIN records',
           \A i \in S : records'[i].bytes = records[i].bytes
    PROVE  SumFunctionOnSet([i \in DOMAIN records' |-> records'[i].bytes], S) = Bytes(S)
  <1> DEFINE f == [i \in DOMAIN records |-> records[i].bytes]
             g == [i \in DOMAIN records' |-> records'[i].bytes]
  <1>1. \A i \in S : f[i] = g[i]
    OBVIOUS
  <1>2. IsFiniteSet(S)
    BY RecordsCount
  <1>3. SumFunctionOnSet(f, S) = SumFunctionOnSet(g, S)
    <2> HIDE DEF f, g
    <2> QED
      BY <1>1, <1>2, SumSame
  <1> QED
    BY <1>3 DEF Bytes

LEMMA EnqueueKeeps ==
    ASSUME DmaInv, NEW b \in TransferBytes, Enqueue(b)
    PROVE  DmaInv'
  <1> USE DEF DmaInv
  <1> DEFINE n == nextId
             t == [bytes |-> b, state |-> "Queued"]
  <1>1. /\ arenaUsed + b <= ArenaBytes /\ arenaUsed' = arenaUsed + b
        /\ queue' = Append(queue, n) /\ nextId' = n + 1 /\ awaiting' = awaiting
        /\ records' = [i \in DOMAIN records \cup {n} |-> IF i = n THEN t ELSE records[i]]
        /\ n <= MaxTransfers
    BY DEF Enqueue
  <1>2. /\ n \in Ids /\ n \in Nat /\ MaxTransfers \in Nat /\ n \notin DOMAIN records
        /\ b \in Nat /\ \A i \in DOMAIN records : i \in Nat
    BY <1>1, DmaAssumption DEF DTypeOK, Ids
  <1>3. t \in TransferRecord /\ t.bytes = b /\ t.state = "Queued"
    BY DEF TransferRecord
  <1> HIDE DEF n, t
  <1>4. /\ DOMAIN records' = DOMAIN records \cup {n} /\ records'[n] = t
        /\ \A i \in DOMAIN records : records'[i] = records[i]
    BY <1>1, <1>2
  <1>5. /\ queue \in Seq(Ids) /\ Len(queue) \in Nat /\ queue' \in Seq(Ids)
        /\ DOMAIN queue = 1..Len(queue) /\ DOMAIN queue' = 1..(Len(queue) + 1)
        /\ queue'[Len(queue) + 1] = n /\ \A k \in DOMAIN queue : queue'[k] = queue[k]
    BY <1>1, <1>2 DEF DTypeOK
  <1>6. In("Queued")' = In("Queued") \cup {n} /\ In("InFlight")' = In("InFlight")
    BY <1>2, <1>3, <1>4 DEF In
  <1>7. DTypeOK'
    BY <1>1, <1>2, <1>3, <1>4, <1>5 DEF DTypeOK, n
  <1>8. \A i \in DOMAIN records' : i < nextId'
    BY <1>1, <1>2, <1>4 DEF n
  <1>9. Bytes(In("Queued") \cup In("InFlight"))' = Bytes(Live) + b
    <2> DEFINE f == [i \in DOMAIN records' |-> records'[i].bytes]
    <2>1. Live \in SUBSET (DOMAIN records) /\ n \notin Live
      BY <1>2 DEF Live, In
    <2>2. Bytes(Live)' = SumFunctionOnSet(f, Live')
      BY DEF Bytes
    <2>3. Live' = Live \cup {n}
      BY <1>6 DEF Live
    <2>4. SumFunctionOnSet(f, Live) = Bytes(Live)
      <3>1. Live \subseteq DOMAIN records' /\ \A i \in Live : records'[i].bytes = records[i].bytes
        BY <1>4, <2>1
      <3> QED
        BY <2>1, <3>1, BytesKept
    <2>5. IsFiniteSet(Live) /\ Counts(f, Live \cup {n})
      <3>1. IsFiniteSet(Live) /\ \A i \in Live : records[i].bytes \in Nat
        BY <2>1, RecordsCount DEF Counts
      <3> QED
        BY <1>2, <1>3, <1>4, <2>1, <3>1 DEF Counts
    <2>6. f[n] = b
      BY <1>3, <1>4
    <2> HIDE DEF f
    <2>7. SumFunctionOnSet(f, Live \cup {n}) = SumFunctionOnSet(f, Live) + f[n]
      BY <2>1, <2>5, SumAdd
    <2> QED
      BY <2>2, <2>3, <2>4, <2>6, <2>7 DEF Live
  <1>10. {queue'[k] : k \in DOMAIN queue'} = In("Queued")'
    <2>1. {queue[k] : k \in DOMAIN queue} = In("Queued")
      BY DEF DmaSound
    <2> QED
      BY <1>5, <1>6, <2>1
  <1>11. \A j, k \in DOMAIN queue' : j < k => queue'[j] < queue'[k]
    <2> SUFFICES ASSUME NEW j \in DOMAIN queue', NEW k \in DOMAIN queue', j < k
                 PROVE  queue'[j] < queue'[k]
      OBVIOUS
    <2>1. j \in DOMAIN queue
      BY <1>5
    <2>2. CASE k \in DOMAIN queue
      BY <1>5, <2>1, <2>2 DEF DmaSound
    <2>3. CASE k = Len(queue) + 1
      <3>1. queue[j] \in In("Queued")
        BY <2>1 DEF DmaSound
      <3>2. queue[j] < n
        BY <3>1 DEF In, n
      <3> QED
        BY <1>5, <2>1, <2>3, <3>2
    <2> QED
      BY <1>5, <2>2, <2>3
  <1>12. DmaSound'
    <2>1. Len(queue') <= QueueCapacity
      BY <1>1, <1>5, DmaAssumption DEF Enqueue
    <2> QED
      BY <1>1, <1>9, <1>10, <1>11, <2>1 DEF DmaSound, Live
  <1> QED
    BY <1>7, <1>8, <1>12

LEMMA SubmitKeeps ==
    ASSUME DmaInv, SubmitBatch
    PROVE  DmaInv'
  <1> USE DEF DmaInv
  <1> DEFINE flown(i) == [records[i] EXCEPT !.state = "InFlight"]
  <1>1. /\ queue' = <<>> /\ UNCHANGED <<nextId, arenaUsed, awaiting>>
        /\ records' = [i \in DOMAIN records |->
                         IF \E k \in DOMAIN queue : queue[k] = i THEN flown(i) ELSE records[i]]
    BY DEF SubmitBatch
  <1>2. ASSUME NEW i \in DOMAIN records
        PROVE  /\ flown(i) \in TransferRecord /\ flown(i).bytes = records[i].bytes
               /\ flown(i).state = "InFlight" /\ records[i] \in TransferRecord
    BY DEF DTypeOK, TransferRecord
  <1> HIDE DEF flown
  <1>3. \A i \in DOMAIN records : (\E k \in DOMAIN queue : queue[k] = i) <=> records[i].state = "Queued"
    <2>1. {queue[k] : k \in DOMAIN queue} = In("Queued")
      BY DEF DmaSound
    <2> QED
      BY <2>1 DEF In
  <1>4. /\ DOMAIN records' = DOMAIN records
        /\ \A i \in DOMAIN records : records'[i] = IF records[i].state = "Queued" THEN flown(i)
                                                  ELSE records[i]
    BY <1>1, <1>3
  <1>5. /\ In("Queued")' = {} /\ In("InFlight")' = Live
        /\ Live \in SUBSET (DOMAIN records)
        /\ \A i \in DOMAIN records : /\ records'[i].bytes = records[i].bytes
                                     /\ records'[i] \in TransferRecord
    BY <1>2, <1>4 DEF In, Live
  <1>6. DTypeOK'
    BY <1>1, <1>4, <1>5 DEF DTypeOK
  <1>7. Bytes(Live)' = Bytes(Live)
    <2>1. Live' = Live
      BY <1>5 DEF Live
    <2>2. SumFunctionOnSet([i \in DOMAIN records' |-> records'[i].bytes], Live) = Bytes(Live)
      BY <1>4, <1>5, BytesKept
    <2> QED
      BY <2>1, <2>2 DEF Bytes
  <1>8. DmaSound'
    <2>1. DOMAIN queue' = {} /\ {queue'[k] : k \in DOMAIN queue'} = {}
      BY <1>1
    <2>2. Bytes(In("Queued") \cup In("InFlight"))' = arenaUsed /\ arenaUsed <= ArenaBytes
      BY <1>7 DEF Live, DmaSound
    <2> QED
      BY <1>1, <1>5, <2>1, <2>2, DmaAssumption DEF DmaSound
  <1> QED
    BY <1>1, <1>4, <1>6, <1>8

\* poll_completion gives back to the arena what was in flight, and no more.
LEMMA PollKeeps ==
    ASSUME DmaInv, CompletePoll, UNCHANGED <<queue, nextId>>,
           awaiting' \subseteq awaiting
    PROVE  DmaInv'
  <1> USE DEF DmaInv
  <1> DEFINE done(i) == [records[i] EXCEPT !.state = "Complete"]
  <1>1. /\ records' = [i \in DOMAIN records |-> IF i \in In("InFlight") THEN done(i) ELSE records[i]]
        /\ arenaUsed' = Max({0, arenaUsed - Bytes(In("InFlight"))})
    BY DEF CompletePoll
  <1>2. ASSUME NEW i \in DOMAIN records
        PROVE  /\ done(i) \in TransferRecord /\ done(i).bytes = records[i].bytes
               /\ done(i).state = "Complete" /\ records[i] \in TransferRecord
    BY DEF DTypeOK, TransferRecord
  <1> HIDE DEF done
  <1>3. /\ DOMAIN records' = DOMAIN records
        /\ \A i \in DOMAIN records : /\ records'[i].bytes = records[i].bytes
                                     /\ records'[i] \in TransferRecord
    BY <1>1, <1>2
  <1>4. In("Queued")' = In("Queued") /\ In("InFlight")' = {}
    BY <1>1, <1>2 DEF In
  <1>5. /\ In("InFlight") \in SUBSET Live /\ Live \in SUBSET (DOMAIN records)
        /\ Live \ In("InFlight") = In("Queued") /\ In("Queued") \in SUBSET (DOMAIN records)
        /\ In("InFlight") \in SUBSET (DOMAIN records)
    BY DEF In, Live
  <1>6. /\ Bytes(Live) = Bytes(In("InFlight")) + Bytes(In("Queued"))
        /\ Bytes(Live) \in Nat /\ Bytes(In("InFlight")) \in Nat /\ Bytes(In("Queued")) \in Nat
    <2> DEFINE f == [i \in DOMAIN records |-> records[i].bytes]
    <2>1. IsFiniteSet(Live) /\ Counts(f, Live)
      BY <1>5, RecordsCount
    <2>2. SumFunctionOnSet(f, Live) = SumFunctionOnSet(f, In("InFlight"))
                                       + SumFunctionOnSet(f, Live \ In("InFlight"))
      <3> HIDE DEF f
      <3> QED
        BY <1>5, <2>1, SumUnion
    <2>3. Bytes(Live) \in Nat /\ Bytes(In("InFlight")) \in Nat /\ Bytes(In("Queued")) \in Nat
      BY <1>5, RecordsCount
    <2> QED
      BY <1>5, <2>2, <2>3 DEF Bytes
  <1>7. arenaUsed' = Bytes(In("Queued")) /\ arenaUsed' \in Nat /\ arenaUsed' <= ArenaBytes
    <2>1. arenaUsed = Bytes(Live) /\ arenaUsed <= ArenaBytes
      BY DEF DmaSound, Live
    <2> DEFINE x == arenaUsed - Bytes(In("InFlight"))
    <2>2. x = Bytes(In("Queued")) /\ x \in Nat
      BY <1>6, <2>1
    <2>3. Max({0, x}) = x
      <3> HIDE DEF x
      <3> QED
        BY <2>2, MaxOfTwo
    <2>4. arenaUsed' = x
      BY <1>1, <2>3
    <2> HIDE DEF x
    <2>5. ArenaBytes \in Nat
      BY DmaAssumption
    <2> QED
      BY <1>6, <2>1, <2>2, <2>4, <2>5
  <1>8. Bytes(In("Queued") \cup In("InFlight"))' = Bytes(In("Queued"))
    <2>1. SumFunctionOnSet([i \in DOMAIN records' |-> records'[i].bytes], In("Queued"))
            = Bytes(In("Queued"))
      BY <1>3, <1>5, BytesKept
    <2>2. (In("Queued") \cup In("InFlight"))' = In("Queued")
      BY <1>4
    <2> QED
      BY <2>1, <2>2 DEF Bytes
  <1>9. DTypeOK'
    BY <1>3, <1>7 DEF DTypeOK
  <1>10. DmaSound'
    BY <1>4, <1>7, <1>8 DEF DmaSound
  <1> QED
    BY <1>3, <1>9, <1>10

LEMMA ReclaimKeeps ==
    ASSUME DmaInv, ReclaimCompleted
    PROVE  DmaInv'
  <1> USE DEF DmaInv
  <1>1. /\ records' = [i \in DOMAIN records \ In("Complete") |-> records[i]]
        /\ UNCHANGED <<queue, nextId, arenaUsed, awaiting>>
    BY DEF ReclaimCompleted
  <1>2. /\ DOMAIN records' = DOMAIN records \ In("Complete")
        /\ \A i \in DOMAIN records' : i \in DOMAIN records /\ records'[i] = records[i]
    BY <1>1
  <1>3. In("Queued")' = In("Queued") /\ In("InFlight")' = In("InFlight")
    BY <1>1, <1>2 DEF In
  <1>4. Live \in SUBSET (DOMAIN records) /\ Live \subseteq DOMAIN records'
    BY <1>2 DEF Live, In
  <1>5. Bytes(In("Queued") \cup In("InFlight"))' = Bytes(In("Queued") \cup In("InFlight"))
    <2>1. SumFunctionOnSet([i \in DOMAIN records' |-> records'[i].bytes], Live) = Bytes(Live)
      BY <1>2, <1>4, BytesKept
    <2> QED
      BY <1>3, <2>1 DEF Bytes, Live
  <1>6. DTypeOK'
    BY <1>1, <1>2 DEF DTypeOK
  <1>7. DmaSound'
    BY <1>1, <1>3, <1>5 DEF DmaSound
  <1> QED
    BY <1>1, <1>2, <1>6, <1>7

LEMMA DmaStep ==
    ASSUME DmaInv, [DNext]_dvars
    PROVE  DmaInv'
  <1>1. CASE PollCompletion
    BY <1>1, PollKeeps DEF PollCompletion
  <1>2. CASE AwaitRound
    <2>1. awaiting' \subseteq awaiting
      BY <1>2 DEF AwaitRound
    <2> QED
      BY <1>2, <2>1, PollKeeps DEF AwaitRound
  <1>3. ASSUME NEW i \in Ids, AwaitCompletion(i) PROVE DmaInv'
    BY <1>3 DEF AwaitCompletion, DmaInv, DTypeOK, DmaSound, In, Bytes
  <1>4. CASE UNCHANGED dvars
    BY <1>4 DEF dvars, DmaInv, DTypeOK, DmaSound, In, Bytes
  <1> QED
    BY <1>1, <1>2, <1>3, <1>4, EnqueueKeeps, SubmitKeeps, ReclaimKeeps DEF DNext


-----------------------------------------------------------------------------
(* har-residency/src/expert_lru.rs: the bytes of the expert cache           *)

LruInv == LTypeOK /\ LruBounded /\ IsFiniteSet(DOMAIN cache)

\* E holds finitely many entries.
Entries(E) == IsFiniteSet(DOMAIN E) /\ \A p \in DOMAIN E : E[p] \in Entry

LEMMA LruInit == LInit => LruInv
  <1> SUFFICES ASSUME LInit PROVE LruInv
    OBVIOUS
  <1>1. DOMAIN cache = {} /\ resident = 0 /\ lruOp = "new"
    BY DEF LInit
  <1>2. SizeOf(cache, DOMAIN cache) = 0
    BY <1>1, SumEmpty DEF SizeOf
  <1>3. IsFiniteSet(DOMAIN cache)
    BY <1>1, FS_EmptySet
  <1> QED
    BY <1>1, <1>2, <1>3 DEF LruInv, LTypeOK, LruBounded

LEMMA EntryBytes ==
    ASSUME NEW e \in Entry
    PROVE  /\ e.bytes \in Nat /\ e.bytes \in Sizes
           /\ e.pins \in 0..2 /\ e.used \in 0..MaxTime
  <1>1. e.bytes \in Sizes /\ e.pins \in 0..2 /\ e.used \in 0..MaxTime
    BY DEF Entry
  <1> QED
    BY <1>1, LruAssumption

LEMMA EntriesCount ==
    ASSUME NEW E, Entries(E), NEW S \in SUBSET (DOMAIN E)
    PROVE  /\ IsFiniteSet(S) /\ Counts([p \in DOMAIN E |-> E[p].bytes], S)
           /\ SizeOf(E, S) \in Nat
  <1>1. IsFiniteSet(S)
    BY FS_Subset DEF Entries
  <1>2. Counts([p \in DOMAIN E |-> E[p].bytes], S)
    BY EntryBytes DEF Entries, Counts
  <1> QED
    BY <1>1, <1>2, SumType DEF SizeOf

LEMMA SizeKept ==
    ASSUME NEW E, NEW F, NEW S, IsFiniteSet(S), S \subseteq DOMAIN E, S \subseteq DOMAIN F,
           \A p \in S : F[p].bytes = E[p].bytes
    PROVE  SizeOf(F, S) = SizeOf(E, S)
  <1> DEFINE f == [p \in DOMAIN E |-> E[p].bytes]
             g == [p \in DOMAIN F |-> F[p].bytes]
  <1>1. \A p \in S : f[p] = g[p]
    OBVIOUS
  <1>2. SumFunctionOnSet(f, S) = SumFunctionOnSet(g, S)
    <2> HIDE DEF f, g
    <2> QED
      BY <1>1, SumSame
  <1> QED
    BY <1>2 DEF SizeOf

\* One page more, or one page less, is its bytes more or less.
LEMMA SizeSplit ==
    ASSUME NEW E, Entries(E), NEW p \in DOMAIN E
    PROVE  SizeOf(E, DOMAIN E) = E[p].bytes + SizeOf(E, DOMAIN E \ {p})
  <1> DEFINE f == [q \in DOMAIN E |-> E[q].bytes]
             D == DOMAIN E
  <1>1. IsFiniteSet(D) /\ Counts(f, D) /\ p \in D
    BY EntriesCount
  <1>2. SumFunctionOnSet(f, D) = f[p] + SumFunctionOnSet(f, D \ {p})
    <2> HIDE DEF f, D
    <2> QED
      BY <1>1, SumSplit
  <1> QED
    BY <1>2 DEF SizeOf

\* What the eviction loop leaves behind.
LEMMA KeepingSize ==
    ASSUME NEW E, Entries(E), NEW V \in SUBSET (DOMAIN E)
    PROVE  LET K == Keeping(E, V) IN
           /\ Entries(K) /\ DOMAIN K = DOMAIN E \ V /\ \A p \in DOMAIN K : K[p] = E[p]
           /\ SizeOf(K, DOMAIN K) = SizeOf(E, DOMAIN E) - SizeOf(E, V)
           /\ SizeOf(E, DOMAIN E) \in Nat /\ SizeOf(E, V) \in Nat
           /\ SizeOf(K, DOMAIN K) \in Nat
  <1> DEFINE K == Keeping(E, V)
             D == DOMAIN E
             f == [p \in DOMAIN E |-> E[p].bytes]
  <1>1. DOMAIN K = D \ V /\ \A p \in DOMAIN K : K[p] = E[p]
    BY DEF Keeping
  <1>2. Entries(K)
    BY <1>1, FS_Subset DEF Entries
  <1>3. IsFiniteSet(D) /\ Counts(f, D) /\ V \in SUBSET D
    BY EntriesCount
  <1>4. SumFunctionOnSet(f, D) = SumFunctionOnSet(f, V) + SumFunctionOnSet(f, D \ V)
    <2> HIDE DEF f, D
    <2> QED
      BY <1>3, SumUnion
  <1>5. SizeOf(E, DOMAIN E) = SizeOf(E, V) + SizeOf(E, DOMAIN E \ V)
    BY <1>4 DEF SizeOf
  <1>6. SizeOf(K, DOMAIN E \ V) = SizeOf(E, DOMAIN E \ V)
    <2>1. IsFiniteSet(DOMAIN E \ V)
      BY EntriesCount
    <2> HIDE DEF K
    <2> QED
      BY <1>1, <2>1, SizeKept
  <1>7. /\ SizeOf(E, DOMAIN E) \in Nat /\ SizeOf(E, V) \in Nat
        /\ SizeOf(E, DOMAIN E \ V) \in Nat
    BY EntriesCount
  <1>8. SizeOf(K, DOMAIN K) = SizeOf(E, DOMAIN E \ V)
    BY <1>1, <1>6
  <1>9. SizeOf(E, DOMAIN E \ V) = SizeOf(E, DOMAIN E) - SizeOf(E, V)
    BY <1>5, <1>7
  <1> QED
    BY <1>1, <1>2, <1>7, <1>8, <1>9

\* touch, pin and unpin keep every size.
LEMMA UseKeeps ==
    ASSUME LruInv, NEW p \in DOMAIN cache, NEW e \in Entry, e.bytes = cache[p].bytes,
           cache' = [cache EXCEPT ![p] = e], resident' = resident,
           lruOp' \notin {"insert", "refused"}
    PROVE  LruInv' /\ PinnedKept
  <1> USE DEF LruInv
  <1>1. /\ DOMAIN cache' = DOMAIN cache
        /\ \A q \in DOMAIN cache : cache'[q].bytes = cache[q].bytes /\ cache'[q] \in Entry
    BY DEF LTypeOK
  <1>2. SizeOf(cache', DOMAIN cache') = SizeOf(cache, DOMAIN cache)
    BY <1>1, SizeKept
  <1>3. LTypeOK'
    BY <1>1 DEF LTypeOK
  <1>4. LruBounded'
    BY <1>2 DEF LruBounded
  <1> QED
    BY <1>1, <1>3, <1>4 DEF PinnedKept

LEMMA RefreshKeeps ==
    ASSUME LruInv, NEW p \in Pages, NEW b \in Sizes, NEW t \in 0..MaxTime, Refresh(p, b, t)
    PROVE  LruInv' /\ PinnedKept
  <1> USE DEF LruInv
  <1> DEFINE e == [cache[p] EXCEPT !.bytes = b, !.used = t]
             E == [cache EXCEPT ![p] = e]
             r == (resident - cache[p].bytes) + b
  <1>1. p \in DOMAIN cache /\ b <= Capacity /\ cache[p] \in Entry
    BY DEF Refresh, LTypeOK
  <1>2. E = [cache EXCEPT ![p].bytes = b, ![p].used = t]
    BY <1>1
  <1>3. PICK V \in LruVictims(E, r, Capacity) :
          cache' = Keeping(E, V) /\ resident' = r - SizeOf(E, V)
    BY <1>2 DEF Refresh
  <1>4. e \in Entry /\ e.bytes = b /\ e.pins = cache[p].pins
    BY <1>1 DEF Entry
  <1> HIDE DEF e
  <1>5. /\ DOMAIN E = DOMAIN cache /\ E[p] = e
        /\ \A q \in DOMAIN cache : q # p => E[q] = cache[q]
        /\ \A q \in DOMAIN cache : E[q].pins = cache[q].pins
    BY <1>1, <1>4
  <1>6. Entries(E) /\ Entries(cache)
    BY <1>4, <1>5 DEF Entries, LTypeOK
  <1>7. SizeOf(E, DOMAIN E) = r /\ r \in Nat
    <2> DEFINE rest == DOMAIN cache \ {p}
    <2>1. SizeOf(E, DOMAIN E) = b + SizeOf(E, rest)
      <3> HIDE DEF E
      <3> QED
        BY <1>1, <1>4, <1>5, <1>6, SizeSplit
    <2>2. SizeOf(cache, DOMAIN cache) = cache[p].bytes + SizeOf(cache, rest)
      BY <1>1, <1>6, SizeSplit
    <2>3. SizeOf(E, rest) = SizeOf(cache, rest)
      <3>1. IsFiniteSet(rest) /\ \A q \in rest : E[q].bytes = cache[q].bytes
        BY <1>5, <1>6, EntriesCount
      <3> HIDE DEF E
      <3> QED
        BY <1>5, <3>1, SizeKept
    <2>4. SizeOf(cache, rest) \in Nat /\ cache[p].bytes \in Nat /\ b \in Nat
      BY <1>1, <1>6, EntriesCount, EntryBytes, LruAssumption
    <2>5. resident = SizeOf(cache, DOMAIN cache)
      BY DEF LruBounded
    <2> HIDE DEF E, rest
    <2> QED
      BY <2>1, <2>2, <2>3, <2>4, <2>5
  <1>8. /\ V \in SUBSET Unpinned(E) /\ V \in SUBSET (DOMAIN E)
        /\ r - SizeOf(E, V) <= Capacity \/ V = Unpinned(E)
    BY DEF LruVictims, Unpinned
  <1> HIDE DEF E, r
  <1>9. /\ Entries(cache') /\ DOMAIN cache' = DOMAIN E \ V
        /\ \A q \in DOMAIN cache' : cache'[q] = E[q]
        /\ resident' = SizeOf(cache', DOMAIN cache') /\ resident' \in Nat
    <2> DEFINE K == Keeping(E, V)
    <2>1. /\ Entries(K) /\ DOMAIN K = DOMAIN E \ V /\ \A q \in DOMAIN K : K[q] = E[q]
          /\ SizeOf(K, DOMAIN K) = SizeOf(E, DOMAIN E) - SizeOf(E, V)
          /\ SizeOf(K, DOMAIN K) \in Nat
      BY <1>6, <1>8, KeepingSize
    <2>2. cache' = K /\ resident' = r - SizeOf(E, V)
      BY <1>3
    <2> HIDE DEF K
    <2> QED
      BY <1>7, <2>1, <2>2
  <1>10. LTypeOK'
    BY <1>5, <1>9 DEF LTypeOK, Entries
  <1>11. V = Unpinned(E) => Unpinned(cache)' = {}
    BY <1>9 DEF Unpinned
  <1>12. LruBounded'
    BY <1>3, <1>8, <1>9, <1>11 DEF LruBounded
  <1>13. PinnedKept
    BY <1>5, <1>8, <1>9 DEF PinnedKept, Unpinned
  <1> QED
    BY <1>9, <1>10, <1>12, <1>13 DEF Entries

LEMMA InsertKeeps ==
    ASSUME LruInv, NEW p \in Pages, NEW b \in Sizes, NEW t \in 0..MaxTime, Insert(p, b, t)
    PROVE  LruInv' /\ PinnedKept
  <1> USE DEF LruInv
  <1>1. p \notin DOMAIN cache /\ b <= Capacity
    BY DEF Insert
  <1>2. PICK V \in LruVictims(cache, resident + b, Capacity) :
          LET left == resident - SizeOf(cache, V)
              K == Keeping(cache, V)
          IN IF left + b <= Capacity
             THEN /\ cache' = [q \in DOMAIN K \cup {p} |->
                                  IF q = p THEN [bytes |-> b, used |-> t, pins |-> 0] ELSE K[q]]
                  /\ resident' = left + b /\ lruOp' = "insert"
             ELSE cache' = K /\ resident' = left /\ lruOp' = "refused"
    BY DEF Insert
  <1> DEFINE K == Keeping(cache, V)
             left == resident - SizeOf(cache, V)
             e == [bytes |-> b, used |-> t, pins |-> 0]
  <1>3. /\ V \in SUBSET Unpinned(cache) /\ V \in SUBSET (DOMAIN cache)
        /\ (resident + b) - SizeOf(cache, V) <= Capacity \/ V = Unpinned(cache)
    BY DEF LruVictims, Unpinned
  <1>4. Entries(cache)
    BY DEF Entries, LTypeOK
  <1>5. /\ Entries(K) /\ DOMAIN K = DOMAIN cache \ V /\ \A q \in DOMAIN K : K[q] = cache[q]
        /\ SizeOf(K, DOMAIN K) = left /\ left \in Nat /\ SizeOf(cache, V) \in Nat
        /\ resident \in Nat
    BY <1>3, <1>4, KeepingSize DEF LruBounded
  <1>6. b \in Nat /\ e \in Entry /\ e.bytes = b
    BY LruAssumption DEF Entry
  <1>7. CASE left + b <= Capacity
    <2>1. /\ cache' = [q \in DOMAIN K \cup {p} |-> IF q = p THEN e ELSE K[q]]
          /\ resident' = left + b /\ lruOp' = "insert"
      BY <1>2, <1>7
    <2> HIDE DEF K, left, e
    <2>2. /\ DOMAIN cache' = DOMAIN K \cup {p} /\ cache'[p] = e /\ p \notin DOMAIN K
          /\ \A q \in DOMAIN K : cache'[q] = K[q]
      BY <1>1, <1>5, <2>1
    <2>3. Entries(cache')
      <3>1. IsFiniteSet(DOMAIN K \cup {p})
        BY <1>5, FS_AddElement DEF Entries
      <3> QED
        BY <1>5, <1>6, <2>2, <3>1 DEF Entries
    <2>4. SizeOf(cache', DOMAIN cache') = left + b
      <3>1. SizeOf(cache', DOMAIN cache') = b + SizeOf(cache', DOMAIN cache' \ {p})
        BY <1>6, <2>2, <2>3, SizeSplit
      <3>2. DOMAIN cache' \ {p} = DOMAIN K
        BY <2>2
      <3>3. SizeOf(cache', DOMAIN K) = SizeOf(K, DOMAIN K)
        BY <1>5, <2>2, SizeKept DEF Entries
      <3> QED
        BY <1>5, <1>6, <3>1, <3>2, <3>3
    <2>5. LTypeOK'
      BY <1>5, <1>6, <2>1, <2>2, <2>3 DEF LTypeOK, Entries
    <2>6. LruBounded'
      BY <1>7, <2>1, <2>4 DEF LruBounded
    <2>7. PinnedKept
      BY <1>3, <1>5, <2>2 DEF PinnedKept, Unpinned
    <2> QED
      BY <2>3, <2>5, <2>6, <2>7 DEF Entries
  <1>8. CASE ~(left + b <= Capacity)
    <2>1. cache' = K /\ resident' = left /\ lruOp' = "refused"
      BY <1>2, <1>8
    <2>2. V = Unpinned(cache)
      <3> DEFINE v == SizeOf(cache, V)
      <3>1. v \in Nat /\ resident \in Nat /\ ~((resident - v) + b <= Capacity)
            /\ ((resident + b) - v <= Capacity \/ V = Unpinned(cache)) /\ Capacity \in Nat
        BY <1>3, <1>5, <1>8, LruAssumption
      <3> HIDE DEF v
      <3> QED
        BY <1>6, <3>1
    <2> HIDE DEF K, left
    <2>3. LTypeOK'
      BY <1>5, <2>1 DEF LTypeOK, Entries
    <2>4. Unpinned(cache)' = {}
      BY <1>5, <2>1, <2>2 DEF Unpinned
    <2>5. LruBounded'
      BY <1>5, <2>1, <2>4 DEF LruBounded
    <2>6. PinnedKept
      BY <1>3, <1>5, <2>1 DEF PinnedKept, Unpinned
    <2> QED
      BY <1>5, <2>1, <2>3, <2>5, <2>6 DEF Entries
  <1> QED
    BY <1>7, <1>8

LEMMA LruStep ==
    ASSUME LruInv, [LNext]_lvars
    PROVE  LruInv' /\ PinnedKept
  <1>1. ASSUME NEW p \in Pages, NEW t \in 0..MaxTime, Touch(p, t)
        PROVE  LruInv' /\ PinnedKept
    <2> DEFINE e == [cache[p] EXCEPT !.used = t]
    <2>1. /\ p \in DOMAIN cache /\ cache' = [cache EXCEPT ![p] = e] /\ resident' = resident
          /\ lruOp' = "touch"
      BY <1>1 DEF Touch
    <2>2. cache[p] \in Entry
      BY <2>1 DEF LruInv, LTypeOK
    <2>3. e \in Entry /\ e.bytes = cache[p].bytes
      BY <2>2 DEF Entry
    <2> HIDE DEF e
    <2> QED
      BY <2>1, <2>3, UseKeeps
  <1>2. ASSUME NEW p \in Pages, NEW t \in 0..MaxTime, Pin(p, t)
        PROVE  LruInv' /\ PinnedKept
    <2> DEFINE n == cache[p].pins + 1
               e == [cache[p] EXCEPT !.used = t, !.pins = n]
    <2>1. /\ p \in DOMAIN cache /\ cache' = [cache EXCEPT ![p] = e] /\ resident' = resident
          /\ lruOp' = "pin" /\ cache[p].pins < 2
      BY <1>2 DEF Pin
    <2>2. cache[p] \in Entry
      BY <2>1 DEF LruInv, LTypeOK
    <2>3. n \in 0..2
      BY <2>1, <2>2, EntryBytes
    <2> HIDE DEF n
    <2>4. e \in Entry /\ e.bytes = cache[p].bytes
      BY <2>2, <2>3 DEF Entry
    <2> HIDE DEF e
    <2> QED
      BY <2>1, <2>4, UseKeeps
  <1>3. ASSUME NEW p \in Pages, Unpin(p)
        PROVE  LruInv' /\ PinnedKept
    <2> DEFINE n == cache[p].pins - 1
               e == [cache[p] EXCEPT !.pins = n]
    <2>1. /\ p \in DOMAIN cache /\ cache' = [cache EXCEPT ![p] = e] /\ resident' = resident
          /\ lruOp' = "unpin" /\ cache[p].pins > 0
      BY <1>3 DEF Unpin
    <2>2. cache[p] \in Entry
      BY <2>1 DEF LruInv, LTypeOK
    <2>3. n \in 0..2
      BY <2>1, <2>2, EntryBytes
    <2> HIDE DEF n
    <2>4. e \in Entry /\ e.bytes = cache[p].bytes
      BY <2>2, <2>3 DEF Entry
    <2> HIDE DEF e
    <2> QED
      BY <2>1, <2>4, UseKeeps
  <1>4. CASE UNCHANGED lvars
    BY <1>4 DEF lvars, LruInv, LTypeOK, LruBounded, SizeOf, Unpinned, PinnedKept
  <1> QED
    BY <1>1, <1>2, <1>3, <1>4, RefreshKeeps, InsertKeeps DEF LNext


-----------------------------------------------------------------------------
(* r4kv/src/tier.rs: the hot tier and its watermark                         *)

TierInv == TTypeOK /\ TierSound /\ IsFiniteSet(DOMAIN held)

\* P holds finitely many pages.
Known(P) == IsFiniteSet(DOMAIN P) /\ \A p \in DOMAIN P : P[p] \in Page

LEMMA TierInit == TInit => TierInv
  <1> SUFFICES ASSUME TInit PROVE TierInv
    OBVIOUS
  <1>1. /\ DOMAIN held = {} /\ hotUsed = 0 /\ older = {} /\ policy \in Policies
    BY DEF TInit
  <1>2. HotBytes(held, DOMAIN held) = 0
    BY <1>1, SumEmpty DEF HotBytes
  <1>3. IsFiniteSet(DOMAIN held) /\ HighWatermark \in Nat
    BY <1>1, FS_EmptySet, TierAssumption
  <1> QED
    BY <1>1, <1>2, <1>3 DEF TierInv, TTypeOK, TierSound

LEMMA PageFields ==
    ASSUME NEW g \in Page
    PROVE  /\ g.hot \in Nat /\ g.hot \in PageBytes \cup {0} /\ g.ram \in PageBytes
           /\ g.ram \in Nat /\ g.ram > 0
           /\ g.state \in {"HotMirrored", "PromotedHot", "LukewarmOnly"}
  <1>1. /\ g.hot \in PageBytes \cup {0} /\ g.ram \in PageBytes
        /\ g.state \in {"HotMirrored", "PromotedHot", "LukewarmOnly"}
    BY DEF Page
  <1>2. \A b \in PageBytes : b \in Nat /\ b > 0
    BY TierAssumption
  <1> QED
    BY <1>1, <1>2

LEMMA PagesCount ==
    ASSUME NEW P, Known(P), NEW S \in SUBSET (DOMAIN P)
    PROVE  /\ IsFiniteSet(S) /\ Counts([p \in DOMAIN P |-> P[p].hot], S)
           /\ HotBytes(P, S) \in Nat
  <1>1. IsFiniteSet(S)
    BY FS_Subset DEF Known
  <1>2. Counts([p \in DOMAIN P |-> P[p].hot], S)
    BY PageFields DEF Known, Counts
  <1> QED
    BY <1>1, <1>2, SumType DEF HotBytes

LEMMA HotKept ==
    ASSUME NEW P, NEW Q, NEW S, IsFiniteSet(S), S \subseteq DOMAIN P, S \subseteq DOMAIN Q,
           \A p \in S : Q[p].hot = P[p].hot
    PROVE  HotBytes(Q, S) = HotBytes(P, S)
  <1> DEFINE f == [p \in DOMAIN P |-> P[p].hot]
             g == [p \in DOMAIN Q |-> Q[p].hot]
  <1>1. \A p \in S : f[p] = g[p]
    OBVIOUS
  <1>2. SumFunctionOnSet(f, S) = SumFunctionOnSet(g, S)
    <2> HIDE DEF f, g
    <2> QED
      BY <1>1, SumSame
  <1> QED
    BY <1>2 DEF HotBytes

LEMMA HotNothing ==
    ASSUME NEW P, NEW S, IsFiniteSet(S), S \subseteq DOMAIN P, \A p \in S : P[p].hot = 0
    PROVE  HotBytes(P, S) = 0
  <1> DEFINE f == [p \in DOMAIN P |-> P[p].hot]
  <1>1. \A p \in S : f[p] = 0
    OBVIOUS
  <1>2. SumFunctionOnSet(f, S) = 0
    <2> HIDE DEF f
    <2> QED
      BY <1>1, SumZero
  <1> QED
    BY <1>2 DEF HotBytes

LEMMA HotUnion ==
    ASSUME NEW P, Known(P), NEW S \in SUBSET (DOMAIN P), NEW T \in SUBSET S
    PROVE  HotBytes(P, S) = HotBytes(P, T) + HotBytes(P, S \ T)
  <1> DEFINE f == [p \in DOMAIN P |-> P[p].hot]
  <1>1. IsFiniteSet(S) /\ Counts(f, S)
    BY PagesCount
  <1>2. SumFunctionOnSet(f, S) = SumFunctionOnSet(f, T) + SumFunctionOnSet(f, S \ T)
    <2> HIDE DEF f
    <2> QED
      BY <1>1, SumUnion
  <1> QED
    BY <1>2 DEF HotBytes

LEMMA HotSplit ==
    ASSUME NEW P, Known(P), NEW S \in SUBSET (DOMAIN P), NEW p \in S
    PROVE  HotBytes(P, S) = P[p].hot + HotBytes(P, S \ {p})
  <1> DEFINE f == [q \in DOMAIN P |-> P[q].hot]
  <1>1. IsFiniteSet(S) /\ Counts(f, S) /\ f[p] = P[p].hot
    BY PagesCount
  <1>2. SumFunctionOnSet(f, S) = f[p] + SumFunctionOnSet(f, S \ {p})
    <2> HIDE DEF f
    <2> QED
      BY <1>1, SumSplit
  <1> QED
    BY <1>1, <1>2 DEF HotBytes

\* Pages that hold no hot bytes do not count.
LEMMA HotAlone ==
    ASSUME NEW P, Known(P)
    PROVE  HotBytes(P, DOMAIN P) = HotBytes(P, Hot(P))
  <1> DEFINE D == DOMAIN P
             H == Hot(P)
  <1>1. H \in SUBSET D /\ D \in SUBSET D /\ \A p \in D \ H : P[p].hot = 0
    BY PageFields DEF Known, Hot
  <1>2. IsFiniteSet(D \ H) /\ HotBytes(P, H) \in Nat
    BY <1>1, PagesCount
  <1>3. HotBytes(P, D \ H) = 0
    BY <1>1, <1>2, HotNothing
  <1>4. HotBytes(P, D) = HotBytes(P, H) + HotBytes(P, D \ H)
    BY <1>1, HotUnion
  <1> QED
    BY <1>2, <1>3, <1>4

\* What the loop of enforce_watermark leaves behind.
LEMMA DemoteKeeps ==
    ASSUME NEW P, Known(P), NEW V \in SUBSET (DOMAIN P)
    PROVE  LET Q == Demote(P, V) IN
           /\ Known(Q) /\ DOMAIN Q = DOMAIN P
           /\ \A p \in DOMAIN P : /\ Q[p].ram = P[p].ram
                                  /\ p \in V => Q[p].hot = 0 /\ Q[p].state = "LukewarmOnly"
                                  /\ p \notin V => Q[p] = P[p]
           /\ HotBytes(Q, DOMAIN Q) = HotBytes(P, DOMAIN P) - HotBytes(P, V)
           /\ HotBytes(P, DOMAIN P) \in Nat /\ HotBytes(P, V) \in Nat
           /\ HotBytes(Q, DOMAIN Q) \in Nat
  <1> DEFINE Q == Demote(P, V)
             cold(p) == [P[p] EXCEPT !.state = "LukewarmOnly", !.hot = 0]
             D == DOMAIN P
  <1>1. Q = [p \in D |-> IF p \in V THEN cold(p) ELSE P[p]]
    BY DEF Demote
  <1>2. ASSUME NEW p \in D
        PROVE  /\ cold(p) \in Page /\ cold(p).hot = 0 /\ cold(p).state = "LukewarmOnly"
               /\ cold(p).ram = P[p].ram
    BY DEF Known, Page
  <1> HIDE DEF cold, Q
  <1>3. /\ Known(Q) /\ DOMAIN Q = D
        /\ \A p \in D : /\ Q[p].ram = P[p].ram
                        /\ p \in V => Q[p].hot = 0 /\ Q[p].state = "LukewarmOnly"
                        /\ p \notin V => Q[p] = P[p]
    BY <1>1, <1>2 DEF Known
  <1>4. IsFiniteSet(V) /\ IsFiniteSet(D \ V)
    BY PagesCount
  <1>5. HotBytes(Q, V) = 0
    <2>1. V \subseteq DOMAIN Q
      BY <1>3
    <2>2. ASSUME NEW p \in V PROVE Q[p].hot = 0
      <3>1. p \in D
        OBVIOUS
      <3> QED
        BY <1>3, <2>2, <3>1
    <2> QED
      BY <1>4, <2>1, <2>2, HotNothing
  <1>6. HotBytes(Q, D \ V) = HotBytes(P, D \ V)
    <2> DEFINE W == D \ V
    <2>1. W \subseteq DOMAIN Q /\ W \subseteq DOMAIN P
      BY <1>3
    <2>4. ASSUME NEW p \in W PROVE Q[p].hot = P[p].hot
      <3>1. p \in D /\ p \notin V
        BY <2>4
      <3> QED
        BY <1>3, <3>1
    <2>2. IsFiniteSet(W)
      BY <1>4
    <2> HIDE DEF W
    <2>3. HotBytes(Q, W) = HotBytes(P, W)
      BY <2>1, <2>2, <2>4, HotKept
    <2> QED
      BY <2>3 DEF W
  <1>7. HotBytes(Q, D) = HotBytes(Q, V) + HotBytes(Q, D \ V)
    BY <1>3, HotUnion
  <1>8. HotBytes(P, D) = HotBytes(P, V) + HotBytes(P, D \ V)
    BY HotUnion
  <1>9. HotBytes(P, D) \in Nat /\ HotBytes(P, V) \in Nat /\ HotBytes(P, D \ V) \in Nat
    BY PagesCount
  <1>10. HotBytes(Q, D) = HotBytes(P, D) - HotBytes(P, V) /\ HotBytes(Q, D) \in Nat
    BY <1>5, <1>6, <1>7, <1>8, <1>9
  <1> QED
    BY <1>3, <1>9, <1>10 DEF Q

\* The order of last accesses with the page just accessed put last.
Accessed(id) == {e \in older : id \notin {e[1], e[2]}} \cup ((DOMAIN held \ {id}) \X {id})

LEMMA AccessedOrder ==
    ASSUME TTypeOK, NEW id \in PageIds
    PROVE  LET D == DOMAIN held \cup {id} IN
           /\ Accessed(id) \subseteq D \X D
           /\ \A p, q \in D : <<p, q>> \in Accessed(id) <=>
                 \/ p # id /\ q # id /\ <<p, q>> \in older
                 \/ p # id /\ q = id
           /\ \A p, q \in D : <<p, q>> \in Accessed(id) <=> p # q /\ <<q, p>> \notin Accessed(id)
           /\ \A p, q, r \in D :
                 <<p, q>> \in Accessed(id) /\ <<q, r>> \in Accessed(id) => <<p, r>> \in Accessed(id)
  <1> DEFINE D == DOMAIN held \cup {id}
  <1>1. older \subseteq (DOMAIN held) \X (DOMAIN held)
    BY DEF TTypeOK
  <1>2. Accessed(id) \subseteq D \X D
    BY <1>1 DEF Accessed
  <1>3. \A p, q \in D : <<p, q>> \in Accessed(id) <=>
                 \/ p # id /\ q # id /\ <<p, q>> \in older
                 \/ p # id /\ q = id
    BY <1>1 DEF Accessed
  <1>4. \A p, q \in D : <<p, q>> \in Accessed(id) <=> p # q /\ <<q, p>> \notin Accessed(id)
    <2>1. \A p, q \in DOMAIN held : <<p, q>> \in older <=> p # q /\ <<q, p>> \notin older
      BY DEF TTypeOK
    <2> QED
      BY <1>3, <2>1
  <1>5. \A p, q, r \in D :
          <<p, q>> \in Accessed(id) /\ <<q, r>> \in Accessed(id) => <<p, r>> \in Accessed(id)
    <2>1. \A p, q, r \in DOMAIN held :
            <<p, q>> \in older /\ <<q, r>> \in older => <<p, r>> \in older
      BY DEF TTypeOK
    <2> QED
      BY <1>3, <2>1
  <1> QED
    BY <1>2, <1>3, <1>4, <1>5


LEMMA AccessKeeps ==
    ASSUME TierInv, NEW id \in PageIds, NEW bytes \in PageBytes, Access(id, bytes)
    PROVE  TierInv'
  <1> USE DEF TierInv
  <1> DEFINE known == id \in DOMAIN held
             D == DOMAIN held \cup {id}
             P == IF known
                  THEN [held EXCEPT ![id].state = "PromotedHot", ![id].hot = held[id].ram]
                  ELSE [p \in DOMAIN held \cup {id} |->
                          IF p = id THEN [state |-> "HotMirrored", hot |-> bytes, ram |-> bytes]
                          ELSE held[p]]
  <1>1. /\ older' = Accessed(id) /\ policy' = policy
        /\ IF known /\ held[id].hot > 0 THEN UNCHANGED <<held, hotUsed>>
           ELSE \E V \in Victims(P, hotUsed + P[id].hot, Accessed(id)) :
                  /\ held' = Demote(P, V)
                  /\ hotUsed' = hotUsed + P[id].hot - HotBytes(P, V)
    BY DEF Access, Accessed
  <1>2. /\ Known(held) /\ hotUsed \in Nat /\ HighWatermark \in Nat /\ DOMAIN held \subseteq PageIds
        /\ policy \in Policies /\ hotUsed = HotBytes(held, DOMAIN held)
        /\ hotUsed <= HighWatermark
        /\ \A p \in DOMAIN held : held[p].hot = 0 <=> held[p].state = "LukewarmOnly"
    BY TierAssumption DEF TTypeOK, TierSound, Known
  <1>3. CASE known /\ held[id].hot > 0
    <2>1. UNCHANGED <<held, hotUsed>> /\ DOMAIN held' = D
      BY <1>1, <1>3
    <2>2. TTypeOK'
      BY <1>1, <1>2, <1>3, <2>1, AccessedOrder DEF TTypeOK
    <2>3. \A p \in DOMAIN held' : (\A q \in DOMAIN held' : <<p, q>> \notin older') => p = id
      BY <1>1, <2>1, AccessedOrder
    <2>4. TierSound'
      BY <1>1, <1>2, <1>3, <2>1, <2>3 DEF TierSound, HotBytes, Hot
    <2> QED
      BY <2>1, <2>2, <2>4
  <1>4. CASE ~(known /\ held[id].hot > 0)
    <2>1. PICK V \in Victims(P, hotUsed + P[id].hot, Accessed(id)) :
            /\ held' = Demote(P, V)
            /\ hotUsed' = hotUsed + P[id].hot - HotBytes(P, V)
      BY <1>1, <1>4
    \* The page gains its bytes, and nothing else changes.
    <2>2. /\ DOMAIN P = D /\ P[id] \in Page /\ P[id].hot = P[id].ram
          /\ P[id].state # "LukewarmOnly"
          /\ \A p \in DOMAIN held : p # id => P[p] = held[p]
          /\ known => held[id].hot = 0
      <3>1. CASE known
        <4> DEFINE g == [held[id] EXCEPT !.state = "PromotedHot", !.hot = held[id].ram]
        <4>1. P = [held EXCEPT ![id] = g] /\ held[id] \in Page
          BY <1>2, <3>1 DEF Known
        <4>2. g \in Page /\ g.hot = g.ram /\ g.state = "PromotedHot"
          BY <4>1 DEF Page
        <4>3. held[id].hot = 0
          BY <1>4, <3>1, <4>1, PageFields
        <4> HIDE DEF g
        <4> QED
          BY <3>1, <4>1, <4>2, <4>3
      <3>2. CASE ~known
        <4> DEFINE g == [state |-> "HotMirrored", hot |-> bytes, ram |-> bytes]
        <4>1. P = [p \in D |-> IF p = id THEN g ELSE held[p]]
          BY <3>2
        <4>2. g \in Page /\ g.hot = g.ram /\ g.state = "HotMirrored"
          BY DEF Page
        <4> HIDE DEF g
        <4> QED
          BY <3>2, <4>1, <4>2
      <3> QED
        BY <3>1, <3>2
    <2> DEFINE h == P[id].hot
               used == hotUsed + h
    <2>3. V \in Victims(P, used, Accessed(id))
      BY <2>1
    <2> HIDE DEF P
    <2>4. Known(P) /\ h \in Nat /\ h > 0 /\ P[id].ram = h
      <3>1. IsFiniteSet(D)
        BY <1>2, FS_AddElement DEF Known
      <3>2. \A p \in D : P[p] \in Page
        BY <1>2, <2>2 DEF Known
      <3>3. P[id].ram \in Nat /\ P[id].ram > 0
        BY <2>2, PageFields
      <3> QED
        BY <2>2, <3>1, <3>2, <3>3 DEF Known
    <2>5. HotBytes(P, DOMAIN P) = used /\ used \in Nat
      <3> DEFINE rest == DOMAIN held \ {id}
      <3>1. /\ rest \in SUBSET (DOMAIN held) /\ rest \in SUBSET (DOMAIN P) /\ DOMAIN P \ {id} = rest
            /\ id \in DOMAIN P
        BY <2>2
      <3>2. IsFiniteSet(rest) /\ HotBytes(held, rest) \in Nat
        BY <1>2, <3>1, PagesCount
      <3>3. \A p \in rest : P[p].hot = held[p].hot
        BY <2>2
      <3>4. HotBytes(P, rest) = HotBytes(held, rest)
        <4>1. rest \subseteq DOMAIN held /\ rest \subseteq DOMAIN P
          BY <3>1
        <4> HIDE DEF rest
        <4> QED
          BY <3>2, <3>3, <4>1, HotKept
      <3>5. HotBytes(P, DOMAIN P) = h + HotBytes(P, DOMAIN P \ {id})
        BY <2>4, <3>1, HotSplit
      <3>6. HotBytes(held, DOMAIN held) = HotBytes(held, rest)
        <4>1. CASE known
          <5>1. HotBytes(held, DOMAIN held) = held[id].hot + HotBytes(held, rest)
            BY <1>2, <4>1, HotSplit
          <5> QED
            BY <2>2, <3>2, <4>1, <5>1
        <4>2. CASE ~known
          BY <4>2
        <4> QED
          BY <4>1, <4>2
      <3> HIDE DEF rest, h
      <3> QED
        BY <1>2, <2>4, <3>1, <3>2, <3>4, <3>5, <3>6
    <2> HIDE DEF used
    <2>6. /\ V \in SUBSET Hot(P) /\ V \in SUBSET (DOMAIN P)
          /\ \A v \in V, w \in Hot(P) \ V : PickedBefore(v, w, Accessed(id))
          /\ used - HotBytes(P, V) <= HighWatermark \/ V = Hot(P)
          /\ V # {} => \E v \in V : /\ \A u \in V \ {v} : PickedBefore(u, v, Accessed(id))
                                    /\ used - HotBytes(P, V \ {v}) > HighWatermark
      BY <2>3 DEF Victims, Hot
    <2> DEFINE Q == Demote(P, V)
    <2>7. /\ Known(Q) /\ DOMAIN Q = D
          /\ \A p \in D : /\ Q[p].ram = P[p].ram
                          /\ p \in V => Q[p].hot = 0 /\ Q[p].state = "LukewarmOnly"
                          /\ p \notin V => Q[p] = P[p]
          /\ HotBytes(Q, DOMAIN Q) = used - HotBytes(P, V)
          /\ HotBytes(P, V) \in Nat /\ HotBytes(Q, DOMAIN Q) \in Nat
      BY <2>2, <2>4, <2>5, <2>6, DemoteKeeps
    <2>8. held' = Q /\ hotUsed' = used - HotBytes(P, V)
      <3> DEFINE v == HotBytes(P, V)
      <3>1. hotUsed' = hotUsed + h - v /\ v \in Nat /\ h \in Nat /\ hotUsed \in Nat
        BY <1>2, <2>1, <2>4, <2>7
      <3> HIDE DEF v, h
      <3> QED
        BY <2>1, <3>1 DEF used, v
    <2> HIDE DEF Q, h
    <2>9. TTypeOK'
      <3>1. hotUsed' \in Nat /\ DOMAIN held' = D /\ \A p \in D : held'[p] \in Page
        BY <2>7, <2>8 DEF Known
      <3> QED
        BY <1>1, <1>2, <3>1, AccessedOrder DEF TTypeOK
    <2>10. hotUsed' <= HighWatermark
      <3>1. CASE V = Hot(P)
        <4>1. HotBytes(P, DOMAIN P) = HotBytes(P, Hot(P))
          BY <2>4, HotAlone
        <4> QED
          BY <1>2, <2>5, <2>7, <2>8, <3>1, <4>1
      <3> QED
        BY <2>6, <2>8, <3>1
    <2>11. \A p \in D : Q[p].hot = 0 <=> Q[p].state = "LukewarmOnly"
      <3> SUFFICES ASSUME NEW p \in D, p \notin V
                   PROVE  P[p].hot = 0 <=> P[p].state = "LukewarmOnly"
        BY <2>7
      <3> QED
        BY <1>2, <2>2, <2>4 DEF h
    <2>12. ASSUME policy = "Lru", h <= HighWatermark PROVE id \notin V
      <3> SUFFICES ASSUME id \in V PROVE FALSE
        OBVIOUS
      <3>1. \A w \in Hot(P) : ~PickedBefore(id, w, Accessed(id))
        <4>1. \A w \in D : <<id, w>> \notin Accessed(id)
          BY AccessedOrder
        <4> QED
          BY <2>2, <2>12, <4>1 DEF PickedBefore, Hot
      <3>2. V = Hot(P)
        BY <2>6, <3>1
      <3>3. used - HotBytes(P, V \ {id}) > HighWatermark
        <4>1. PICK v \in V : /\ \A u \in V \ {v} : PickedBefore(u, v, Accessed(id))
                             /\ used - HotBytes(P, V \ {v}) > HighWatermark
          BY <2>6
        <4>2. v = id
          BY <2>6, <3>1, <4>1
        <4> QED
          BY <4>1, <4>2
      <3>4. HotBytes(P, V) = h + HotBytes(P, V \ {id})
        BY <2>4, <2>6, HotSplit DEF h
      <3>5. HotBytes(P, V) = used
        BY <2>4, <2>5, <3>2, HotAlone
      <3>6. HotBytes(P, V \ {id}) \in Nat
        <4>1. V \ {id} \in SUBSET (DOMAIN P)
          BY <2>6
        <4> QED
          BY <2>4, <4>1, PagesCount
      <3> QED
        BY <1>2, <2>4, <2>12, <3>3, <3>4, <3>5, <3>6
    <2>13. policy = "Lru" => \A p \in D :
             (\A q \in D : <<p, q>> \notin Accessed(id)) /\ Q[p].ram <= HighWatermark
               => p \in Hot(Q)
      <3> SUFFICES ASSUME policy = "Lru", NEW p \in D,
                          \A q \in D : <<p, q>> \notin Accessed(id), Q[p].ram <= HighWatermark
                   PROVE  p \in Hot(Q)
        OBVIOUS
      <3>1. p = id
        BY AccessedOrder
      <3>2. Q[id].ram = h
        BY <2>4, <2>7
      <3>3. id \notin V
        BY <2>12, <3>1, <3>2
      <3>4. Q[id].hot = h
        BY <2>7, <3>3 DEF h
      <3> QED
        BY <2>4, <2>7, <3>1, <3>4 DEF Hot
    <2>14. TierSound'
      BY <1>1, <2>7, <2>8, <2>10, <2>11, <2>13 DEF TierSound, Hot
    <2> QED
      BY <2>7, <2>8, <2>9, <2>14 DEF Known
  <1> QED
    BY <1>3, <1>4

LEMMA TierStep ==
    ASSUME TierInv, [TNext]_tvars
    PROVE  TierInv'
  <1>1. CASE UNCHANGED tvars
    BY <1>1 DEF tvars, TierInv, TTypeOK, TierSound, HotBytes, Hot
  <1> QED
    BY <1>1, AccessKeeps DEF TNext


-----------------------------------------------------------------------------
(* har-metabolism: the reserve accounts                                     *)

Account == [committed : Nat, debt : Nat, recovery : Nat]

\* The debt behind every account is a count: what was borrowed is never
\* written off below nothing.
ReserveInv == reserve \in [Dims -> Account] /\ reserveEpoch \in Nat /\ ReserveSound

LEMMA Capacities ==
    ASSUME NEW d \in Dims
    PROVE  CapacityOf(d) \in Nat /\ Floor(d) \in Nat
  BY MetabolismAssumption DEF CapacityOf, Floor

LEMMA ReserveParameters ==
    /\ \A n \in Needs : n \in Nat
    /\ RecoverAfter \in Nat /\ RecoverAfter > 0
  <1>1. Needs \subseteq Nat /\ RecoverAfter \in Nat \ {0}
    BY Zenon, MetabolismAssumption
  <1> QED
    BY <1>1

LEMMA AccountFields ==
    ASSUME NEW a \in Account
    PROVE  a.committed \in Nat /\ a.debt \in Nat /\ a.recovery \in Nat
  BY DEF Account

\* What an account must show for the table to stay sound.
LEMMA AccountsKeep ==
    ASSUME reserve' \in [Dims -> Account], reserveEpoch' \in Nat,
           \A d \in Dims : /\ reserve'[d].committed <= CapacityOf(d)
                           /\ reserve'[d].debt > 0 => reserveEpoch' < reserve'[d].recovery
    PROVE  ReserveInv'
  <1>1. ASSUME NEW d \in Dims, Available(d)' > 0
        PROVE  reserve'[d].committed + Available(d)' <= CapacityOf(d) - Floor(d)
    <2> DEFINE c == reserve'[d].committed
               b == reserve'[d].debt
               cap == CapacityOf(d)
               low == Floor(d)
    <2>1. c \in Nat /\ b \in Nat /\ cap \in Nat /\ low \in Nat
      BY Capacities DEF Account
    <2>2. Available(d)' = IF cap - (low + c + b) < 0 THEN 0 ELSE cap - (low + c + b)
      BY DEF Available, AtLeastZero, CapacityOf, Floor
    <2>3. Available(d)' > 0
      BY <1>1
    <2> HIDE DEF c, b, cap, low
    <2>4. c + Available(d)' <= cap - low
      BY <2>1, <2>2, <2>3
    <2> QED
      BY <2>4 DEF c, cap, low
  <1> QED
    BY <1>1 DEF ReserveInv, ReserveSound

LEMMA ReserveInit == XInit => ReserveInv
  <1> SUFFICES ASSUME XInit PROVE ReserveInv
    OBVIOUS
  <1> DEFINE a == [committed |-> 0, debt |-> 0, recovery |-> 0]
  <1>1. reserve = [d \in Dims |-> a] /\ reserveEpoch = 0
    BY DEF XInit
  <1>2. a \in Account /\ a.committed = 0 /\ a.debt = 0
    BY DEF Account
  <1> HIDE DEF a
  <1>3. ASSUME NEW d \in Dims, Available(d) > 0
        PROVE  reserve[d].committed + Available(d) <= CapacityOf(d) - Floor(d)
    <2> DEFINE cap == CapacityOf(d)
               low == Floor(d)
    <2>1. cap \in Nat /\ low \in Nat
      BY Capacities
    <2>2. Available(d) = IF cap - (low + 0 + 0) < 0 THEN 0 ELSE cap - (low + 0 + 0)
      BY <1>1, <1>2 DEF Available, AtLeastZero
    <2>3. Available(d) > 0 /\ reserve[d].committed = 0
      BY <1>1, <1>2, <1>3
    <2> HIDE DEF cap, low
    <2>4. 0 + Available(d) <= cap - low
      BY <2>1, <2>2, <2>3
    <2> QED
      BY <2>3, <2>4 DEF cap, low
  <1>4. reserve \in [Dims -> Account] /\ \A d \in Dims : reserve[d] = a
    BY <1>1, <1>2
  <1>5. \A d \in Dims : reserve[d].committed <= CapacityOf(d) /\ ~(reserve[d].debt > 0)
    BY <1>2, <1>4, Capacities
  <1> QED
    BY <1>1, <1>3, <1>4, <1>5 DEF ReserveInv, ReserveSound

LEMMA CommitKeeps ==
    ASSUME ReserveInv, NEW d \in Dims, NEW n \in Needs, Commit(d, n)
    PROVE  ReserveInv'
  <1> USE DEF ReserveInv
  <1> DEFINE c == reserve[d].committed
             sum == c + n
             a == [reserve[d] EXCEPT !.committed = sum]
             cap == CapacityOf(d)
             low == Floor(d)
             b == reserve[d].debt
  <1>1. /\ reserve[d] \in Account /\ n \in Nat /\ c \in Nat /\ sum \in Nat /\ b \in Nat
        /\ cap \in Nat /\ low \in Nat
    <2>1. reserve[d] \in Account /\ n \in Nat
      BY ReserveParameters
    <2>2. c \in Nat /\ b \in Nat /\ cap \in Nat /\ low \in Nat
      BY <2>1, AccountFields, Capacities
    <2> QED
      BY <2>1, <2>2
  <1>2. /\ reserve' = [reserve EXCEPT ![d] = a] /\ reserveEpoch' = reserveEpoch
        /\ Available(d) >= n
    BY DEF Commit
  <1>3. sum <= cap
    <2>1. Available(d) = IF cap - (low + c + b) < 0 THEN 0 ELSE cap - (low + c + b)
      BY DEF Available, AtLeastZero
    <2>2. c <= cap
      BY DEF ReserveSound
    <2>3. Available(d) >= n
      BY <1>2
    <2> HIDE DEF c, cap, low, b
    <2> QED
      BY <1>1, <2>1, <2>2, <2>3
  <1> HIDE DEF sum, cap, low
  <1>4. a \in Account /\ a.committed = sum /\ a.debt = reserve[d].debt
        /\ a.recovery = reserve[d].recovery
    BY <1>1 DEF Account
  <1> HIDE DEF a
  <1>5. /\ reserve' \in [Dims -> Account] /\ reserve'[d] = a
        /\ \A e \in Dims : e # d => reserve'[e] = reserve[e]
    BY <1>2, <1>4
  <1>6. \A e \in Dims : /\ reserve'[e].committed <= CapacityOf(e)
                        /\ reserve'[e].debt > 0 => reserveEpoch' < reserve'[e].recovery
    BY <1>2, <1>3, <1>4, <1>5 DEF ReserveSound, cap
  <1> QED
    BY <1>2, <1>5, <1>6, AccountsKeep

LEMMA ReleaseReserveKeeps ==
    ASSUME ReserveInv, NEW d \in Dims, NEW n \in Needs, ReleaseReserve(d, n)
    PROVE  ReserveInv'
  <1> USE DEF ReserveInv
  <1> DEFINE c == reserve[d].committed
             left == c - Least(n, c)
             a == [reserve[d] EXCEPT !.committed = left]
  <1>1. reserve[d] \in Account /\ n \in Nat /\ c \in Nat /\ CapacityOf(d) \in Nat
    BY ReserveParameters, AccountFields, Capacities
  <1>2. reserve' = [reserve EXCEPT ![d] = a] /\ reserveEpoch' = reserveEpoch
    BY DEF ReleaseReserve
  <1>3. left \in Nat /\ left <= c
    BY <1>1 DEF Least
  <1>4. c <= CapacityOf(d)
    BY DEF ReserveSound
  <1> HIDE DEF left
  <1>5. a \in Account /\ a.committed = left /\ a.debt = reserve[d].debt
        /\ a.recovery = reserve[d].recovery
    BY <1>1, <1>3 DEF Account
  <1> HIDE DEF a, c
  <1>6. left <= CapacityOf(d)
    BY <1>1, <1>3, <1>4
  <1>7. /\ reserve' \in [Dims -> Account] /\ reserve'[d] = a
        /\ \A e \in Dims : e # d => reserve'[e] = reserve[e]
    BY <1>2, <1>5
  <1>8. \A e \in Dims : /\ reserve'[e].committed <= CapacityOf(e)
                        /\ reserve'[e].debt > 0 => reserveEpoch' < reserve'[e].recovery
    BY <1>2, <1>5, <1>6, <1>7 DEF ReserveSound
  <1> QED
    BY <1>2, <1>7, <1>8, AccountsKeep

LEMMA MobilizeKeeps ==
    ASSUME ReserveInv, NEW d \in Dims, NEW n \in Needs, Mobilize(d, n)
    PROVE  ReserveInv'
  <1> USE DEF ReserveInv
  <1> DEFINE c == reserve[d].committed
             sum == c + n
             debt == reserve[d].debt + Borrowed(d, sum) - Borrowed(d, c)
             due == reserveEpoch + RecoverAfter
             a == [committed |-> sum, debt |-> debt, recovery |-> due]
  <1>1. /\ reserve[d] \in Account /\ n \in Nat /\ c \in Nat /\ sum \in Nat
        /\ reserve[d].debt \in Nat /\ CapacityOf(d) \in Nat /\ Floor(d) \in Nat
        /\ RecoverAfter \in Nat /\ RecoverAfter > 0
    <2>1. reserve[d] \in Account /\ n \in Nat
      BY ReserveParameters
    <2>2. c \in Nat /\ reserve[d].debt \in Nat
      BY <2>1, AccountFields
    <2> QED
      BY <2>1, <2>2, ReserveParameters, Capacities
  <1>2. /\ reserve' = [reserve EXCEPT ![d] = a] /\ reserveEpoch' = reserveEpoch
        /\ n <= CapacityOf(d) - c
    BY DEF Mobilize
  <1>3. sum <= CapacityOf(d)
    BY <1>1, <1>2
  <1>4. debt \in Nat
    <2> DEFINE room == AtLeastZero(CapacityOf(d) - Floor(d))
               x == Borrowed(d, sum)
               y == Borrowed(d, c)
    <2>1. room \in Nat
      BY <1>1 DEF AtLeastZero
    <2>2. x = (IF sum - room < 0 THEN 0 ELSE sum - room)
          /\ y = (IF c - room < 0 THEN 0 ELSE c - room)
      BY DEF Borrowed, AtLeastZero
    <2> HIDE DEF room, x, y
    <2>3. x \in Nat /\ y \in Nat /\ y <= x
      <3> HIDE DEF c
      <3> QED
        BY <1>1, <2>1, <2>2
    <2>4. debt = reserve[d].debt + x - y
      BY DEF x, y
    <2> QED
      BY <1>1, <2>3, <2>4
  <1>5. due \in Nat /\ reserveEpoch < due
    BY <1>1
  <1> HIDE DEF debt, sum, due
  <1>6. a \in Account /\ a.committed = sum /\ a.recovery = due
    BY <1>1, <1>4, <1>5 DEF Account
  <1> HIDE DEF a
  <1>7. /\ reserve' \in [Dims -> Account] /\ reserve'[d] = a
        /\ \A e \in Dims : e # d => reserve'[e] = reserve[e]
    BY <1>2, <1>6
  <1>8. \A e \in Dims : /\ reserve'[e].committed <= CapacityOf(e)
                        /\ reserve'[e].debt > 0 => reserveEpoch' < reserve'[e].recovery
    BY <1>2, <1>3, <1>5, <1>6, <1>7 DEF ReserveSound
  <1> QED
    BY <1>2, <1>7, <1>8, AccountsKeep

\* A debt whose epoch has come is written off as the epoch begins.
LEMMA AdvanceKeeps ==
    ASSUME ReserveInv, Advance
    PROVE  ReserveInv'
  <1> USE DEF ReserveInv
  <1> DEFINE e == reserveEpoch + 1
             s(d) == SettleDebt(reserve[d], e)
  <1>1. reserve' = [d \in Dims |-> s(d)] /\ reserveEpoch' = e /\ e \in Nat
    BY DEF Advance
  <1> HIDE DEF e
  <1>2. ASSUME NEW d \in Dims
        PROVE  /\ s(d) \in Account /\ s(d).committed = reserve[d].committed
               /\ s(d).debt > 0 => e < s(d).recovery
    <2>1. reserve[d] \in Account /\ reserve[d].recovery \in Nat
      BY AccountFields
    <2>2. CASE e >= reserve[d].recovery
      <3> DEFINE z == [reserve[d] EXCEPT !.debt = 0, !.recovery = 0]
      <3>1. s(d) = z
        BY <2>2 DEF SettleDebt
      <3>2. z \in Account /\ z.committed = reserve[d].committed /\ z.debt = 0
        BY <2>1 DEF Account
      <3> HIDE DEF z, s
      <3> QED
        BY <3>1, <3>2
    <2>3. CASE ~(e >= reserve[d].recovery)
      <3>1. s(d) = reserve[d]
        BY <2>3 DEF SettleDebt
      <3>2. e < reserve[d].recovery
        BY <1>1, <2>1, <2>3
      <3> HIDE DEF s
      <3> QED
        BY <2>1, <3>1, <3>2
    <2> QED
      BY <2>2, <2>3
  <1> HIDE DEF s
  <1>3. reserve' \in [Dims -> Account] /\ \A d \in Dims : reserve'[d] = s(d)
    BY <1>1, <1>2
  <1>4. \A d \in Dims : /\ reserve'[d].committed <= CapacityOf(d)
                        /\ reserve'[d].debt > 0 => reserveEpoch' < reserve'[d].recovery
    BY <1>1, <1>2, <1>3 DEF ReserveSound
  <1> QED
    BY <1>1, <1>3, <1>4, AccountsKeep

LEMMA ReserveStays ==
    ASSUME ReserveInv, UNCHANGED <<reserve, reserveEpoch>>
    PROVE  ReserveInv'
  BY DEF ReserveInv, ReserveSound, Available

LEMMA ReserveStep ==
    ASSUME ReserveInv, ReserveNext \/ BooksNext \/ UNCHANGED xvars
    PROVE  ReserveInv'
  <1>1. ASSUME NEW n, NEW c, Decide(n, c) PROVE ReserveInv'
    BY <1>1, ReserveStays DEF Decide
  <1>2. CASE ReserveNext
    BY <1>1, <1>2, CommitKeeps, ReleaseReserveKeeps, MobilizeKeeps, AdvanceKeeps DEF ReserveNext
  <1>3. CASE BooksNext
    BY <1>3, ReserveStays DEF BooksNext, RecordWaste, RecordReclaim, GrantReuse, GrantOverlap,
       SetBasis, RecordExact, RecordObservation, TakeTelemetry, Observe
  <1>4. CASE UNCHANGED xvars
    BY <1>4, ReserveStays DEF xvars
  <1> QED
    BY <1>2, <1>3, <1>4


-----------------------------------------------------------------------------
(* har-metabolism: the waste ledger, the two clocks and the telemetry       *)

Names == Identities \cup {""}
Named(id) == id # ""
Spending == [class : {"Useful", "Discarded", "Miss"}, identity : Names]
Ledger == [entries : Seq(Spending), useful : Nat, wasted : Nat, misses : Nat,
           reclaimed : SUBSET Names, reuse : SUBSET Names, overlap : SUBSET Names, credit : Nat]
Ticks == [fast : Nat, accepted : Nat, rejected : Nat, slow : Nat, window : Nat,
          samples : Nat, slowBasis : Bases \cup {"none"}, valid : BOOLEAN]
Row == [sequence : Nat, exact : Nat]
Collector == [exact : Nat, epoch : Nat, events : Seq(Row), dropped : Nat]

\* A ledger whose totals count its entries.
LedgerSound(l) ==
    /\ l \in Ledger
    /\ l.useful + l.wasted + l.misses = Len(l.entries)
    /\ \A s \in DOMAIN l.entries :
          l.entries[s].class = "Useful" => Named(l.entries[s].identity)

\* The credits, which the spending calls leave alone.
CreditSound(l) ==
    /\ IsFiniteSet(l.reuse \cup l.overlap)
    /\ l.credit = Cardinality(l.reuse \cup l.overlap)
    /\ l.reuse \subseteq l.reclaimed

\* A collector no row of which is ahead of the ledger l or the clock c.
CollectorSound(t, l, c) ==
    /\ t \in Collector
    /\ t.exact <= l.useful /\ t.epoch <= c.fast
    /\ \A i \in DOMAIN t.events :
          t.events[i].sequence <= c.fast /\ t.events[i].exact <= l.useful
    /\ \A i, j \in DOMAIN t.events : i < j =>
          /\ t.events[i].sequence < t.events[j].sequence
          /\ t.events[i].exact <= t.events[j].exact

\* The two counts of a clock are all its ticks.
ClockSound(c) == c \in Ticks /\ c.accepted + c.rejected = c.fast

BooksInv ==
    /\ owner \in {"runtime", "gate"} /\ basis \in Bases
    /\ LedgerSound(ledger) /\ CreditSound(ledger) /\ ClockSound(clock)
    /\ ledger.useful <= clock.accepted /\ (owner = "gate" => ledger.useful = clock.accepted)
    /\ CollectorSound(telemetry, ledger, clock)

LEMMA BooksImply == BooksInv => BooksAgree
  BY DEF BooksInv, BooksAgree, LedgerSound, CreditSound, ClockSound, CollectorSound, Credited,
     Reclaimable, Named

LEMMA EmptyCollector ==
    ASSUME NEW l, l.useful \in Nat, NEW c, c.fast \in Nat
    PROVE  CollectorSound(EmptyTelemetry, l, c)
  <1>1. EmptyTelemetry \in Collector
    BY DEF EmptyTelemetry, Collector
  <1>2. /\ EmptyTelemetry.exact = 0 /\ EmptyTelemetry.epoch = 0
        /\ DOMAIN EmptyTelemetry.events = {}
    BY DEF EmptyTelemetry
  <1> QED
    BY <1>1, <1>2 DEF CollectorSound

LEMMA BooksInit == XInit => BooksInv
  <1> SUFFICES ASSUME XInit PROVE BooksInv
    OBVIOUS
  <1>1. ledger = [entries |-> <<>>, useful |-> 0, wasted |-> 0, misses |-> 0,
                  reclaimed |-> {}, reuse |-> {}, overlap |-> {}, credit |-> 0]
    BY DEF XInit
  <1>2. clock = [fast |-> 0, accepted |-> 0, rejected |-> 0, slow |-> 0, window |-> 0,
                 samples |-> 0, slowBasis |-> "none", valid |-> FALSE]
    BY DEF XInit
  <1>3. /\ ledger \in Ledger /\ ledger.entries = <<>> /\ ledger.useful = 0 /\ ledger.wasted = 0
        /\ ledger.misses = 0 /\ ledger.reuse = {} /\ ledger.overlap = {} /\ ledger.credit = 0
        /\ ledger.reclaimed = {}
    BY <1>1 DEF Ledger, Spending
  <1>4. clock \in Ticks /\ clock.fast = 0 /\ clock.accepted = 0 /\ clock.rejected = 0
    BY <1>2 DEF Ticks
  <1>5. LedgerSound(ledger)
    BY <1>3 DEF LedgerSound
  <1>6. CreditSound(ledger)
    <2>1. ledger.reuse \cup ledger.overlap = {}
      BY <1>3
    <2> QED
      BY <1>3, <2>1, FS_EmptySet DEF CreditSound
  <1>7. CollectorSound(telemetry, ledger, clock)
    BY <1>3, <1>4, EmptyCollector DEF XInit
  <1> QED
    BY <1>3, <1>4, <1>5, <1>6, <1>7 DEF BooksInv, ClockSound, XInit

LEMMA LedgerFields ==
    ASSUME NEW l \in Ledger
    PROVE  /\ l.entries \in Seq(Spending) /\ Len(l.entries) \in Nat
           /\ l.useful \in Nat /\ l.wasted \in Nat /\ l.misses \in Nat /\ l.credit \in Nat
           /\ l.reclaimed \in SUBSET Names /\ l.reuse \in SUBSET Names
           /\ l.overlap \in SUBSET Names
  <1>1. /\ l.entries \in Seq(Spending)
        /\ l.useful \in Nat /\ l.wasted \in Nat /\ l.misses \in Nat /\ l.credit \in Nat
        /\ l.reclaimed \in SUBSET Names /\ l.reuse \in SUBSET Names
        /\ l.overlap \in SUBSET Names
    BY DEF Ledger
  <1> QED
    BY <1>1

\* What appending one element does to a log.
LEMMA Appended ==
    ASSUME NEW T, NEW log \in Seq(T), NEW item \in T
    PROVE  LET more == Append(log, item) IN
           /\ more \in Seq(T) /\ Len(log) \in Nat /\ Len(more) = Len(log) + 1
           /\ DOMAIN log = 1..Len(log) /\ DOMAIN more = 1..(Len(log) + 1)
           /\ more[Len(log) + 1] = item
           /\ \A s \in 1..Len(log) : more[s] = log[s]
  OBVIOUS

\* One of three totals grows by one.
LEMMA OneOfThree ==
    ASSUME NEW class, class = "Useful" \/ class = "Discarded" \/ class = "Miss",
           NEW u \in Nat, NEW w \in Nat, NEW m \in Nat
    PROVE  LET u1 == u + (IF class = "Useful" THEN 1 ELSE 0)
               w1 == w + (IF class = "Discarded" THEN 1 ELSE 0)
               m1 == m + (IF class = "Miss" THEN 1 ELSE 0)
           IN u1 \in Nat /\ w1 \in Nat /\ m1 \in Nat /\ u1 + w1 + m1 = u + w + m + 1
  OBVIOUS

\* Spending adds one entry, and one to its total.
LEMMA SpentKeeps ==
    ASSUME LedgerSound(ledger), CreditSound(ledger), NEW class, NEW id \in Names,
           class = "Useful" \/ class = "Discarded" \/ class = "Miss",
           class = "Useful" => Named(id)
    PROVE  LET l == Spent(class, id) IN
           /\ LedgerSound(l) /\ CreditSound(l)
           /\ l.useful = ledger.useful + (IF class = "Useful" THEN 1 ELSE 0)
  <1> DEFINE item == [class |-> class, identity |-> id]
             log == ledger.entries
             more == Append(log, item)
             u == ledger.useful + (IF class = "Useful" THEN 1 ELSE 0)
             w == ledger.wasted + (IF class = "Discarded" THEN 1 ELSE 0)
             m == ledger.misses + (IF class = "Miss" THEN 1 ELSE 0)
             l == [ledger EXCEPT !.entries = more, !.useful = u, !.wasted = w, !.misses = m]
  <1>1. /\ ledger \in Ledger /\ log \in Seq(Spending)
        /\ ledger.useful \in Nat /\ ledger.wasted \in Nat /\ ledger.misses \in Nat
        /\ ledger.useful + ledger.wasted + ledger.misses = Len(log)
    BY LedgerFields DEF LedgerSound
  <1>2. item \in Spending /\ item.class = class /\ item.identity = id
    BY DEF Spending
  <1>3. Spent(class, id) = l
    BY <1>1 DEF Spent
  <1>4. /\ more \in Seq(Spending) /\ Len(log) \in Nat /\ Len(more) = Len(log) + 1
        /\ DOMAIN log = 1..Len(log) /\ DOMAIN more = 1..(Len(log) + 1)
        /\ more[Len(log) + 1] = item
        /\ \A s \in 1..Len(log) : more[s] = log[s]
    <2> HIDE DEF item, log
    <2> QED
      BY <1>1, <1>2, Appended
  <1>5. u \in Nat /\ w \in Nat /\ m \in Nat /\ u + w + m = Len(more)
    <2>1. /\ u \in Nat /\ w \in Nat /\ m \in Nat
          /\ u + w + m = ledger.useful + ledger.wasted + ledger.misses + 1
      BY <1>1, OneOfThree
    <2> HIDE DEF log, more, u, w, m
    <2> QED
      BY <1>1, <1>4, <2>1
  <1>6. \A q \in 1..Len(log) : log[q].class = "Useful" => Named(log[q].identity)
    BY <1>4 DEF LedgerSound
  <1> HIDE DEF item, log, more, u, w, m
  <1>7. /\ l \in Ledger /\ l.entries = more /\ l.useful = u /\ l.wasted = w
        /\ l.misses = m /\ l.reclaimed = ledger.reclaimed /\ l.reuse = ledger.reuse
        /\ l.overlap = ledger.overlap /\ l.credit = ledger.credit
    BY <1>1, <1>4, <1>5 DEF Ledger
  <1> HIDE DEF l
  <1>8. \A s \in DOMAIN more : more[s].class = "Useful" => Named(more[s].identity)
    <2>1. \A s \in DOMAIN more : s \in 1..Len(log) \/ s = Len(log) + 1
      BY <1>4
    <2> QED
      BY <1>2, <1>4, <1>6, <2>1
  <1>9. LedgerSound(l)
    BY <1>4, <1>5, <1>7, <1>8 DEF LedgerSound
  <1>10. CreditSound(l)
    BY <1>7 DEF CreditSound
  <1> QED
    BY <1>3, <1>7, <1>9, <1>10 DEF u

\* One observation is one tick, accepted or rejected.
LEMMA TickedKeeps ==
    ASSUME ClockSound(clock), basis \in Bases, NEW useful \in BOOLEAN
    PROVE  LET c == Ticked(useful) IN
           /\ ClockSound(c) /\ c.fast = clock.fast + 1 /\ clock.fast \in Nat
           /\ c.accepted = clock.accepted + (IF useful THEN 1 ELSE 0)
  <1> DEFINE fresh == clock.slowBasis # basis
             count == (IF fresh THEN 0 ELSE clock.window) + 1
             window == IF count >= SlowWindow THEN 0 ELSE count
             samples == (IF fresh THEN 0 ELSE clock.samples) + 1
             accepted == clock.accepted + IF useful THEN 1 ELSE 0
             rejected == clock.rejected + IF useful THEN 0 ELSE 1
             fast == clock.fast + 1
             slow == clock.slow + 1
             valid == clock.valid \/ fresh
             c == [clock EXCEPT !.fast = fast, !.accepted = accepted, !.rejected = rejected,
                                !.slow = slow, !.slowBasis = basis, !.valid = valid,
                                !.samples = samples, !.window = window]
  <1>1. /\ clock \in Ticks /\ clock.fast \in Nat /\ clock.accepted \in Nat /\ clock.rejected \in Nat
        /\ clock.slow \in Nat /\ clock.window \in Nat /\ clock.samples \in Nat
        /\ clock.valid \in BOOLEAN /\ clock.accepted + clock.rejected = clock.fast
    BY DEF ClockSound, Ticks
  <1>2. Ticked(useful) = c
    BY <1>1 DEF Ticked
  <1>3. /\ fast \in Nat /\ accepted \in Nat /\ rejected \in Nat /\ slow \in Nat
        /\ accepted + rejected = fast
    BY <1>1
  <1>4. window \in Nat /\ samples \in Nat /\ valid \in BOOLEAN
    <2> HIDE DEF fresh
    <2>1. count \in Nat /\ samples \in Nat
      BY <1>1
    <2> HIDE DEF count, samples
    <2> QED
      BY <1>1, <2>1
  <1> HIDE DEF fast, accepted, rejected, slow, window, samples, valid
  <1>5. c \in Ticks /\ c.fast = fast /\ c.accepted = accepted /\ c.rejected = rejected
    BY <1>1, <1>3, <1>4 DEF Ticks
  <1> QED
    BY <1>1, <1>2, <1>3, <1>5 DEF ClockSound, fast, accepted

\* A snapshot is later than every row before it.
LEMMA ReportKeeps ==
    ASSUME NEW l, NEW c, CollectorSound(telemetry, ledger, clock),
           l.useful \in Nat, ledger.useful \in Nat, l.useful >= ledger.useful,
           clock.fast \in Nat, c.fast = clock.fast + 1
    PROVE  CollectorSound(Report(l, c), l, c)
  <1> DEFINE t == telemetry
             full == Len(t.events) = EventCapacity
             row == [sequence |-> c.fast, exact |-> l.useful]
             events == IF full THEN t.events ELSE Append(t.events, row)
             dropped == t.dropped + IF full THEN 1 ELSE 0
             r == [exact |-> l.useful, epoch |-> c.fast, events |-> events, dropped |-> dropped]
  <1>1. /\ t \in Collector /\ t.events \in Seq(Row) /\ Len(t.events) \in Nat /\ t.dropped \in Nat
        /\ \A i \in DOMAIN t.events :
              t.events[i].sequence <= clock.fast /\ t.events[i].exact <= ledger.useful
    <2>1. t \in Collector
      BY DEF CollectorSound
    <2>2. t.events \in Seq(Row) /\ t.dropped \in Nat
      BY <2>1 DEF Collector
    <2>3. Len(t.events) \in Nat
      BY <2>2
    <2> QED
      BY <2>1, <2>2, <2>3 DEF CollectorSound
  <1>2. Report(l, c) = r
    BY DEF Report
  <1>3. row \in Row /\ row.sequence = c.fast /\ row.exact = l.useful /\ c.fast \in Nat
    BY DEF Row
  <1> HIDE DEF row
  <1>4. /\ events \in Seq(Row) /\ dropped \in Nat
        /\ DOMAIN t.events = 1..Len(t.events)
        /\ \A i \in DOMAIN events :
              \/ i \in DOMAIN t.events /\ events[i] = t.events[i]
              \/ i = Len(t.events) + 1 /\ events[i] = row
    <2>1. CASE full
      BY <1>1, <2>1
    <2>2. CASE ~full
      <3> DEFINE more == Append(t.events, row)
      <3>1. /\ more \in Seq(Row) /\ DOMAIN more = 1..(Len(t.events) + 1)
            /\ more[Len(t.events) + 1] = row /\ DOMAIN t.events = 1..Len(t.events)
            /\ \A i \in 1..Len(t.events) : more[i] = t.events[i]
        BY <1>1, <1>3
      <3>2. events = more /\ dropped \in Nat
        BY <1>1, <2>2
      <3> HIDE DEF more, events, dropped
      <3> QED
        BY <1>1, <3>1, <3>2
    <2> QED
      BY <2>1, <2>2
  <1> HIDE DEF events, dropped, full, t
  <1>5. r \in Collector /\ r.exact = l.useful /\ r.epoch = c.fast /\ r.events = events
    BY <1>3, <1>4 DEF Collector
  <1> HIDE DEF r
  <1>6. \A i \in DOMAIN t.events : t.events[i].sequence \in Nat /\ t.events[i].exact \in Nat
    <2> SUFFICES ASSUME NEW i \in DOMAIN t.events
                 PROVE  t.events[i].sequence \in Nat /\ t.events[i].exact \in Nat
      OBVIOUS
    <2>1. t.events[i] \in Row
      BY <1>1
    <2> QED
      BY <2>1 DEF Row
  <1>7. ASSUME NEW i \in DOMAIN events
        PROVE  events[i].sequence <= c.fast /\ events[i].exact <= l.useful
    <2>1. CASE i \in DOMAIN t.events /\ events[i] = t.events[i]
      <3>1. /\ t.events[i].sequence \in Nat /\ t.events[i].exact \in Nat
            /\ t.events[i].sequence <= clock.fast /\ t.events[i].exact <= ledger.useful
        BY <1>1, <1>6, <2>1 DEF CollectorSound, t
      <3> QED
        BY <2>1, <3>1
    <2>2. CASE events[i] = row
      BY <1>3, <2>2
    <2> QED
      BY <1>4, <2>1, <2>2
  <1>8. ASSUME NEW i \in DOMAIN events, NEW j \in DOMAIN events, i < j
        PROVE  events[i].sequence < events[j].sequence /\ events[i].exact <= events[j].exact
    <2>1. i \in DOMAIN t.events /\ events[i] = t.events[i]
      BY <1>1, <1>4, <1>8
    <2>2. CASE j \in DOMAIN t.events /\ events[j] = t.events[j]
      BY <1>8, <2>1, <2>2 DEF CollectorSound, t
    <2>3. CASE events[j] = row
      BY <1>1, <1>3, <1>6, <2>1, <2>3
    <2> QED
      BY <1>4, <1>8, <2>2, <2>3
  <1>9. l.useful <= l.useful /\ c.fast <= c.fast
    BY <1>3
  <1> QED
    BY <1>2, <1>5, <1>7, <1>8, <1>9 DEF CollectorSound

\* A collector behind a ledger and a clock is behind every later pair.
LEMMA RowsStay ==
    ASSUME NEW t, NEW l, NEW c, CollectorSound(t, l, c), l.useful \in Nat, c.fast \in Nat,
           NEW l2, NEW c2, l2.useful \in Nat, l.useful <= l2.useful,
           c2.fast \in Nat, c.fast <= c2.fast
    PROVE  CollectorSound(t, l2, c2)
  <1>1. /\ t \in Collector /\ t.exact \in Nat /\ t.epoch \in Nat /\ t.events \in Seq(Row)
        /\ t.exact <= l.useful /\ t.epoch <= c.fast
    BY DEF CollectorSound, Collector
  <1>2. t.exact <= l2.useful /\ t.epoch <= c2.fast
    BY <1>1
  <1>3. ASSUME NEW i \in DOMAIN t.events
        PROVE  t.events[i].sequence <= c2.fast /\ t.events[i].exact <= l2.useful
    <2>1. t.events[i] \in Row
      BY <1>1
    <2>2. t.events[i].sequence \in Nat /\ t.events[i].exact \in Nat
      BY <2>1 DEF Row
    <2>3. t.events[i].sequence <= c.fast /\ t.events[i].exact <= l.useful
      BY DEF CollectorSound
    <2> QED
      BY <2>2, <2>3
  <1> QED
    BY <1>1, <1>2, <1>3 DEF CollectorSound

\* What the spending calls need of a ledger.
LEMMA BooksFacts ==
    ASSUME BooksInv
    PROVE  /\ ledger.useful \in Nat /\ clock.fast \in Nat /\ clock.accepted \in Nat
           /\ LedgerSound(ledger) /\ CreditSound(ledger) /\ ClockSound(clock)
           /\ ledger.useful <= clock.accepted
           /\ CollectorSound(telemetry, ledger, clock)
  <1>1. LedgerSound(ledger) /\ CreditSound(ledger) /\ ClockSound(clock)
    BY DEF BooksInv
  <1>2. ledger.useful \in Nat
    BY <1>1, LedgerFields DEF LedgerSound
  <1>3. clock.fast \in Nat /\ clock.accepted \in Nat
    BY <1>1 DEF ClockSound, Ticks
  <1> QED
    BY <1>1, <1>2, <1>3 DEF BooksInv

LEMMA BooksStay ==
    ASSUME BooksInv, UNCHANGED <<owner, basis, ledger, clock, telemetry>>
    PROVE  BooksInv'
  BY DEF BooksInv

LEMMA WasteKeeps ==
    ASSUME BooksInv, NEW class, class = "Discarded" \/ class = "Miss",
           NEW id \in Identities, RecordWaste(class, id)
    PROVE  BooksInv'
  <1>1. /\ ledger' = Spent(class, id)
        /\ UNCHANGED <<owner, basis, clock, telemetry>>
    BY DEF RecordWaste
  <1>2. id \in Names /\ class # "Useful"
    BY DEF Names
  <1>3. LedgerSound(ledger') /\ CreditSound(ledger') /\ ledger'.useful = ledger.useful + 0
    BY <1>1, <1>2, SpentKeeps, BooksFacts
  <1>4. ledger'.useful = ledger.useful
    BY <1>3, BooksFacts
  <1>5. CollectorSound(telemetry', ledger', clock')
    BY <1>1, <1>4, BooksFacts, RowsStay
  <1> QED
    BY <1>1, <1>3, <1>4, <1>5 DEF BooksInv

\* The reclaims and the credits leave the entries and their totals alone.
LEMMA CreditKeeps ==
    ASSUME BooksInv, NEW id \in Names, RecordReclaim(id) \/ GrantReuse(id) \/ GrantOverlap(id)
    PROVE  BooksInv'
  <1>1. ledger \in Ledger
    BY BooksFacts DEF LedgerSound
  <1>2. UNCHANGED <<owner, basis, clock, telemetry>>
    BY Zenon DEF RecordReclaim, GrantReuse, GrantOverlap
  <1>3. /\ ledger' \in Ledger /\ ledger'.entries = ledger.entries
        /\ ledger'.useful = ledger.useful /\ ledger'.wasted = ledger.wasted
        /\ ledger'.misses = ledger.misses
        /\ CreditSound(ledger')
    <2> DEFINE all == ledger.reuse \cup ledger.overlap
    <2>1. /\ IsFiniteSet(all) /\ ledger.credit = Cardinality(all) /\ ledger.credit \in Nat
          /\ ledger.reuse \subseteq ledger.reclaimed
          /\ ledger.reclaimed \in SUBSET Names /\ ledger.reuse \in SUBSET Names
          /\ ledger.overlap \in SUBSET Names
      BY <1>1, LedgerFields, BooksFacts DEF CreditSound
    <2>2. ASSUME id \notin all
          PROVE  IsFiniteSet(all \cup {id}) /\ Cardinality(all \cup {id}) = ledger.credit + 1
      BY <2>1, <2>2, FS_AddElement
    <2>3. CASE RecordReclaim(id)
      <3>1. ledger' = [ledger EXCEPT !.reclaimed = @ \cup {id}]
        BY <2>3, Zenon DEF RecordReclaim
      <3>2. /\ ledger' \in Ledger /\ ledger'.entries = ledger.entries
            /\ ledger'.useful = ledger.useful /\ ledger'.wasted = ledger.wasted
            /\ ledger'.misses = ledger.misses /\ ledger'.reuse = ledger.reuse
            /\ ledger'.overlap = ledger.overlap /\ ledger'.credit = ledger.credit
            /\ ledger'.reclaimed = ledger.reclaimed \cup {id}
        BY <1>1, <3>1 DEF Ledger
      <3> QED
        BY <2>1, <3>2 DEF CreditSound
    <2>4. CASE GrantReuse(id)
      <3> DEFINE more == ledger.reuse \cup {id}
                 sum == ledger.credit + 1
      <3>1. /\ ledger' = [ledger EXCEPT !.reuse = more, !.credit = sum]
            /\ id \in ledger.reclaimed /\ id \notin all
        BY <2>4, Zenon DEF GrantReuse, Credited
      <3>5. more \in SUBSET Names /\ sum \in Nat
        BY <2>1
      <3> HIDE DEF more, sum
      <3>6. /\ ledger' \in Ledger /\ ledger'.entries = ledger.entries
            /\ ledger'.useful = ledger.useful /\ ledger'.wasted = ledger.wasted
            /\ ledger'.misses = ledger.misses /\ ledger'.reuse = more
            /\ ledger'.overlap = ledger.overlap /\ ledger'.credit = sum
            /\ ledger'.reclaimed = ledger.reclaimed
        BY <1>1, <3>1, <3>5 DEF Ledger
      <3>2. ledger'.reuse = ledger.reuse \cup {id} /\ ledger'.credit = ledger.credit + 1
        BY <3>6 DEF more, sum
      <3>3. ledger'.reuse \cup ledger'.overlap = all \cup {id}
        BY <3>2, <3>6
      <3>4. IsFiniteSet(all \cup {id}) /\ Cardinality(all \cup {id}) = ledger.credit + 1
        BY <2>2, <3>1
      <3> HIDE DEF all
      <3> QED
        BY <2>1, <3>1, <3>2, <3>3, <3>4, <3>6 DEF CreditSound
    <2>5. CASE GrantOverlap(id)
      <3> DEFINE more == ledger.overlap \cup {id}
                 sum == ledger.credit + 1
      <3>1. /\ ledger' = [ledger EXCEPT !.overlap = more, !.credit = sum]
            /\ id \notin all
        BY <2>5, Zenon DEF GrantOverlap, Credited
      <3>5. more \in SUBSET Names /\ sum \in Nat
        BY <2>1
      <3> HIDE DEF more, sum
      <3>6. /\ ledger' \in Ledger /\ ledger'.entries = ledger.entries
            /\ ledger'.useful = ledger.useful /\ ledger'.wasted = ledger.wasted
            /\ ledger'.misses = ledger.misses /\ ledger'.overlap = more
            /\ ledger'.reuse = ledger.reuse /\ ledger'.credit = sum
            /\ ledger'.reclaimed = ledger.reclaimed
        BY <1>1, <3>1, <3>5 DEF Ledger
      <3>2. ledger'.overlap = ledger.overlap \cup {id} /\ ledger'.credit = ledger.credit + 1
        BY <3>6 DEF more, sum
      <3>3. ledger'.reuse \cup ledger'.overlap = all \cup {id}
        BY <3>2, <3>6
      <3>4. IsFiniteSet(all \cup {id}) /\ Cardinality(all \cup {id}) = ledger.credit + 1
        BY <2>2, <3>1
      <3> HIDE DEF all
      <3> QED
        BY <2>1, <3>1, <3>2, <3>3, <3>4, <3>6 DEF CreditSound
    <2> QED
      BY <2>3, <2>4, <2>5
  <1>4. LedgerSound(ledger')
    BY <1>3, BooksFacts DEF LedgerSound
  <1>5. CollectorSound(telemetry', ledger', clock')
    BY <1>2, <1>3, BooksFacts, RowsStay
  <1> QED
    BY <1>2, <1>3, <1>4, <1>5 DEF BooksInv

LEMMA BasisKeeps ==
    ASSUME BooksInv, NEW b \in Bases, SetBasis(b)
    PROVE  BooksInv'
  <1>1. /\ clock' = [clock EXCEPT !.valid = FALSE, !.window = 0, !.samples = 0]
        /\ basis' = b /\ UNCHANGED <<owner, ledger, telemetry>>
    BY DEF SetBasis
  <1>2. clock \in Ticks /\ clock.accepted + clock.rejected = clock.fast
    BY BooksFacts DEF ClockSound
  <1>3. /\ clock' \in Ticks /\ clock'.fast = clock.fast
        /\ clock'.accepted = clock.accepted /\ clock'.rejected = clock.rejected
    BY <1>1, <1>2 DEF Ticks
  <1>4. ClockSound(clock')
    BY <1>2, <1>3 DEF ClockSound
  <1>6. /\ ledger'.useful \in Nat /\ clock'.fast \in Nat
        /\ ledger.useful <= ledger'.useful /\ clock.fast <= clock'.fast
    BY <1>1, <1>3, BooksFacts
  <1>5. CollectorSound(telemetry', ledger', clock')
    BY <1>1, <1>6, BooksFacts, RowsStay
  <1> QED
    BY <1>1, <1>3, <1>4, <1>5 DEF BooksInv

\* An exact token is spent and observed in one call.
LEMMA ExactKeeps ==
    ASSUME BooksInv, NEW id \in Names, Named(id), clock' = Ticked(TRUE),
           ledger' = Spent("Useful", id), UNCHANGED <<owner, basis>>
    PROVE  /\ LedgerSound(ledger') /\ CreditSound(ledger') /\ ClockSound(clock')
           /\ ledger'.useful = ledger.useful + 1 /\ clock'.fast = clock.fast + 1
           /\ ledger'.useful \in Nat /\ clock'.fast \in Nat
           /\ ledger'.useful <= clock'.accepted
           /\ (owner = "gate" => ledger'.useful = clock'.accepted)
  <1>1. /\ LedgerSound(ledger') /\ CreditSound(ledger')
        /\ ledger'.useful = ledger.useful + 1
    BY SpentKeeps, BooksFacts
  <1>2. /\ ClockSound(clock') /\ clock'.fast = clock.fast + 1
        /\ clock'.accepted = clock.accepted + 1
    BY TickedKeeps, BooksFacts DEF BooksInv
  <1>3. owner = "gate" => ledger.useful = clock.accepted
    BY DEF BooksInv
  <1>4. /\ ledger'.useful \in Nat /\ clock'.fast \in Nat /\ ledger'.useful <= clock'.accepted
        /\ (owner = "gate" => ledger'.useful = clock'.accepted)
    <2> DEFINE u == ledger.useful
               a == clock.accepted
               f == clock.fast
               v == ledger'.useful
               b == clock'.accepted
               g == clock'.fast
    <2>1. /\ u \in Nat /\ a \in Nat /\ f \in Nat /\ u <= a /\ (owner = "gate" => u = a)
          /\ v = u + 1 /\ g = f + 1 /\ b = a + 1
      BY <1>1, <1>2, <1>3, BooksFacts
    <2> HIDE DEF u, a, f, v, b, g
    <2>2. v \in Nat /\ g \in Nat /\ v <= b /\ (owner = "gate" => v = b)
      BY <2>1
    <2> QED
      BY <2>2 DEF v, b, g
  <1> QED
    BY <1>1, <1>2, <1>4

LEMMA RecordExactKeeps ==
    ASSUME BooksInv, NEW id \in Names, RecordExact(id)
    PROVE  BooksInv'
  <1>1. /\ owner = "runtime" /\ Named(id) /\ ledger' = Spent("Useful", id)
        /\ clock' = Ticked(TRUE) /\ telemetry' = Report(ledger', clock')
        /\ UNCHANGED <<owner, basis>>
    BY Zenon DEF RecordExact, Named
  <1>2. /\ LedgerSound(ledger') /\ CreditSound(ledger') /\ ClockSound(clock')
        /\ ledger'.useful = ledger.useful + 1 /\ clock'.fast = clock.fast + 1
        /\ ledger'.useful \in Nat /\ ledger'.useful <= clock'.accepted
    BY <1>1, ExactKeeps
  <1>3. ledger'.useful >= ledger.useful
    BY <1>2, BooksFacts
  <1>4. CollectorSound(telemetry', ledger', clock')
    BY <1>1, <1>2, <1>3, BooksFacts, ReportKeeps
  <1> QED
    BY <1>1, <1>2, <1>4 DEF BooksInv

LEMMA ObservationKeeps ==
    ASSUME BooksInv, NEW useful \in BOOLEAN, RecordObservation(useful)
    PROVE  BooksInv'
  <1>1. /\ owner = "runtime" /\ clock' = Ticked(useful)
        /\ telemetry' = Report(ledger, clock') /\ UNCHANGED <<owner, basis, ledger>>
    BY DEF RecordObservation
  <1>2. /\ ClockSound(clock') /\ clock'.fast = clock.fast + 1
        /\ clock'.accepted = clock.accepted + (IF useful THEN 1 ELSE 0)
    BY <1>1, TickedKeeps, BooksFacts DEF BooksInv
  <1>3. ledger.useful <= clock'.accepted /\ ledger.useful >= ledger.useful
    BY <1>2, BooksFacts
  <1>4. CollectorSound(telemetry', ledger', clock')
    BY <1>1, <1>2, <1>3, BooksFacts, ReportKeeps
  <1> QED
    BY <1>1, <1>2, <1>3, <1>4, BooksFacts DEF BooksInv

LEMMA TakeKeeps ==
    ASSUME BooksInv, TakeTelemetry
    PROVE  BooksInv'
  <1>1. UNCHANGED <<owner, basis, ledger, clock>> /\ telemetry' = EmptyTelemetry
    BY DEF TakeTelemetry
  <1>2. CollectorSound(telemetry', ledger', clock')
    BY <1>1, EmptyCollector, BooksFacts
  <1> QED
    BY <1>1, <1>2 DEF BooksInv

LEMMA ObserveKeeps ==
    ASSUME BooksInv, NEW exact \in BOOLEAN, NEW id \in Names, Observe(exact, id)
    PROVE  BooksInv'
  <1>1. /\ owner = "gate" /\ (exact => Named(id))
        /\ ledger' = IF exact THEN Spent("Useful", id) ELSE ledger
        /\ clock' = Ticked(exact) /\ UNCHANGED <<owner, basis, telemetry>>
    BY Zenon DEF Observe, Named
  <1>2. CASE exact
    <2>5. exact = TRUE
      BY <1>2
    <2>7. ledger' = Spent("Useful", id) /\ Named(id)
      BY <1>1, <1>2
    <2>8. clock' = Ticked(exact)
      BY <1>1
    <2>1. /\ ledger' = Spent("Useful", id) /\ clock' = Ticked(TRUE) /\ Named(id)
      BY <2>5, <2>7, <2>8
    <2>6. UNCHANGED <<owner, basis>> /\ UNCHANGED telemetry
      BY <1>1
    <2>2. /\ LedgerSound(ledger') /\ CreditSound(ledger') /\ ClockSound(clock')
          /\ ledger'.useful = ledger.useful + 1 /\ clock'.fast = clock.fast + 1
          /\ ledger'.useful \in Nat /\ ledger'.useful <= clock'.accepted
          /\ clock'.fast \in Nat /\ (owner = "gate" => ledger'.useful = clock'.accepted)
      BY <2>1, <2>6, ExactKeeps
    <2>3. ledger'.useful >= ledger.useful /\ clock'.fast >= clock.fast
      BY <2>2, BooksFacts
    <2>4. CollectorSound(telemetry', ledger', clock')
      BY <1>1, <2>2, <2>3, BooksFacts, RowsStay
    <2> QED
      BY <1>1, <2>2, <2>4 DEF BooksInv
  <1>3. CASE ~exact
    <2>5. exact = FALSE
      BY <1>3
    <2>1. ledger' = ledger /\ clock' = Ticked(FALSE)
      BY <1>1, <2>5, Zenon
    <2>2. /\ ClockSound(clock') /\ clock'.fast = clock.fast + 1
          /\ clock'.accepted = clock.accepted + 0
      BY <2>1, TickedKeeps, BooksFacts DEF BooksInv
    <2>3. /\ clock'.accepted = clock.accepted /\ clock'.fast \in Nat
          /\ clock'.fast >= clock.fast /\ ledger.useful <= ledger.useful
      BY <2>2, BooksFacts
    <2>4. CollectorSound(telemetry', ledger', clock')
      BY <1>1, <2>1, <2>2, <2>3, BooksFacts, RowsStay
    <2> QED
      BY <1>1, <2>1, <2>2, <2>3, <2>4, BooksFacts DEF BooksInv
  <1> QED
    BY <1>2, <1>3

LEMMA BooksStep ==
    ASSUME BooksInv, ReserveNext \/ BooksNext \/ UNCHANGED xvars
    PROVE  BooksInv'
  <1>1. CASE ReserveNext
    BY <1>1, BooksStay, Zenon DEF ReserveNext, Commit, ReleaseReserve, Mobilize, Advance, Decide
  <1>2. CASE BooksNext
    <2>1. \A id \in Identities : id \in Names
      BY DEF Names
    <2> QED
      BY <1>2, <2>1, WasteKeeps, CreditKeeps, BasisKeeps, RecordExactKeeps, ObservationKeeps,
         TakeKeeps, ObserveKeeps, Zenon DEF BooksNext, Names
  <1>3. CASE UNCHANGED xvars
    BY <1>3, BooksStay DEF xvars
  <1> QED
    BY <1>1, <1>2, <1>3

-----------------------------------------------------------------------------
(* har-memory: the pinned pool                                              *)

Stop(h) == h.offset + RoundUp(h.bytes)

\* Two blocks are apart when at least one byte lies between them; a block and
\* a reservation, or two reservations, may touch.
Apart(f, g) == f.end < g.start \/ g.end < f.start
FreeSound(F) ==
    /\ F \subseteq Block /\ \A f \in F : f.start < f.end
    /\ \A f, g \in F : f # g => Apart(f, g)
UsedSound(U) ==
    /\ U \subseteq Handle
    /\ \A h \in U : Stop(h) <= PoolBytes /\ h.offset % Alignment = 0
    /\ \A h, k \in U : h # k => Stop(h) <= k.offset \/ Stop(k) <= h.offset
Separate(F, U) == \A f \in F, h \in U : f.end <= h.offset \/ Stop(h) <= f.start
InFree(F, x) == \E f \in F : f.start <= x /\ x < f.end
InUsed(U, x) == \E h \in U : h.offset <= x /\ x < Stop(h)
Covered(F, U) == \A x \in 0..(PoolBytes - 1) : InFree(F, x) \/ InUsed(U, x)

PoolInv ==
    /\ issued \subseteq Handle /\ inUse \subseteq issued /\ IsFiniteSet(issued)
    /\ FreeSound(free) /\ UsedSound(inUse) /\ Separate(free, inUse) /\ Covered(free, inUse)

LEMMA PoolParameters ==
    /\ PoolBytes \in Nat /\ PoolBytes > 0 /\ Alignment \in Nat /\ Alignment > 0
    /\ MaxHandles \in Nat /\ \A b \in Requests : b \in Nat /\ b > 0
  BY PoolAssumption

LEMMA BlockFields ==
    ASSUME NEW f \in Block
    PROVE  f.start \in Nat /\ f.end \in Nat /\ f.end <= PoolBytes
  BY PoolParameters DEF Block

\* Rounding up to the alignment.
LEMMA MultipleOf ==
    ASSUME NEW a \in Nat \ {0}, NEW q \in Nat
    PROVE  (q * a) % a = 0
  OBVIOUS

LEMMA Rounded ==
    ASSUME NEW b \in Requests
    PROVE  RoundUp(b) \in Nat /\ RoundUp(b) > 0
  <1> DEFINE q == (b + Alignment - 1) \div Alignment
  <1>1. Alignment \in Nat \ {0} /\ b \in Nat \ {0}
    BY PoolParameters
  <1>2. q \in Nat /\ q > 0
    BY <1>1
  <1> HIDE DEF q
  <1>3. q * Alignment \in Nat /\ q * Alignment > 0
    BY <1>1, <1>2
  <1> QED
    BY <1>3 DEF RoundUp, q

\* Misalign takes a start to the next aligned offset.
LEMMA Aligned ==
    ASSUME NEW s \in Nat
    PROVE  Misalign(s) \in Nat /\ (s + Misalign(s)) % Alignment = 0
  <1> DEFINE a == Alignment
             q == s \div a
             r == s % a
  <1>1. a \in Nat \ {0}
    BY PoolParameters
  <1>2. q \in Nat /\ r \in 0..(a - 1) /\ s = (q * a) + r
    BY <1>1
  <1>3. Misalign(s) = (a - r) % a
    BY DEF Misalign
  <1> HIDE DEF a, q, r
  <1>4. CASE r = 0
    <2>1. Misalign(s) = 0 /\ s = q * a
      BY <1>1, <1>2, <1>3, <1>4
    <2>2. s + Misalign(s) = q * a
      BY <1>1, <1>2, <2>1
    <2> QED
      BY <1>1, <1>2, <2>1, <2>2, MultipleOf DEF a
  <1>5. CASE r # 0
    <2>1. Misalign(s) = a - r /\ a - r \in Nat
      BY <1>1, <1>2, <1>3, <1>5
    <2>2. s + Misalign(s) = (q + 1) * a /\ q + 1 \in Nat
      BY <1>1, <1>2, <2>1
    <2> QED
      BY <1>1, <2>1, <2>2, MultipleOf DEF a
  <1> QED
    BY <1>4, <1>5

LEMMA HandleFields ==
    ASSUME NEW h \in Handle
    PROVE  h.offset \in Nat /\ Stop(h) \in Nat /\ h.offset < Stop(h)
  <1>1. h.offset \in Nat /\ h.bytes \in Requests
    BY PoolParameters DEF Handle
  <1>2. RoundUp(h.bytes) \in Nat /\ RoundUp(h.bytes) > 0
    BY <1>1, Rounded
  <1> QED
    BY <1>1, <1>2 DEF Stop

LEMMA PoolInit == PInit => PoolInv
  <1> SUFFICES ASSUME PInit PROVE PoolInv
    OBVIOUS
  <1> DEFINE all == [start |-> 0, end |-> PoolBytes]
  <1>1. free = {all} /\ inUse = {} /\ issued = {}
    BY DEF PInit
  <1>2. all \in Block /\ all.start = 0 /\ all.end = PoolBytes
    BY PoolParameters DEF Block
  <1> HIDE DEF all
  <1>3. FreeSound(free)
    BY <1>1, <1>2, PoolParameters DEF FreeSound
  <1>4. Covered(free, inUse)
    BY <1>1, <1>2, PoolParameters DEF Covered, InFree
  <1>5. IsFiniteSet(issued)
    BY <1>1, FS_EmptySet
  <1> QED
    BY <1>1, <1>3, <1>4, <1>5 DEF PoolInv, UsedSound, Separate

\* A pool that is in the invariant is tiled: the free block, or the handle,
\* at a byte is the only one.
LEMMA PoolImplies ==
    ASSUME PoolInv
    PROVE  PTypeOK /\ PoolTiled
  <1>1. /\ FreeSound(free) /\ UsedSound(inUse) /\ Separate(free, inUse)
        /\ Covered(free, inUse) /\ issued \subseteq Handle /\ inUse \subseteq issued
    BY DEF PoolInv
  <1>2. \A h \in inUse : /\ ReservedBytes(h).start = h.offset /\ ReservedBytes(h).end = Stop(h)
    BY DEF ReservedBytes, Stop
  <1>3. \A f \in free : f.start \in Nat /\ f.end \in Nat /\ f.start < f.end /\ f.end <= PoolBytes
    BY <1>1, BlockFields DEF FreeSound
  <1>4. \A h \in inUse : /\ h.offset \in Nat /\ Stop(h) \in Nat /\ h.offset < Stop(h)
                         /\ Stop(h) <= PoolBytes /\ h.offset % Alignment = 0
    BY <1>1, HandleFields DEF UsedSound
  <1>5. ASSUME NEW x \in 0..(PoolBytes - 1)
        PROVE  Cardinality({f \in free : f.start <= x /\ x < f.end})
                 + Cardinality({h \in inUse : ReservedBytes(h).start <= x /\ x < ReservedBytes(h).end})
               = 1
    <2> DEFINE FF == {f \in free : f.start <= x /\ x < f.end}
               UU == {h \in inUse : ReservedBytes(h).start <= x /\ x < ReservedBytes(h).end}
    <2>0. x \in Int
      BY PoolParameters
    <2>1. UU = {h \in inUse : h.offset <= x /\ x < Stop(h)}
      BY <1>2
    <2>2. CASE InFree(free, x)
      <3>1. PICK f \in free : f.start <= x /\ x < f.end
        BY <2>2 DEF InFree
      <3>2. FF = {f}
        BY <1>1, <1>3, <2>0, <3>1 DEF FreeSound, Apart
      <3>3. UU = {}
        BY <1>1, <1>3, <1>4, <2>0, <2>1, <3>1 DEF Separate
      <3> HIDE DEF FF, UU
      <3>4. Cardinality({}) = 0 /\ Cardinality({f}) = 1
        BY FS_EmptySet, FS_Singleton
      <3>5. Cardinality(FF) + Cardinality(UU) = 1
        BY <3>2, <3>3, <3>4
      <3> QED
        BY <3>5 DEF FF, UU
    <2>3. CASE InUsed(inUse, x)
      <3>1. PICK h \in inUse : h.offset <= x /\ x < Stop(h)
        BY <2>3 DEF InUsed
      <3>2. UU = {h}
        BY <1>1, <1>4, <2>0, <2>1, <3>1 DEF UsedSound
      <3>3. FF = {}
        BY <1>1, <1>3, <1>4, <2>0, <3>1 DEF Separate
      <3> HIDE DEF FF, UU
      <3>4. Cardinality({}) = 0 /\ Cardinality({h}) = 1
        BY FS_EmptySet, FS_Singleton
      <3>5. Cardinality(FF) + Cardinality(UU) = 1
        BY <3>2, <3>3, <3>4
      <3> QED
        BY <3>5 DEF FF, UU
    <2> QED
      BY <1>1, <2>2, <2>3 DEF Covered
  <1>6. \A p \in free \cup {ReservedBytes(h) : h \in inUse} : p.start < p.end /\ p.end <= PoolBytes
    BY <1>2, <1>3, <1>4
  <1>7. \A f, g \in free : f.end # g.start
    BY <1>1, <1>3 DEF FreeSound, Apart
  <1>8. PTypeOK
    BY <1>1 DEF PTypeOK, FreeSound
  <1> QED
    BY <1>4, <1>5, <1>6, <1>7, <1>8 DEF PoolTiled

\* What the two sets of parts say of their members.
LEMMA PartFields ==
    ASSUME NEW F, NEW U, FreeSound(F), UsedSound(U)
    PROVE  /\ \A f \in F : /\ f.start \in Nat /\ f.end \in Nat
                           /\ f.start < f.end /\ f.end <= PoolBytes
           /\ \A h \in U : /\ h.offset \in Nat /\ Stop(h) \in Nat /\ h.offset < Stop(h)
                           /\ Stop(h) <= PoolBytes /\ h.offset % Alignment = 0
  <1>1. \A f \in F : f \in Block /\ f.start < f.end
    BY DEF FreeSound
  <1>2. \A h \in U : h \in Handle /\ Stop(h) <= PoolBytes /\ h.offset % Alignment = 0
    BY DEF UsedSound
  <1>3. \A f \in F : f.start \in Nat /\ f.end \in Nat /\ f.end <= PoolBytes
    BY <1>1, BlockFields
  <1>4. \A h \in U : h.offset \in Nat /\ Stop(h) \in Nat /\ h.offset < Stop(h)
    BY <1>2, HandleFields
  <1> QED
    BY <1>1, <1>2, <1>3, <1>4

\* A reservation is cut out of a free block.
LEMMA CutKeeps ==
    ASSUME NEW F, NEW U, FreeSound(F), UsedSound(U), Separate(F, U), Covered(F, U),
           NEW f \in F, NEW h \in Handle, f.start <= h.offset, Stop(h) <= f.end,
           h.offset % Alignment = 0
    PROVE  LET F2 == (F \ {f}) \cup NonEmpty({[start |-> f.start, end |-> h.offset],
                                              [start |-> Stop(h), end |-> f.end]})
               U2 == U \cup {h}
           IN FreeSound(F2) /\ UsedSound(U2) /\ Separate(F2, U2) /\ Covered(F2, U2)
  <1> DEFINE left == [start |-> f.start, end |-> h.offset]
             right == [start |-> Stop(h), end |-> f.end]
             F2 == (F \ {f}) \cup NonEmpty({left, right})
             U2 == U \cup {h}
  <1>1. /\ \A g \in F : /\ g.start \in Nat /\ g.end \in Nat
                        /\ g.start < g.end /\ g.end <= PoolBytes
        /\ \A k \in U : /\ k.offset \in Nat /\ Stop(k) \in Nat /\ k.offset < Stop(k)
                        /\ Stop(k) <= PoolBytes /\ k.offset % Alignment = 0
    BY PartFields
  <1>2. h.offset \in Nat /\ Stop(h) \in Nat /\ h.offset < Stop(h)
    BY HandleFields
  <1>3. /\ f.start \in Nat /\ f.end \in Nat /\ f.end <= PoolBytes
        /\ PoolBytes \in Nat
    BY <1>1, PoolParameters
  <1>4. /\ left \in Block /\ left.start = f.start /\ left.end = h.offset
        /\ right \in Block /\ right.start = Stop(h) /\ right.end = f.end
    BY <1>2, <1>3 DEF Block
  <1> HIDE DEF left, right
  <1>5. \A g \in F2 : \/ g \in F /\ g # f
                      \/ g = left /\ left.start < left.end
                      \/ g = right /\ right.start < right.end
    BY DEF NonEmpty
  <1>6. /\ \A g \in F : g = f \/ g \in F2
        /\ left.start < left.end => left \in F2
        /\ right.start < right.end => right \in F2
    BY DEF NonEmpty
  <1> HIDE DEF F2
  <1>7. \A g \in F : g # f => Apart(f, g)
    BY DEF FreeSound
  <1>8. FreeSound(F2)
    <2>1. \A g \in F2 : g \in Block /\ g.start < g.end
      BY <1>1, <1>4, <1>5 DEF FreeSound
    <2>2. ASSUME NEW g \in F2, NEW e \in F2, g # e
          PROVE  Apart(g, e)
      <3>1. CASE g \in F /\ g # f /\ e \in F /\ e # f
        BY <2>2, <3>1 DEF FreeSound
      <3>2. ASSUME NEW o \in F, o # f, NEW p, p = left \/ p = right, p.start < p.end
            PROVE  Apart(o, p) /\ Apart(p, o)
        <4>1. Apart(f, o)
          BY <1>7, <3>2
        <4>2. o.start \in Nat /\ o.end \in Nat /\ o.start < o.end
          BY <1>1, <3>2
        <4> QED
          BY <1>2, <1>3, <1>4, <3>2, <4>1, <4>2 DEF Apart
      <3>3. Apart(left, right) /\ Apart(right, left)
        BY <1>2, <1>3, <1>4 DEF Apart
      <3> QED
        BY <1>5, <2>2, <3>1, <3>2, <3>3
    <2> QED
      BY <2>1, <2>2 DEF FreeSound
  <1>9. \A k \in U : Stop(k) <= h.offset \/ Stop(h) <= k.offset
    BY <1>1, <1>2, <1>3 DEF Separate
  <1>10. UsedSound(U2)
    <2>1. Stop(h) <= PoolBytes
      BY <1>2, <1>3
    <2> QED
      BY <1>9, <2>1 DEF UsedSound
  <1>11. Separate(F2, U2)
    <2>1. ASSUME NEW g \in F2
          PROVE  g.end <= h.offset \/ Stop(h) <= g.start
      <3>1. CASE g \in F /\ g # f
        <4>1. Apart(f, g)
          BY <1>7, <3>1
        <4>2. g.start \in Nat /\ g.end \in Nat
          BY <1>1, <3>1
        <4> QED
          BY <1>2, <1>3, <4>1, <4>2 DEF Apart
      <3>2. CASE g = left \/ g = right
        BY <1>2, <1>3, <1>4, <3>2
      <3> QED
        BY <1>5, <3>1, <3>2
    <2>2. ASSUME NEW g \in F2, NEW k \in U
          PROVE  g.end <= k.offset \/ Stop(k) <= g.start
      <3>1. f.end <= k.offset \/ Stop(k) <= f.start
        BY DEF Separate
      <3>2. CASE g \in F
        BY <3>2 DEF Separate
      <3>3. CASE g = left \/ g = right
        BY <1>1, <1>2, <1>3, <1>4, <3>1, <3>3
      <3> QED
        BY <1>5, <3>2, <3>3
    <2> QED
      BY <2>1, <2>2 DEF Separate
  <1>12. Covered(F2, U2)
    <2> SUFFICES ASSUME NEW x \in 0..(PoolBytes - 1)
                 PROVE  InFree(F2, x) \/ InUsed(U2, x)
      BY DEF Covered
    <2>0. x \in Int
      BY <1>3
    <2>1. CASE InUsed(U, x)
      BY <2>1 DEF InUsed
    <2>2. CASE InFree(F, x)
      <3>1. PICK g \in F : g.start <= x /\ x < g.end
        BY <2>2 DEF InFree
      <3>2. CASE g # f
        BY <1>6, <3>1, <3>2 DEF InFree
      <3>3. CASE g = f
        <4>1. CASE x < h.offset
          <5>1. left.start <= x /\ x < left.end /\ left.start < left.end
            BY <1>2, <1>3, <1>4, <2>0, <3>1, <3>3, <4>1
          <5> QED
            BY <1>6, <5>1 DEF InFree
        <4>2. CASE h.offset <= x /\ x < Stop(h)
          BY <4>2 DEF InUsed
        <4>3. CASE Stop(h) <= x
          <5>1. right.start <= x /\ x < right.end /\ right.start < right.end
            BY <1>2, <1>3, <1>4, <2>0, <3>1, <3>3, <4>3
          <5> QED
            BY <1>6, <5>1 DEF InFree
        <4> QED
          BY <1>2, <2>0, <4>1, <4>2, <4>3
      <3> QED
        BY <3>2, <3>3
    <2> QED
      BY <2>1, <2>2 DEF Covered
  <1> QED
    BY <1>8, <1>10, <1>11, <1>12 DEF F2, left, right

LEMMA AcquireKeeps ==
    ASSUME PoolInv, NEW b \in Requests, Acquire(b)
    PROVE  PoolInv'
  <1> DEFINE Fit == {f \in free : f.end - f.start >= Misalign(f.start) + RoundUp(b)}
             f == CHOOSE g \in Fit : \A e \in Fit : g.start <= e.start
             h == [id |-> Cardinality(issued) + 1,
                   offset |-> f.start + Misalign(f.start), bytes |-> b]
  <1>1. /\ FreeSound(free) /\ UsedSound(inUse) /\ Separate(free, inUse)
        /\ Covered(free, inUse) /\ issued \subseteq Handle /\ inUse \subseteq issued
        /\ IsFiniteSet(issued)
    BY DEF PoolInv
  <1>2. \A g \in free : /\ g.start \in Nat /\ g.end \in Nat /\ g.end <= PoolBytes
                        /\ g.start < g.end
    BY <1>1, PartFields
  <1>3. /\ Cardinality(issued) < MaxHandles /\ Fit # {}
        /\ free' = (free \ {f}) \cup
                     NonEmpty({[start |-> f.start, end |-> h.offset],
                               [start |-> ReservedBytes(h).end, end |-> f.end]})
        /\ inUse' = inUse \cup {h} /\ issued' = issued \cup {h}
    BY DEF Acquire
  <1>4. f \in Fit
    <2> DEFINE D == {PoolBytes - g.start : g \in Fit}
    <2>1. D # {}
      BY <1>3
    <2>2. D \subseteq 0..PoolBytes /\ \A y \in D : y \in Int
      <3>1. \A g \in Fit : PoolBytes - g.start \in 0..PoolBytes
        BY <1>2, PoolParameters
      <3>2. D \subseteq 0..PoolBytes
        BY <3>1
      <3> QED
        BY <3>2, PoolParameters
    <2>3. IsFiniteSet(D)
      <3>1. IsFiniteSet(0..PoolBytes)
        BY PoolParameters, FS_Interval
      <3> HIDE DEF D
      <3> QED
        BY <2>2, <3>1, FS_Subset
    <2>4. Max(D) \in D /\ \A y \in D : Max(D) >= y
      <3> HIDE DEF D
      <3> QED
        BY <2>1, <2>2, <2>3, MaxExists
    <2>5. PICK g \in Fit : \A e \in Fit : PoolBytes - g.start >= PoolBytes - e.start
      <3>1. PICK g \in Fit : Max(D) = PoolBytes - g.start
        BY <2>4
      <3>2. \A e \in Fit : PoolBytes - e.start \in D
        OBVIOUS
      <3> HIDE DEF D, Fit
      <3> QED
        BY <2>4, <3>1, <3>2
    <2>6. \A e \in Fit : g.start <= e.start
      BY <1>2, <2>5, PoolParameters
    <2> QED
      BY <2>6
  <1> HIDE DEF f
  <1>5. /\ f \in free /\ f.start \in Nat /\ f.end \in Nat /\ f.end <= PoolBytes
        /\ f.end - f.start >= Misalign(f.start) + RoundUp(b)
    BY <1>2, <1>4
  <1>6. /\ Misalign(f.start) \in Nat /\ RoundUp(b) \in Nat
        /\ (f.start + Misalign(f.start)) % Alignment = 0
    BY <1>5, Aligned, Rounded
  <1>7. h.offset = f.start + Misalign(f.start) /\ h.bytes = b /\ h.id = Cardinality(issued) + 1
    OBVIOUS
  <1>8. /\ Stop(h) = f.start + Misalign(f.start) + RoundUp(b) /\ ReservedBytes(h).end = Stop(h)
    BY DEF Stop, ReservedBytes
  <1>9. h \in Handle
    <2>1. Cardinality(issued) + 1 \in 1..MaxHandles
      BY <1>1, <1>3, FS_CardinalityType, PoolParameters
    <2>2. f.start + Misalign(f.start) \in 0..PoolBytes
      BY <1>5, <1>6, PoolParameters
    <2> QED
      BY <2>1, <2>2 DEF Handle
  <1> HIDE DEF h
  <1>10. f.start <= h.offset /\ Stop(h) <= f.end /\ h.offset % Alignment = 0
    BY <1>5, <1>6, <1>7, <1>8
  <1>11. /\ FreeSound(free') /\ UsedSound(inUse') /\ Separate(free', inUse')
         /\ Covered(free', inUse')
    BY <1>1, <1>3, <1>5, <1>8, <1>9, <1>10, CutKeeps
  <1>12. issued' \subseteq Handle /\ inUse' \subseteq issued' /\ IsFiniteSet(issued')
    BY <1>1, <1>3, <1>9, FS_AddElement
  <1> QED
    BY <1>11, <1>12 DEF PoolInv

\* The free blocks that touch a reservation.
Before(F, h) == {f \in F : f.end = h.offset}
After(F, h) == {f \in F : f.start = Stop(h)}

\* A released part n, grown over the free blocks that touch it.
Grown(F, h, n) ==
    /\ n \in Block /\ n.start <= h.offset /\ Stop(h) <= n.end
    /\ n.start = h.offset \/ \E f \in Before(F, h) : n.start = f.start
    /\ n.end = Stop(h) \/ \E f \in After(F, h) : n.end = f.end
    /\ \A f \in Before(F, h) : n.start = f.start
    /\ \A f \in After(F, h) : n.end = f.end

LEMMA FillKeeps ==
    ASSUME NEW F, NEW U, FreeSound(F), UsedSound(U), Separate(F, U), Covered(F, U),
           NEW h \in U, NEW n, Grown(F, h, n)
    PROVE  LET F2 == (F \ (Before(F, h) \cup After(F, h))) \cup {n}
               U2 == U \ {h}
           IN FreeSound(F2) /\ UsedSound(U2) /\ Separate(F2, U2) /\ Covered(F2, U2)
  <1> DEFINE L == Before(F, h)
             M == After(F, h)
             F2 == (F \ (L \cup M)) \cup {n}
             U2 == U \ {h}
  <1>0. /\ L = {f \in F : f.end = h.offset} /\ M = {f \in F : f.start = Stop(h)}
        /\ n \in Block /\ n.start <= h.offset /\ Stop(h) <= n.end
        /\ n.start = h.offset \/ \E f \in L : n.start = f.start
        /\ n.end = Stop(h) \/ \E f \in M : n.end = f.end
        /\ \A f \in L : n.start = f.start
        /\ \A f \in M : n.end = f.end
    BY DEF Grown, Before, After
  <1> HIDE DEF L, M
  <1>1. /\ \A g \in F : /\ g.start \in Nat /\ g.end \in Nat
                        /\ g.start < g.end /\ g.end <= PoolBytes
        /\ \A k \in U : /\ k.offset \in Nat /\ Stop(k) \in Nat /\ k.offset < Stop(k)
                        /\ Stop(k) <= PoolBytes /\ k.offset % Alignment = 0
    BY PartFields
  <1>2. /\ h.offset \in Nat /\ Stop(h) \in Nat /\ h.offset < Stop(h)
        /\ n.start \in Nat /\ n.end \in Nat /\ n.start < n.end
    BY <1>0, <1>1, BlockFields
  <1>3. \A g \in F, e \in F : g # e => Apart(g, e)
    BY DEF FreeSound
  <1>4. ASSUME NEW g \in F, g \notin L \cup M
        PROVE  Apart(g, n) /\ Apart(n, g)
    <2>1. g.end # h.offset /\ g.start # Stop(h)
      BY <1>0, <1>4
    <2>2. g.end <= h.offset \/ Stop(h) <= g.start
      BY DEF Separate
    <2>3. CASE g.end <= h.offset
      <3>1. g.end < n.start
        <4>1. CASE n.start = h.offset
          BY <1>1, <1>2, <2>1, <2>3, <4>1
        <4>2. CASE \E f \in L : n.start = f.start
          <5>1. PICK f \in L : n.start = f.start
            BY <4>2
          <5>2. f \in F /\ f # g /\ f.end = h.offset
            BY <1>0, <1>4, <5>1
          <5>3. Apart(g, f)
            BY <1>3, <5>2
          <5> QED
            BY <1>1, <1>2, <2>1, <2>3, <5>1, <5>2, <5>3 DEF Apart
        <4> QED
          BY <1>0, <4>1, <4>2
      <3> QED
        BY <3>1 DEF Apart
    <2>4. CASE Stop(h) <= g.start
      <3>1. n.end < g.start
        <4>1. CASE n.end = Stop(h)
          BY <1>1, <1>2, <2>1, <2>4, <4>1
        <4>2. CASE \E f \in M : n.end = f.end
          <5>1. PICK f \in M : n.end = f.end
            BY <4>2
          <5>2. f \in F /\ f # g /\ f.start = Stop(h)
            BY <1>0, <1>4, <5>1
          <5>3. Apart(g, f)
            BY <1>3, <5>2
          <5> QED
            BY <1>1, <1>2, <2>1, <2>4, <5>1, <5>2, <5>3 DEF Apart
        <4> QED
          BY <1>0, <4>1, <4>2
      <3> QED
        BY <3>1 DEF Apart
    <2> QED
      BY <2>2, <2>3, <2>4
  <1>5. FreeSound(F2)
    <2>1. \A g \in F2 : g \in Block /\ g.start < g.end
      BY <1>0, <1>1, <1>2 DEF FreeSound
    <2> QED
      BY <1>3, <1>4, <2>1 DEF FreeSound
  <1>6. UsedSound(U2)
    BY DEF UsedSound
  <1>7. ASSUME NEW k \in U, k # h
        PROVE  n.end <= k.offset \/ Stop(k) <= n.start
    <2>1. Stop(h) <= k.offset \/ Stop(k) <= h.offset
      BY <1>7 DEF UsedSound
    <2>2. \A f \in F : f.end <= k.offset \/ Stop(k) <= f.start
      BY DEF Separate
    <2>3. CASE Stop(k) <= h.offset
      <3>1. ASSUME NEW f \in L, n.start = f.start PROVE Stop(k) <= n.start
        <4>1. f \in F /\ f.end = h.offset
          BY <1>0
        <4> QED
          BY <1>1, <1>2, <2>2, <2>3, <3>1, <4>1
      <3> QED
        BY <1>0, <2>3, <3>1
    <2>4. CASE Stop(h) <= k.offset
      <3>1. ASSUME NEW f \in M, n.end = f.end PROVE n.end <= k.offset
        <4>1. f \in F /\ f.start = Stop(h)
          BY <1>0
        <4> QED
          BY <1>1, <1>2, <2>2, <2>4, <3>1, <4>1
      <3> QED
        BY <1>0, <2>4, <3>1
    <2> QED
      BY <2>1, <2>3, <2>4
  <1>8. Separate(F2, U2)
    BY <1>7 DEF Separate
  <1>9. Covered(F2, U2)
    <2> SUFFICES ASSUME NEW x \in 0..(PoolBytes - 1)
                 PROVE  InFree(F2, x) \/ InUsed(U2, x)
      BY DEF Covered
    <2>0. x \in Int
      BY PoolParameters
    <2>n. n.start <= x /\ x < n.end => InFree(F2, x)
      BY DEF InFree
    <2>1. CASE InFree(F, x)
      <3>1. PICK g \in F : g.start <= x /\ x < g.end
        BY <2>1 DEF InFree
      <3>2. CASE g \notin L \cup M
        BY <3>1, <3>2 DEF InFree
      <3>3. CASE g \in L
        BY <1>0, <1>1, <1>2, <2>0, <2>n, <3>1, <3>3
      <3>4. CASE g \in M
        BY <1>0, <1>1, <1>2, <2>0, <2>n, <3>1, <3>4
      <3> QED
        BY <3>2, <3>3, <3>4
    <2>2. CASE InUsed(U, x)
      <3>1. PICK k \in U : k.offset <= x /\ x < Stop(k)
        BY <2>2 DEF InUsed
      <3>2. CASE k # h
        BY <3>1, <3>2 DEF InUsed
      <3>3. CASE k = h
        BY <1>0, <1>2, <2>0, <2>n, <3>1, <3>3
      <3> QED
        BY <3>2, <3>3
    <2> QED
      BY <2>1, <2>2 DEF Covered
  <1> QED
    BY <1>5, <1>6, <1>8, <1>9 DEF F2, U2, L, M

LEMMA ReleaseHandleKeeps ==
    ASSUME PoolInv, NEW h \in issued, Release(h)
    PROVE  PoolInv'
  <1> DEFINE s == h.offset
             e == Stop(h)
             L == {f \in free : f.end = s}
             M == {f \in free : f.start = e}
             low == Min({s} \cup {f.start : f \in L})
             high == Max({e} \cup {f.end : f \in M})
             n == [start |-> low, end |-> high]
  <1>1. /\ FreeSound(free) /\ UsedSound(inUse) /\ Separate(free, inUse)
        /\ Covered(free, inUse) /\ issued \subseteq Handle /\ inUse \subseteq issued
        /\ IsFiniteSet(issued)
    BY DEF PoolInv
  <1>2. h \in inUse /\ inUse' = inUse \ {h} /\ UNCHANGED issued
    BY DEF Release
  <1>3. free' = (free \ (L \cup M)) \cup {n}
    BY DEF Release, InsertFree, ReservedBytes, Stop
  <1>4. /\ \A g \in free : /\ g.start \in Nat /\ g.end \in Nat
                           /\ g.start < g.end /\ g.end <= PoolBytes
        /\ s \in Nat /\ e \in Nat /\ s < e /\ e <= PoolBytes
    BY <1>1, <1>2, PartFields
  <1>5. \A f, g \in free : f # g => Apart(f, g)
    BY <1>1 DEF FreeSound
  <1> HIDE DEF s, e
  <1>6. /\ low \in Nat /\ low <= s /\ (low = s \/ \E f \in L : low = f.start)
        /\ \A f \in L : low = f.start
    <2>1. CASE L = {}
      <3>1. {s} \cup {f.start : f \in L} = {s, s}
        BY <2>1
      <3> HIDE DEF L
      <3>3. Min({s, s}) = IF s <= s THEN s ELSE s
        BY <1>4, MinOfTwo
      <3>2. low = s
        BY <3>1, <3>3
      <3> QED
        BY <1>4, <2>1, <3>2
    <2>2. CASE L # {}
      <3>1. PICK l \in L : TRUE
        BY <2>2
      <3>2. \A f \in L : f = l
        <4> SUFFICES ASSUME NEW f \in L, f # l PROVE FALSE
          OBVIOUS
        <4>1. f \in free /\ l \in free /\ f.end = l.end /\ Apart(f, l)
          BY <1>5
        <4> QED
          BY <1>4, <4>1 DEF Apart
      <3>3. {s} \cup {f.start : f \in L} = {s, l.start}
        BY <3>1, <3>2
      <3>4. l.start \in Nat /\ l.start <= s
        BY <1>4, <3>1
      <3> HIDE DEF L
      <3>5. low = l.start
        <4>1. low = Min({s, l.start})
          BY <3>3
        <4>2. Min({s, l.start}) = IF s <= l.start THEN s ELSE l.start
          BY <1>4, <3>4, MinOfTwo
        <4> QED
          BY <1>4, <3>4, <4>1, <4>2
      <3> HIDE DEF low
      <3> QED
        BY <3>1, <3>2, <3>4, <3>5
    <2> QED
      BY <2>1, <2>2
  <1>7. /\ high \in Nat /\ e <= high /\ (high = e \/ \E f \in M : high = f.end)
        /\ \A f \in M : high = f.end
    <2>1. CASE M = {}
      <3>1. {e} \cup {f.end : f \in M} = {e, e}
        BY <2>1
      <3> HIDE DEF M
      <3>3. Max({e, e}) = IF e >= e THEN e ELSE e
        BY <1>4, MaxOfTwo
      <3>2. high = e
        BY <3>1, <3>3
      <3> QED
        BY <1>4, <2>1, <3>2
    <2>2. CASE M # {}
      <3>1. PICK m \in M : TRUE
        BY <2>2
      <3>2. \A f \in M : f = m
        <4> SUFFICES ASSUME NEW f \in M, f # m PROVE FALSE
          OBVIOUS
        <4>1. f \in free /\ m \in free /\ f.start = m.start /\ Apart(f, m)
          BY <1>5
        <4> QED
          BY <1>4, <4>1 DEF Apart
      <3>3. {e} \cup {f.end : f \in M} = {e, m.end}
        BY <3>1, <3>2
      <3>4. m.end \in Nat /\ e <= m.end
        BY <1>4, <3>1
      <3> HIDE DEF M
      <3>5. high = m.end
        <4>1. high = Max({e, m.end})
          BY <3>3
        <4>2. Max({e, m.end}) = IF e >= m.end THEN e ELSE m.end
          BY <1>4, <3>4, MaxOfTwo
        <4> QED
          BY <1>4, <3>4, <4>1, <4>2
      <3> HIDE DEF high
      <3> QED
        BY <3>1, <3>2, <3>4, <3>5
    <2> QED
      BY <2>1, <2>2
  <1> HIDE DEF low, high
  <1>8. n \in Block /\ n.start = low /\ n.end = high
    <2>1. high <= PoolBytes
      BY <1>4, <1>7
    <2> QED
      BY <1>4, <1>6, <1>7, <2>1, PoolParameters DEF Block
  <1> HIDE DEF n
  <1>9. /\ FreeSound(free') /\ UsedSound(inUse') /\ Separate(free', inUse')
        /\ Covered(free', inUse')
    <2>1. L = Before(free, h) /\ M = After(free, h)
      BY DEF s, e, Before, After
    <2> HIDE DEF L, M
    <2>2. Grown(free, h, n)
      BY <1>6, <1>7, <1>8, <2>1 DEF Grown, s, e
    <2>3. /\ FreeSound((free \ (Before(free, h) \cup After(free, h))) \cup {n})
          /\ UsedSound(inUse \ {h})
          /\ Separate((free \ (Before(free, h) \cup After(free, h))) \cup {n}, inUse \ {h})
          /\ Covered((free \ (Before(free, h) \cup After(free, h))) \cup {n}, inUse \ {h})
      BY <1>1, <1>2, <2>2, FillKeeps, Zenon
    <2> QED
      BY <1>2, <1>3, <2>1, <2>3, Zenon
  <1>10. issued' \subseteq Handle /\ inUse' \subseteq issued' /\ IsFiniteSet(issued')
    BY <1>1, <1>2
  <1> QED
    BY <1>9, <1>10 DEF PoolInv

LEMMA PoolStep ==
    ASSUME PoolInv, PNext \/ UNCHANGED pvars
    PROVE  PoolInv'
  <1>1. CASE UNCHANGED pvars
    BY <1>1 DEF pvars, PoolInv
  <1> QED
    BY <1>1, AcquireKeeps, ReleaseHandleKeeps DEF PNext

-----------------------------------------------------------------------------
(* The parts beside each other                                              *)

HostInv ==
    /\ RegistryInv /\ BudgetInv /\ DmaInv /\ LruInv /\ TierInv /\ PoolInv
    /\ ReserveInv /\ BooksInv

LEMMA HostInit == MCInit => HostInv
  BY RegistryInit, BudgetInit, DmaInit, LruInit, TierInit, PoolInit, ReserveInit, BooksInit, Zenon
     DEF MCInit, HostInv

\* A step of the whole is a step or a stutter of every part.
LEMMA PartsStep ==
    ASSUME [MCNext]_mvars
    PROVE  /\ [MNext]_mrvars /\ [BNext]_bvars /\ [DNext]_dvars /\ [LNext]_lvars /\ [TNext]_tvars
           /\ PNext \/ UNCHANGED pvars
           /\ ReserveNext \/ BooksNext \/ UNCHANGED xvars
  <1>1. CASE UNCHANGED hostVars
    BY <1>1 DEF hostVars
  <1>2. CASE HostNext
    BY <1>2 DEF HostNext
  <1>3. MCNext => UNCHANGED hostVars \/ HostNext
    BY DEF MCNext
  <1>4. UNCHANGED mvars => UNCHANGED hostVars
    BY DEF mvars
  <1> QED
    BY <1>1, <1>2, <1>3, <1>4

LEMMA HostStep ==
    ASSUME HostInv, [MCNext]_mvars
    PROVE  HostInv' /\ AllowedMove /\ PinnedKept /\ HistoryGrows
  <1>1. /\ [MNext]_mrvars /\ [BNext]_bvars /\ [DNext]_dvars /\ [LNext]_lvars /\ [TNext]_tvars
        /\ PNext \/ UNCHANGED pvars
        /\ ReserveNext \/ BooksNext \/ UNCHANGED xvars
    BY PartsStep
  <1>2. /\ RegistryInv /\ BudgetInv /\ DmaInv /\ LruInv /\ TierInv /\ PoolInv
        /\ ReserveInv /\ BooksInv
    BY DEF HostInv
  <1>3. RegistryInv' /\ HistoryGrows
    BY <1>1, <1>2, RegistryStep
  <1>4. BudgetInv' /\ AllowedMove
    BY <1>1, <1>2, BudgetStep
  <1>5. LruInv' /\ PinnedKept
    BY <1>1, <1>2, LruStep
  <1>6. DmaInv' /\ TierInv' /\ PoolInv'
    BY <1>1, <1>2, DmaStep, TierStep, PoolStep
  <1>7. ReserveInv' /\ BooksInv'
    BY <1>1, <1>2, ReserveStep, BooksStep
  <1> QED
    BY <1>3, <1>4, <1>5, <1>6, <1>7 DEF HostInv

LEMMA HostInvariance == MCSpec => []HostInv
  BY HostInit, HostStep, PTL DEF MCSpec

(***************************************************************************)
(* The host components' counters and logs agree with their records, and    *)
(* what they admit stays within what they compare it with: the resident    *)
(* bytes of the expert cache (expert_lru.rs), the free blocks and          *)
(* reservations of the pinned pool (pinned_pool.rs), the hot bytes of the  *)
(* R4KV tiers (tier.rs), the arena and the queue of their transfer engine  *)
(* (dma.rs; not its transfers in flight, whose number nothing bounds), the *)
(* budget of elastic_budget.rs, the records of har-memory/src/lib.rs.      *)
(***************************************************************************)
THEOREM MemoryStaysBounded == MCSpec => []MemoryBounded
  <1>1. HostInv => MemoryBounded
    BY PoolImplies, Zenon
       DEF HostInv, MemoryBounded, RegistryInv, BudgetInv, DmaInv, LruInv, TierInv
  <1> QED
    BY <1>1, HostInvariance, PTL

(***************************************************************************)
(* The accounts of the reserve stay within their capacities and borrow no  *)
(* protected byte for optional work (har-metabolism/src/reserve.rs); the   *)
(* ledger, the clocks and the telemetry rows agree whoever owns them       *)
(* (ledger.rs, clock.rs, har-runtime/src/metabolism.rs).                   *)
(***************************************************************************)
THEOREM MetabolismStaysSound == MCSpec => []MetabolismSound
  <1>1. HostInv => MetabolismSound
    BY BooksImply DEF HostInv, MetabolismSound, ReserveInv
  <1> QED
    BY <1>1, HostInvariance, PTL

(***************************************************************************)
(* What no step may do: move the budget without a pending adjustment of an *)
(* idle engine or past its target, take a pinned page out of the expert    *)
(* cache, or rewrite the log of a residency record.                        *)
(***************************************************************************)
THEOREM HostStepsAreAllowed == MCSpec => HostStepsAllowed
  <1>1. ASSUME HostInv, [MCNext]_mvars
        PROVE  [AllowedMove]_bvars /\ [PinnedKept]_lvars /\ [HistoryGrows]_mrvars
    BY <1>1, HostStep
  <1> QED
    BY <1>1, HostInvariance, PTL
       DEF MCSpec, HostStepsAllowed, BudgetMoves, PinnedStay, HistoryKept

=============================================================================
