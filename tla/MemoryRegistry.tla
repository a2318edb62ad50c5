---------------------------- MODULE MemoryRegistry ----------------------------
(***************************************************************************)
(* har-memory/src/lib.rs: residency records that carry their own state     *)
(* machine and its log, and the registry of records and transfer tickets.  *)
(* The engine of har-execution drives the machine of a record it owns; a   *)
(* record that is registered is driven through get_mut, with the same      *)
(* calls.  A refused call changes nothing and is not enabled.              *)
(*                                                                         *)
(* Abstracted: reasons, namespaces and queue names of events and tickets.  *)
(***************************************************************************)
EXTENDS Integers, Sequences

CONSTANTS Resources,      \* resource identifiers
          ResourceBytes,  \* sizes of records and of requested transfers
          Tiers,          \* the tiers a replica may be added in
          MaxEvents,      \* bound: events in one log
          MaxBumps,       \* bound: generations of one record
          MaxQueued       \* bound: tickets ever queued

ASSUME MemoryAssumption ==
    /\ ResourceBytes \subseteq Nat
    /\ MaxEvents \in Nat /\ MaxBumps \in Nat /\ MaxQueued \in Nat

VARIABLES machines,    \* the record of each resource, made or not
          registered,  \* resources in the registry's map
          transfers    \* registry.transfers, in the order queued
mrvars == <<machines, registered, transfers>>

MachineState == {"Unavailable", "Indexed", "ReadQueued", "Reading", "ReadyHost",
                 "TransferQueued", "CopyingToVram", "ReadyVram", "Computing",
                 "Evictable", "Evicting", "Error"}

\* ResidencyState::can_transition_to: any state but Error may fail, and Error
\* has no successor; the variant lets a failed record start over.
Successors(s) ==
    CASE s = "Unavailable"    -> {"Indexed"}
      [] s = "Indexed"        -> {"ReadQueued", "ReadyHost"}
      [] s = "ReadQueued"     -> {"Reading"}
      [] s = "Reading"        -> {"ReadyHost"}
      [] s = "ReadyHost"      -> {"TransferQueued", "Computing", "Evictable"}
      [] s = "TransferQueued" -> {"CopyingToVram"}
      [] s = "CopyingToVram"  -> {"ReadyVram"}
      [] s = "ReadyVram"      -> {"Computing", "Evictable", "Evicting"}
      [] s = "Computing"      -> {"ReadyHost", "ReadyVram", "Evictable"}
      [] s = "Evictable"      -> {"Evicting", "Computing"}
      [] s = "Evicting"       -> {"ReadyHost", "Unavailable"}
NextStates(s) == IF s = "Error" THEN {} ELSE {"Error"} \cup Successors(s)

Event   == [sequence : Nat, from : MachineState, to : MachineState]
Machine == [made : BOOLEAN, bytes : ResourceBytes \cup {0}, state : MachineState,
            generation : Nat, replicas : SUBSET Tiers, events : Seq(Event)]
Ticket  == [id : Nat, resource : Resources, generation : Nat,
            bytes : ResourceBytes, completed : BOOLEAN, useful : BOOLEAN]

\* ResidencyRecord::new with ResidencyMachine::new inside.
NewMachine(made, bytes) ==
    [made |-> made, bytes |-> bytes, state |-> "Unavailable", generation |-> 0,
     replicas |-> {}, events |-> <<>>]

MInit == /\ machines = [r \in Resources |-> NewMachine(FALSE, 0)]
         /\ registered = {} /\ transfers = <<>>

NewRecord(r, bytes) ==
    /\ ~machines[r].made
    /\ machines' = [machines EXCEPT ![r] = NewMachine(TRUE, bytes)]
    /\ UNCHANGED <<registered, transfers>>

\* transition, and fail with next = Error: the event is logged with the move.
Transition(r, next) ==
    LET m == machines[r] IN
    /\ m.made /\ Len(m.events) < MaxEvents
    /\ next \in NextStates(m.state)
    /\ machines' = [machines EXCEPT
           ![r].state = next,
           ![r].events = Append(@, [sequence |-> Len(m.events), from |-> m.state,
                                    to |-> next])]
    /\ UNCHANGED <<registered, transfers>>

BumpGeneration(r) ==
    /\ machines[r].made /\ machines[r].generation < MaxBumps
    /\ machines' = [machines EXCEPT ![r].generation = @ + 1]
    /\ UNCHANGED <<registered, transfers>>

AddReplica(r, tier) ==
    /\ machines[r].made
    /\ machines' = [machines EXCEPT ![r].replicas = @ \cup {tier}]
    /\ UNCHANGED <<registered, transfers>>

\* ResidencyRecord::validate, run when a record is registered and not again.
Valid(m) == /\ m.bytes # 0
            /\ m.state = "ReadyVram" => m.replicas \cap {"VramResident", "VramSlot"} # {}

RegisterRecord(r) ==
    /\ machines[r].made /\ Valid(machines[r])
    /\ r \notin registered
    /\ registered' = registered \cup {r}
    /\ UNCHANGED <<machines, transfers>>

\* queue_transfer: the ticket takes the generation the record has now.  The
\* variant does not look at the size.
QueueAnyTransfer(r, bytes) ==
    /\ r \in registered /\ Len(transfers) < MaxQueued
    /\ transfers' = Append(transfers, [id |-> Len(transfers), resource |-> r,
                               generation |-> machines[r].generation, bytes |-> bytes,
                               completed |-> FALSE, useful |-> FALSE])
    /\ UNCHANGED <<machines, registered>>
QueueTransfer(r, bytes) ==
    /\ r \in registered /\ Len(transfers) < MaxQueued
    /\ bytes <= machines[r].bytes
    /\ transfers' = Append(transfers, [id |-> Len(transfers), resource |-> r,
                               generation |-> machines[r].generation, bytes |-> bytes,
                               completed |-> FALSE, useful |-> FALSE])
    /\ UNCHANGED <<machines, registered>>

\* complete_transfer takes the first ticket with the identifier: completed
\* already or not, of the record's generation or an older one.
CompleteTransfer(id, useful) ==
    \E i \in DOMAIN transfers :
        /\ transfers[i].id = id /\ \A j \in 1..(i - 1) : transfers[j].id # id
        /\ transfers' = [transfers EXCEPT ![i].completed = TRUE, ![i].useful = useful]
        /\ UNCHANGED <<machines, registered>>

MStep(r) ==
    \/ \E bytes \in ResourceBytes : NewRecord(r, bytes) \/ QueueTransfer(r, bytes)
    \/ \E next \in MachineState : Transition(r, next)
    \/ BumpGeneration(r)
    \/ \E tier \in Tiers : AddReplica(r, tier)
    \/ RegisterRecord(r)

MNext == \/ \E r \in Resources : MStep(r)
         \/ \E id \in 0..MaxQueued, useful \in BOOLEAN : CompleteTransfer(id, useful)

MSpec == MInit /\ [][MNext]_mrvars
-----------------------------------------------------------------------------
MTypeOK == /\ machines \in [Resources -> Machine]
           /\ registered \in SUBSET Resources
           /\ transfers \in Seq(Ticket)

\* A record's log accounts for its state: it starts at Unavailable, goes on
\* where it left off, takes only legal steps, and ends where the record is.
LogExplainsState == \A r \in Resources :
    LET m == machines[r] IN
    /\ m.state = IF m.events = <<>> THEN "Unavailable" ELSE m.events[Len(m.events)].to
    /\ \A i \in DOMAIN m.events :
          /\ m.events[i].sequence = i - 1
          /\ m.events[i].from = IF i = 1 THEN "Unavailable" ELSE m.events[i - 1].to
          /\ m.events[i].to \in NextStates(m.events[i].from)

\* A ticket is found again by its identifier, asks for no more than its record
\* has, and is of a generation its record has had.
TicketsFitRecords == \A i \in DOMAIN transfers :
    /\ transfers[i].id = i - 1
    /\ transfers[i].resource \in registered
    /\ transfers[i].bytes <= machines[transfers[i].resource].bytes
    /\ transfers[i].generation <= machines[transfers[i].resource].generation

\* What is registered can be transferred: a record of no bytes never gets in.
RegisteredAreMade == \A r \in registered : machines[r].made /\ machines[r].bytes > 0

RegistrySound == LogExplainsState /\ TicketsFitRecords /\ RegisteredAreMade

\* Nothing is taken back: a log only grows, a failed record stays failed, no
\* generation goes down, a ticket completed stays completed and names what it
\* named, whichever record was driven.
HistoryGrows ==
    /\ \A r \in Resources : machines[r].made =>
          /\ machines'[r].made /\ machines'[r].bytes = machines[r].bytes
          /\ machines'[r].generation >= machines[r].generation
          /\ machines[r].state = "Error" => machines'[r].state = "Error"
          /\ \A i \in DOMAIN machines[r].events :
                i \in DOMAIN machines'[r].events
                  /\ machines'[r].events[i] = machines[r].events[i]
    /\ \A i \in DOMAIN transfers :
          /\ i \in DOMAIN transfers' /\ transfers'[i].resource = transfers[i].resource
          /\ transfers'[i].generation = transfers[i].generation
          /\ transfers[i].completed => transfers'[i].completed

HistoryKept == [][HistoryGrows]_mrvars
=============================================================================
