------------------------------- MODULE R4kvDma -------------------------------
(***************************************************************************)
(* The R4KV transfer engine (r4kv/src/dma.rs): a bounded queue of staged   *)
(* transfers, submitted as one batch, completed by polling, awaited by a   *)
(* caller that holds the engine until its transfer is settled.             *)
(***************************************************************************)
EXTENDS Integers, Sequences, FiniteSets, FiniteSetsExt, Functions

CONSTANTS QueueCapacity, ArenaBytes, TransferBytes,
          MaxTransfers,     \* bound: transfers in a behaviour
          AwaitsSubmitted   \* TRUE: callers await ids they have submitted

ASSUME DmaAssumption == /\ {QueueCapacity, ArenaBytes, MaxTransfers} \subseteq Nat
                        /\ TransferBytes \subseteq Nat
                        /\ AwaitsSubmitted \in BOOLEAN

VARIABLES queue,     \* ids queued and not submitted
          records,   \* function from the ids kept to their TransferRecord
          nextId, arenaUsed,
          awaiting   \* {} or {the id some await_completion polls for}
dvars == <<queue, records, nextId, arenaUsed, awaiting>>

Ids == 1..MaxTransfers
TransferRecord == [bytes : TransferBytes, state : {"Queued", "InFlight", "Complete"}]

DTypeOK == /\ queue \in Seq(Ids) /\ nextId \in 1..(MaxTransfers + 1)
           /\ DOMAIN records \subseteq Ids
           /\ \A i \in DOMAIN records : records[i] \in TransferRecord
           /\ arenaUsed \in Nat
           /\ awaiting = {} \/ \E i \in Ids : awaiting = {i}

DInit == /\ queue = <<>> /\ records = [i \in {} |-> 0]
         /\ nextId = 1 /\ arenaUsed = 0 /\ awaiting = {}

In(state) == {i \in DOMAIN records : records[i].state = state}
Bytes(S) == SumFunctionOnSet([i \in DOMAIN records |-> records[i].bytes], S)

(* enqueue: refused when the queue or the staging arena is full.            *)
Enqueue(b) ==
    /\ awaiting = {} /\ nextId <= MaxTransfers
    /\ Len(queue) < QueueCapacity
    /\ arenaUsed + b <= ArenaBytes
    /\ arenaUsed' = arenaUsed + b
    /\ queue' = Append(queue, nextId)
    /\ records' = [i \in DOMAIN records \cup {nextId} |->
                     IF i = nextId THEN [bytes |-> b, state |-> "Queued"]
                     ELSE records[i]]
    /\ nextId' = nextId + 1
    /\ UNCHANGED awaiting

SubmitBatch ==
    /\ awaiting = {} /\ queue # <<>>
    /\ queue' = <<>>
    /\ records' = [i \in DOMAIN records |->
                     IF \E k \in DOMAIN queue : queue[k] = i
                     THEN [records[i] EXCEPT !.state = "InFlight"]
                     ELSE records[i]]
    /\ UNCHANGED <<nextId, arenaUsed, awaiting>>

\* What poll_completion does to the records and the arena.
CompletePoll ==
    /\ records' = [i \in DOMAIN records |->
                     IF i \in In("InFlight")
                     THEN [records[i] EXCEPT !.state = "Complete"] ELSE records[i]]
    /\ arenaUsed' = Max({0, arenaUsed - Bytes(In("InFlight"))})

PollCompletion == /\ awaiting = {} /\ CompletePoll
                  /\ UNCHANGED <<queue, nextId, awaiting>>

(* await_completion takes the engine; an id never issued, or reclaimed, is  *)
(* answered Failed by the first round of the loop.                          *)
AwaitCompletion(i) ==
    /\ awaiting = {}
    /\ AwaitsSubmitted => i \notin In("Queued")
    /\ awaiting' = {i}
    /\ UNCHANGED <<queue, records, nextId, arenaUsed>>

(* One round of its loop: poll, then return if the record is Complete or    *)
(* gone.  A queued transfer stays queued: nothing else can submit it.       *)
AwaitRound ==
    /\ awaiting # {}
    /\ CompletePoll
    /\ awaiting' = {i \in awaiting : i \in DOMAIN records
                                     /\ records'[i].state = "Queued"}
    /\ UNCHANGED <<queue, nextId>>

ReclaimCompleted ==
    /\ awaiting = {}
    /\ records' = [i \in DOMAIN records \ In("Complete") |-> records[i]]
    /\ UNCHANGED <<queue, nextId, arenaUsed, awaiting>>

DNext == \/ \E b \in TransferBytes : Enqueue(b)
         \/ SubmitBatch \/ PollCompletion \/ AwaitRound \/ ReclaimCompleted
         \/ \E i \in Ids : AwaitCompletion(i)

(***************************************************************************)
(* The staging arena holds exactly the bytes of the transfers queued or in *)
(* flight, so that nothing is staged once all have completed; the queue is *)
(* the records in state Queued, in the order of their ids, within the      *)
(* capacity.  The transfers in flight the capacity does not bound: enqueue *)
(* counts the queue alone, and submit_batch empties it.                    *)
(***************************************************************************)
DmaSound ==
    /\ arenaUsed = Bytes(In("Queued") \cup In("InFlight"))
    /\ arenaUsed <= ArenaBytes
    /\ {queue[k] : k \in DOMAIN queue} = In("Queued")
    /\ \A j, k \in DOMAIN queue : j < k => queue[j] < queue[k]
    /\ Len(queue) <= QueueCapacity
=============================================================================
