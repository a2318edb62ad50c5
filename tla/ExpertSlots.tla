---------------------------- MODULE ExpertSlots ----------------------------
(***************************************************************************)
(* The expert slot table of the Vulkan boundary (har-vulkan/src/lib.rs,    *)
(* ExpertSlotTable) over its queues: callers reserve a slot for a key,     *)
(* submit the upload, mark it submitted and ready, acquire it for          *)
(* dispatches, release and evict it.  The table identifies work by the     *)
(* timeline events its callers pass, and keeps a clone of the upload's;    *)
(* a clone it drops is waited for with the table locked.                   *)
(***************************************************************************)
EXTENDS VulkanQueue

CONSTANTS
    SlotCount,      \* slot_count
    Keys,           \* expert slot keys (generation not zero)
    EvictsUnmarked  \* TRUE: callers may evict a slot whose upload is
                    \* recorded or submitted and not reported to the table

Slots == 1..SlotCount
SlotJobs == [op : {"upload", "dispatch"}, slot : Slots, key : Keys]
Reserved == "reserved"

ASSUME SlotAssumption == /\ SlotCount \in Nat \ {0} /\ EvictsUnmarked \in BOOLEAN
                         /\ Jobs = SlotJobs /\ Reserved \notin Commands

VARIABLES
    slot,      \* [Slots -> [key, state, upload]]: the table
    lockWait,  \* the upload whose clone is being dropped, the table locked
    mem,       \* [Slots -> Keys \cup {None}]: what the slot's storage holds
    promised,  \* [Slots -> None, Reserved or the recorded upload]: what the
               \* caller that reserved a slot has still to report
    leased     \* SUBSET Slots: acquired, not yet released

svars == <<slot, lockWait, mem, promised, leased>>
vars == <<qvars, svars>>

UploadJob(s, k) == [op |-> "upload", slot |-> s, key |-> k]
DispatchJob(s, k) == [op |-> "dispatch", slot |-> s, key |-> k]

SlotRecord == [key : Keys \cup {None}, state : {"Free", "Uploading", "Ready", "InFlight"},
               upload : Commands \cup {None}]

TypeOK ==
    /\ QTypeOK
    /\ slot \in [Slots -> SlotRecord]
    /\ lockWait \in Commands \cup {None}
    /\ mem \in [Slots -> Keys \cup {None}]
    /\ promised \in [Slots -> Commands \cup {None, Reserved}]
    /\ leased \subseteq Slots

FreeSlot == [key |-> None, state |-> "Free", upload |-> None]

Init ==
    /\ QInit
    /\ slot = [s \in Slots |-> FreeSlot]
    /\ lockWait = None
    /\ mem = [s \in Slots |-> None]
    /\ promised = [s \in Slots |-> None]
    /\ leased = {}

Unlocked == lockWait = None

(* The commands a caller may still be running on a slot.                    *)
LiveJobs(s) == {c \in Commands :
                  /\ cb[c].stage \notin {"none", "done", "freed"}
                  /\ cb[c].job # NoJob /\ cb[c].job.slot = s}

-----------------------------------------------------------------------------
(* ExpertSlotTable::reserve: the first free slot, unless the key is already *)
(* in the table.                                                            *)
Reserve(k) ==
    /\ Unlocked
    /\ \A s \in Slots : slot[s].state # "Free" => slot[s].key # k
    /\ \E s \in Slots :
         /\ slot[s].state = "Free"
         /\ \A t \in 1..(s - 1) : slot[t].state # "Free"
         /\ slot' = [slot EXCEPT ![s] = [key |-> k, state |-> "Uploading",
                                         upload |-> None]]
         /\ promised' = [promised EXCEPT ![s] = Reserved]
    /\ UNCHANGED <<qvars, lockWait, mem, leased>>

(* The caller records the slot's upload: a copy from a staging buffer.      *)
RecordUpload(c, s, b) ==
    /\ promised[s] = Reserved
    /\ Record(c, UploadJob(s, slot[s].key), b, TRUE)
    /\ promised' = [promised EXCEPT ![s] = c]
    /\ UNCHANGED <<slot, lockWait, mem, leased>>

(* ExpertSlotTable::mark_upload_submitted, with the upload's own event.     *)
MarkUploadSubmitted(s, e) ==
    /\ Unlocked
    /\ promised[s] = e /\ e \in Events
    /\ slot[s].state = "Uploading"
    /\ slot' = [slot EXCEPT ![s].upload = e]
    /\ promised' = [promised EXCEPT ![s] = None]
    /\ UNCHANGED <<qvars, lockWait, mem, leased>>

(* ExpertSlotTable::mark_ready, with any event: only the values are         *)
(* compared, whatever the queues.  The upload's clone is dropped before the *)
(* table is unlocked.                                                       *)
MarkReady(s, e) ==
    /\ Unlocked
    /\ slot[s].state = "Uploading" /\ slot[s].upload # None
    /\ e \in Events
    /\ cb[slot[s].upload].value = cb[e].value
    /\ IsComplete(e)
    /\ slot' = [slot EXCEPT ![s].state = "Ready", ![s].upload = None]
    /\ lockWait' = slot[s].upload
    /\ UNCHANGED <<qvars, mem, promised, leased>>

(* ExpertSlotTable::acquire_for_dispatch: the first slot with the key.      *)
AcquireForDispatch(k) ==
    /\ Unlocked
    /\ \E s \in Slots :
         /\ slot[s].key = k
         /\ \A t \in 1..(s - 1) : slot[t].key # k
         /\ slot[s].state = "Ready"
         /\ slot' = [slot EXCEPT ![s].state = "InFlight"]
         /\ leased' = leased \cup {s}
    /\ UNCHANGED <<qvars, lockWait, mem, promised>>

(* The caller records the kernel that reads the slot it acquired.           *)
RecordDispatch(c, s, b) ==
    /\ s \in leased /\ LiveJobs(s) = {}
    /\ Record(c, DispatchJob(s, slot[s].key), b, FALSE)
    /\ UNCHANGED svars

(* ExpertSlotTable::release_from_dispatch, with the dispatch's own event or *)
(* with any event after a dispatch that was never submitted.                *)
ReleaseFromDispatch(s, e) ==
    /\ Unlocked
    /\ s \in leased /\ e \in Events
    /\ LiveJobs(s) \subseteq {e}
    /\ IsComplete(e)
    /\ slot[s].state = "InFlight"
    /\ slot' = [slot EXCEPT ![s].state = "Ready"]
    /\ leased' = leased \ {s}
    /\ UNCHANGED <<qvars, lockWait, mem, promised>>

(* ExpertSlotTable::evict, with any completed event of the device.          *)
Evict(s, e) ==
    /\ Unlocked
    /\ e \in Events /\ IsComplete(e)
    /\ EvictsUnmarked \/ promised[s] \notin Commands
    /\ slot[s].state # "InFlight"
    /\ slot' = [slot EXCEPT ![s] = FreeSlot]
    /\ lockWait' = slot[s].upload
    /\ promised' = [promised EXCEPT ![s] = None]
    /\ UNCHANGED <<qvars, mem, leased>>

\* Variant: a dropped event does not wait.
DropUploadCloneAtOnce ==
    /\ lockWait # None
    /\ cb' = [cb EXCEPT ![lockWait] = Settle(FreeCommand(@), @.ticket)]
    /\ lockWait' = None
    /\ UNCHANGED <<nextValue, counter, running, owned, slot, mem, promised,
                   leased>>

(* The end of mark_ready and evict: TimelineEvent::drop of the slot's clone *)
(* waits, with the table locked, and takes the keepalive.                   *)
DropUploadClone ==
    /\ lockWait # None
    /\ IsComplete(lockWait)
    /\ cb' = [cb EXCEPT ![lockWait] = Settle(FreeCommand(@), @.ticket)]
    /\ lockWait' = None
    /\ UNCHANGED <<nextValue, counter, running, owned, slot, mem, promised,
                   leased>>

(* The GPU runs the oldest job of a queue; an upload fills its slot.        *)
ExecuteJob(q) ==
    /\ Execute(q)
    /\ LET j == cb[Head(running[q])].job IN
         mem' = IF j # NoJob /\ j.op = "upload"
                THEN [mem EXCEPT ![j.slot] = j.key] ELSE mem
    /\ UNCHANGED <<slot, lockWait, promised, leased>>

(* A caller keeps the ticket of an upload until it has reported it.         *)
HeldByCaller(c) == \E s \in Slots : promised[s] = c
HeldByTable(c) == lockWait = c \/ \E s \in Slots : slot[s].upload = c

QueueStep(c) ==
    /\ \/ \E q \in Queues : AllocateCommandBuffer(q, c)
       \/ Begin(c)
       \/ End(c)
       \/ \E ws \in {{}} \cup {{d} : d \in Events}, passed \in BOOLEAN :
            TakeValue(c, ws, passed)
       \/ QueueSubmit(c)
       \/ ~HeldByCaller(c) /\ DropTicket(c, HeldByTable(c))
    /\ UNCHANGED svars

(* A command that never reaches the GPU leaves its slot to be filled again. *)
Abandon(c) ==
    /\ DropCommandBuffer(c) \/ QueueSubmitFails(c)
    /\ promised' = [s \in Slots |-> IF promised[s] = c THEN Reserved
                                     ELSE promised[s]]
    /\ UNCHANGED <<slot, lockWait, mem, leased>>

TableStep ==
    \/ \E k \in Keys : Reserve(k) \/ AcquireForDispatch(k)
    \/ \E s \in Slots, c \in Commands, b \in Buffers :
         RecordUpload(c, s, b) \/ RecordDispatch(c, s, b)
    \/ \E s \in Slots, e \in Commands :
         \/ MarkUploadSubmitted(s, e)
         \/ MarkReady(s, e)
         \/ ReleaseFromDispatch(s, e)
         \/ Evict(s, e)

Next ==
    \/ \E c \in Commands : QueueStep(c) \/ Abandon(c)
    \/ TableStep
    \/ DropUploadClone
    \/ \E q \in Queues : ExecuteJob(q)
    \/ \E b \in Buffers : DropBuffer(b) /\ UNCHANGED svars

Spec == Init /\ [][Next]_vars

-----------------------------------------------------------------------------
(***************************************************************************)
(* A slot the table offers to dispatches holds its key's bytes, and every  *)
(* dispatch at the GPU reads the key it was acquired for from a slot no    *)
(* upload is writing - although mark_ready and evict accept events that    *)
(* have nothing to do with the slot.                                       *)
(***************************************************************************)
SlotsHoldTheirKeys ==
    /\ Unlocked => \A s \in Slots :
         slot[s].state \in {"Ready", "InFlight"} => mem[s] = slot[s].key
    /\ \A c \in AtGpu : cb[c].job # NoJob =>
         LET j == cb[c].job IN
         /\ j.op = "dispatch" => mem[j.slot] = j.key
         /\ \A d \in AtGpu \ {c} : cb[d].job # NoJob => cb[d].job.slot # j.slot
=============================================================================
