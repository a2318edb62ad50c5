---------------------------- MODULE VulkanQueue ----------------------------
(***************************************************************************)
(* Queues, command buffers, timeline events and tickets of the Vulkan      *)
(* boundary (har-vulkan/src/lib.rs).  A command buffer is recorded, moved  *)
(* into a submission and kept alive by the events cloned from its ticket;  *)
(* dropping any clone waits for the submission and frees the command.      *)
(* The GPU is the environment: it starts a queue's submissions in order,   *)
(* signals the queue's one timeline semaphore in that order, and starts    *)
(* none before the semaphore values it waits for.                          *)
(***************************************************************************)
EXTENDS Naturals, Sequences, FiniteSets

CONSTANTS
    Queues,      \* the queues of one device
    Commands,    \* command-buffer handles the pools can hand out
    Buffers,     \* buffers a command may use
    Jobs,        \* what a recorded command does (its payload)
    NoJob,       \* the payload of a command nothing was recorded in
    MaxValue,    \* bound: submissions per queue
    OneSubmitter \* TRUE: a queue is submitted to by one thread at a time

None == "none"

ASSUME QueueAssumption == /\ MaxValue \in Nat \ {0} /\ Queues # {}
                          /\ OneSubmitter \in BOOLEAN
                          /\ NoJob \notin Jobs /\ None \notin Commands

VARIABLES
    nextValue,  \* [Queues -> Nat]: QueueInner.next_value
    counter,    \* [Queues -> Nat]: the timeline semaphore's value
    running,    \* [Queues -> Seq(Commands)]: submitted, not signalled
    cb,         \* [Commands -> CommandBuffer]: the handle and its event
    owned       \* SUBSET Buffers: those the caller holds

qvars == <<nextValue, counter, running, cb, owned>>

(***************************************************************************)
(* "none": not allocated, or freed with no event left; "taken": consumed   *)
(* by submit, which has drawn its value and not yet called queue_submit;   *)
(* "pending": at the GPU; "done": executed; "freed": the handle is back in *)
(* its pool while clones of the submission's event live on.                *)
(***************************************************************************)
Stages == {"none", "initial", "recording", "ended", "taken", "pending",
           "done", "freed"}

(* Whether a descriptor set names the buffer, and whether submit was given  *)
(* it: recording keeps nothing, and submit keeps the sets passed to it.     *)
SetsOf == {"none", "bound", "kept"}

CommandBuffer == [stage : Stages, home : Queues, value : 0..MaxValue,
                  waits : SUBSET (Queues \X (1..MaxValue)),
                  job : Jobs \cup {NoJob}, uses : Buffers \cup {None},
                  sets : SetsOf, ticket : BOOLEAN]

Unallocated == [stage |-> "none", home |-> CHOOSE q \in Queues : TRUE,
                value |-> 0, waits |-> {}, job |-> NoJob, uses |-> None,
                sets |-> "none", ticket |-> FALSE]

QTypeOK ==
    /\ nextValue \in [Queues -> 0..MaxValue]
    /\ counter \in [Queues -> 0..MaxValue]
    /\ running \in [Queues -> Seq(Commands)]
    /\ cb \in [Commands -> CommandBuffer]
    /\ owned \subseteq Buffers

QInit ==
    /\ nextValue = [q \in Queues |-> 0]
    /\ counter = [q \in Queues |-> 0]
    /\ running = [q \in Queues |-> <<>>]
    /\ cb = [c \in Commands |-> Unallocated]
    /\ owned = Buffers

(* TimelineEvent::is_complete: the semaphore has reached the event's value. *)
IsComplete(c) == counter[cb[c].home] >= cb[c].value

(* The submissions some caller holds an event of.                           *)
Events == {c \in Commands : cb[c].ticket}

(* A buffer lives while the caller owns it or a set that was passed to      *)
(* submit names it, until the submission's keepalive is taken.              *)
Retains(c, b) ==
    /\ cb[c].uses = b /\ cb[c].sets = "kept"
    /\ cb[c].stage \notin {"none", "freed"}

Alive(b) == b \in owned \/ \E c \in Commands : Retains(c, b)

-----------------------------------------------------------------------------
(* Queue::allocate_command_buffer: a fresh handle of this queue's pool.     *)
AllocateCommandBuffer(q, c) ==
    /\ cb[c].stage = "none"
    /\ cb' = [cb EXCEPT ![c] = [Unallocated EXCEPT !.stage = "initial",
                                                   !.home = q]]
    /\ UNCHANGED <<nextValue, counter, running, owned>>

(* CommandBuffer::begin refuses one that was begun or ended before.         *)
Begin(c) ==
    /\ cb[c].stage = "initial"
    /\ cb' = [cb EXCEPT ![c].stage = "recording"]
    /\ UNCHANGED <<nextValue, counter, running, owned>>

(* bind_pipeline, bind_descriptor_set, push_constants and dispatch of one   *)
(* kernel whose set names buffer b, or copy_buffer from b.  A set holds the *)
(* buffers it names, and its owner need not hold them too.                  *)
Record(c, j, b, isCopy) ==
    /\ cb[c].stage = "recording" /\ cb[c].job = NoJob
    /\ isCopy => b \in owned
    /\ cb' = [cb EXCEPT ![c].job = j, ![c].uses = b,
                        ![c].sets = IF isCopy THEN "none" ELSE "bound"]
    /\ UNCHANGED <<nextValue, counter, running, owned>>

(* CommandBuffer::end.                                                      *)
End(c) ==
    /\ cb[c].stage = "recording"
    /\ cb' = [cb EXCEPT ![c].stage = "ended"]
    /\ UNCHANGED <<nextValue, counter, running, owned>>

(* Drop of a CommandBuffer never submitted frees its handle.                *)
DropCommandBuffer(c) ==
    /\ cb[c].stage \in {"initial", "recording", "ended"}
    /\ cb' = [cb EXCEPT ![c] = Unallocated]
    /\ UNCHANGED <<nextValue, counter, running, owned>>

\* Variant: the value is read before it is increased.
TakeOldValue(c, ws, passed) ==
    LET q == cb[c].home IN
    /\ cb[c].stage = "ended" /\ nextValue[q] < MaxValue
    /\ OneSubmitter =>
         \A d \in Commands : cb[d].stage = "taken" => cb[d].home # q
    /\ nextValue' = [nextValue EXCEPT ![q] = @ + 1]
    /\ cb' = [cb EXCEPT ![c].stage = "taken", ![c].value = nextValue[q]]
    /\ UNCHANGED <<counter, running, owned>>

(* Queue::submit, up to the unlock of the counter: the command is consumed  *)
(* and draws the next value of its queue.  It may wait for any events the   *)
(* caller holds; the caller passes the set it bound, or does not:           *)
(* submit_transfer takes none.                                              *)
TakeValue(c, ws, passed) ==
    LET q == cb[c].home IN
    /\ cb[c].stage = "ended"
    /\ nextValue[q] < MaxValue
    /\ OneSubmitter =>
         \A d \in Commands : cb[d].stage = "taken" => cb[d].home # q
    /\ nextValue' = [nextValue EXCEPT ![q] = @ + 1]
    /\ cb' = [cb EXCEPT ![c].stage = "taken", ![c].value = nextValue[q] + 1,
                        ![c].waits = {<<cb[d].home, cb[d].value>> : d \in ws},
                        ![c].sets = IF passed /\ @ = "bound" THEN "kept" ELSE @]
    /\ UNCHANGED <<counter, running, owned>>

(* Queue::submit, the queue_submit that succeeds: the ticket holds the      *)
(* first event, whose keepalive holds the command and its sets.             *)
QueueSubmit(c) ==
    /\ cb[c].stage = "taken"
    /\ cb' = [cb EXCEPT ![c].stage = "pending", ![c].ticket = TRUE]
    /\ running' = [running EXCEPT ![cb[c].home] = Append(@, c)]
    /\ UNCHANGED <<nextValue, counter, owned>>

(* The queue_submit that fails frees the command; its value is never        *)
(* signalled by anyone.                                                     *)
QueueSubmitFails(c) ==
    /\ cb[c].stage = "taken"
    /\ cb' = [cb EXCEPT ![c] = Unallocated]
    /\ UNCHANGED <<nextValue, counter, running, owned>>

(* The GPU finishes the oldest submission of a queue and signals its value. *)
(* A timeline semaphore's value only grows: a late, lower signal is lost.   *)
Execute(q) ==
    /\ running[q] # <<>>
    /\ LET c == Head(running[q]) IN
         /\ \A w \in cb[c].waits : counter[w[1]] >= w[2]
         /\ cb' = [cb EXCEPT ![c].stage = IF @ = "pending" THEN "done" ELSE @]
         /\ counter' = [counter EXCEPT
                          ![q] = IF cb[c].value > @ THEN cb[c].value ELSE @]
    /\ running' = [running EXCEPT ![q] = Tail(@)]
    /\ UNCHANGED <<nextValue, owned>>

(* Drop of one clone of the event waits for the value, then takes the       *)
(* keepalive: the command handle and the retained sets are freed.           *)
FreeCommand(r) == IF r.stage \in {"pending", "done"}
                  THEN [r EXCEPT !.stage = "freed"] ELSE r

(* A freed handle nobody holds an event of is the pool's to hand out again. *)
Settle(r, held) == IF r.stage = "freed" /\ ~held THEN Unallocated ELSE r

(* Drop of a ComputeTicket or TransferTicket, with every event the caller   *)
(* cloned from it; `held`: a clone lives elsewhere.                         *)
DropTicket(c, held) ==
    /\ cb[c].ticket
    /\ IsComplete(c)
    /\ cb' = [cb EXCEPT ![c] = Settle([FreeCommand(@) EXCEPT !.ticket = FALSE],
                                      held)]
    /\ UNCHANGED <<nextValue, counter, running, owned>>

(* Drop of the caller's Buffer.                                             *)
DropBuffer(b) ==
    /\ b \in owned
    /\ owned' = owned \ {b}
    /\ UNCHANGED <<nextValue, counter, running, cb>>

-----------------------------------------------------------------------------
(* Submissions still at the GPU.                                            *)
AtGpu == {c \in Commands : \E q \in Queues : \E i \in 1..Len(running[q]) :
                              running[q][i] = c}

(***************************************************************************)
(* An event is complete only when its own command has been executed: no    *)
(* wrapper is told that work is over which the GPU still has, so the       *)
(* SubmittedRaw::drop comment "command execution is complete before pool   *)
(* free" holds.  It relates the values drawn under the counter's lock to   *)
(* the order of the queue_submit calls made after it is released.          *)
(***************************************************************************)
EventsMeanExecuted ==
    /\ \A c \in Events : IsComplete(c) => c \notin AtGpu
    /\ \A c \in AtGpu : cb[c].stage = "pending"

(***************************************************************************)
(* A set that was passed to submit keeps its buffers alive while the GPU   *)
(* can reach them, whatever the caller drops and whichever clone of the    *)
(* event goes first.  Of a set that was only bound, and of the buffers of  *)
(* a copy, nothing is kept (README, section 5).                            *)
(***************************************************************************)
DispatchBuffersAlive ==
    \A c \in AtGpu : cb[c].sets = "kept" => Alive(cb[c].uses)
=============================================================================
