-------------------------------- MODULE DirectIo --------------------------------
(***************************************************************************)
(* har-storage/src/direct_io.rs: a bounded number of positioned reads, each *)
(* on a thread of its own.                                                 *)
(*                                                                         *)
(* Callers of submit, workers and close() interleave at the mutex and at   *)
(* the two atomic flags.  A request stands for the call that submits it    *)
(* and for its worker; any number of calls may be under way at once.  Data *)
(* are abstracted to the number of chunks a read takes; alignment, bounce  *)
(* buffers, time stamps and byte totals are left out.                      *)
(***************************************************************************)
EXTENDS Integers, FiniteSets

CONSTANTS
    Requests,
    Depth,      \* Inner::queue_depth
    Chunks,     \* how many chunks each request reads
    Hopeless    \* requests whose thread cannot start or whose buffer cannot be had: a panic

ASSUME DirectIoAssumption ==
    /\ IsFiniteSet(Requests) /\ Depth \in Nat \ {0}
    /\ Chunks \in [Requests -> Nat] /\ Hopeless \subseteq Requests

VARIABLES
    pc,         \* where each request is
    left,       \* chunks it has still to read
    result,     \* what read_one returned
    cancel,     \* the flag its handle shares with its worker
    inFlight,   \* QueueState::in_flight
    accounting, \* IoAccounting, the counts
    closed

ioVars == <<pc, left, result, cancel, inFlight, accounting, closed>>

CallsAt(p)    == {r \in Requests : pc[r] = p}
Settled  == {"Ok", "Cancelled", "Failed"}
Counts   == {"Requests"} \cup Settled

IoInit ==
    /\ pc = [r \in Requests |-> "New"] /\ left = Chunks
    /\ result = [r \in Requests |-> "None"] /\ cancel = [r \in Requests |-> FALSE]
    /\ inFlight = 0 /\ accounting = [c \in Counts |-> 0] /\ closed = FALSE

(***************************************************************************)
(* submit: closed is read once, before the lock.                           *)
(***************************************************************************)
Check(r) ==
    /\ pc[r] = "New"
    /\ pc' = [pc EXCEPT ![r] = IF closed THEN "Refused" ELSE "Locking"]
    /\ UNCHANGED <<left, result, cancel, inFlight, accounting, closed>>

\* The lock is held from here to the wait or to the permit.
Wait(r) ==
    /\ pc[r] = "Locking" /\ inFlight >= Depth
    /\ pc' = [pc EXCEPT ![r] = "Waiting"]
    /\ UNCHANGED <<left, result, cancel, inFlight, accounting, closed>>

TakePermit(r) ==
    /\ pc[r] = "Locking" /\ inFlight < Depth
    /\ pc' = [pc EXCEPT ![r] = "Admitted"]
    /\ inFlight' = inFlight + 1
    /\ accounting' = [accounting EXCEPT !["Requests"] = @ + 1]
    /\ UNCHANGED <<left, result, cancel, closed>>

\* Condvar::wait may return on its own; the loop then looks at the permits again.
WakeUp(r) ==
    /\ pc[r] = "Waiting"
    /\ pc' = [pc EXCEPT ![r] = "Locking"]
    /\ UNCHANGED <<left, result, cancel, inFlight, accounting, closed>>

Spawn(r) ==
    /\ pc[r] = "Admitted"
    /\ pc' = [pc EXCEPT ![r] = IF r \in Hopeless THEN "Panicked" ELSE "Reading"]
    /\ UNCHANGED <<left, result, cancel, inFlight, accounting, closed>>

(***************************************************************************)
(* read_one: the flag is looked at before each chunk; a chunk, opening the *)
(* file, or the count at the end can fail; an empty read does none of it.  *)
(***************************************************************************)
Return(r, outcome) ==
    /\ pc' = [pc EXCEPT ![r] = "Returned"] /\ result' = [result EXCEPT ![r] = outcome]
    /\ UNCHANGED <<left, cancel, inFlight, accounting, closed>>

ReadChunk(r) ==
    /\ pc[r] = "Reading" /\ left[r] > 0 /\ ~cancel[r]
    /\ left' = [left EXCEPT ![r] = @ - 1]
    /\ UNCHANGED <<pc, result, cancel, inFlight, accounting, closed>>

StopReading(r) ==
    /\ pc[r] = "Reading"
    /\ \/ left[r] = 0 /\ Return(r, "Ok")
       \/ left[r] > 0 /\ cancel[r] /\ Return(r, "Cancelled")
       \/ Chunks[r] > 0 /\ Return(r, "Failed")

(***************************************************************************)
(* The worker gives its permit back, counts its result and wakes one       *)
(* waiting call, under the lock.  The variant wakes nobody unless the      *)
(* queue was full.                                                         *)
(***************************************************************************)
NotifyIfFull ==
    IF CallsAt("Waiting") = {} \/ inFlight < Depth THEN {pc}
    ELSE {[pc EXCEPT ![w] = "Locking"] : w \in CallsAt("Waiting")}
Notify ==
    IF CallsAt("Waiting") = {} THEN {pc}
    ELSE {[pc EXCEPT ![w] = "Locking"] : w \in CallsAt("Waiting")}

\* The variant settles a cancelled read without giving the permit back.
FinishKeepingPermit(r) ==
    /\ pc[r] = "Returned"
    /\ inFlight' = IF result[r] = "Cancelled" THEN inFlight ELSE inFlight - 1
    /\ accounting' = [accounting EXCEPT ![result[r]] = @ + 1]
    /\ \E woken \in Notify : pc' = [woken EXCEPT ![r] = "Done"]
    /\ UNCHANGED <<left, result, cancel, closed>>
Finish(r) ==
    /\ pc[r] = "Returned"
    /\ inFlight' = IF inFlight > 0 THEN inFlight - 1 ELSE 0
    /\ accounting' = [accounting EXCEPT ![result[r]] = @ + 1]
    /\ \E woken \in Notify : pc' = [woken EXCEPT ![r] = "Done"]
    /\ UNCHANGED <<left, result, cancel, closed>>

\* ReadHandle::cancel, by whoever holds the handle; a read in its last chunk misses it.
Cancel(r) ==
    /\ pc[r] \in {"Reading", "Returned", "Done"} /\ ~cancel[r]
    /\ cancel' = [cancel EXCEPT ![r] = TRUE]
    /\ UNCHANGED <<pc, left, result, inFlight, accounting, closed>>

\* close stores the flag and wakes every waiting call; none of them looks at it again,
\* and a wakeup between the two is one more WakeUp.
Close ==
    /\ ~closed /\ closed' = TRUE
    /\ pc' = [r \in Requests |-> IF pc[r] = "Waiting" THEN "Locking" ELSE pc[r]]
    /\ UNCHANGED <<left, result, cancel, inFlight, accounting>>

Proceed(r) ==
    \/ Check(r) \/ Wait(r) \/ TakePermit(r) \/ Spawn(r)
    \/ ReadChunk(r) \/ StopReading(r) \/ Finish(r)

IoNext == Close \/ \E r \in Requests : Proceed(r) \/ WakeUp(r) \/ Cancel(r)

IoSpec == IoInit /\ [][IoNext]_ioVars

\* Threads that can run do, and a read returns.  Nobody has to cancel or close, and
\* nothing but a notification has to end a wait.
IoFairSpec == IoSpec /\ \A r \in Requests : WF_ioVars(Proceed(r))

-----------------------------------------------------------------------------
(***************************************************************************)
(* Properties.                                                             *)
(***************************************************************************)
Permitted == CallsAt("Admitted") \cup CallsAt("Reading") \cup CallsAt("Returned") \cup CallsAt("Panicked")

\* Every variable keeps its type, and a worker that returned has a result.
IoTypeOK ==
    /\ pc \in [Requests -> {"New", "Refused", "Locking", "Waiting", "Admitted", "Reading",
                            "Returned", "Done", "Panicked"}]
    /\ left \in [Requests -> Nat] /\ cancel \in [Requests -> BOOLEAN]
    /\ result \in [Requests -> Settled \cup {"None"}]
    /\ \A r \in CallsAt("Returned") : result[r] # "None"
    /\ inFlight \in Nat /\ accounting \in [Counts -> Nat] /\ closed \in BOOLEAN

\* The permits that are out are those of the requests admitted and not finished, never
\* more than the depth; a panicked one is out for good.
PermitsOut == inFlight = Cardinality(Permitted) /\ inFlight <= Depth

\* What was asked for is settled once or still out.
RequestsSettleOnce ==
    accounting["Requests"]
        = accounting["Ok"] + accounting["Cancelled"] + accounting["Failed"] + inFlight

\* No wakeup is lost: while calls wait, there is for every free permit a call on its way
\* to the lock, whoever else came in between.
NoLostWakeup ==
    CallsAt("Waiting") # {} => Cardinality(CallsAt("Locking")) >= Depth - inFlight

\* As long as panics leave one permit, every call of submit comes back and every
\* worker finishes.
EveryCallReturns ==
    Cardinality(Hopeless) < Depth =>
        \A r \in Requests : <>(pc[r] \in {"Refused", "Done", "Panicked"})
=============================================================================
