----------------------------- MODULE DirectIoProofs -----------------------------
(***************************************************************************)
(* The permits of DirectIo for any number of requests and any depth.       *)
(***************************************************************************)
EXTENDS DirectIo, FiniteSetTheorems, TLAPS

\* The four invariants together are inductive: a permit given back is one that was out
\* (PermitsOut) only because a returned worker is a permitted one (IoTypeOK), and the
\* wakeup that goes with it is the one NoLostWakeup needs.
IInv == IoTypeOK /\ PermitsOut /\ RequestsSettleOnce /\ NoLostWakeup

\* The sets the counters count are finite, and their cardinalities are numbers.
LEMMA PlacesFinite ==
    /\ IsFiniteSet(Permitted) /\ Cardinality(Permitted) \in Nat
    /\ \A p : IsFiniteSet(CallsAt(p)) /\ Cardinality(CallsAt(p)) \in Nat
<1>1. Permitted \subseteq Requests /\ \A p : CallsAt(p) \subseteq Requests
  BY DEF Permitted, CallsAt
<1> QED BY <1>1, DirectIoAssumption, FS_Subset, FS_CardinalityType

\* One more element, or one less, in a finite set.
LEMMA OneMore ==
    ASSUME NEW S, IsFiniteSet(S), NEW x, x \notin S
    PROVE  Cardinality(S \cup {x}) = Cardinality(S) + 1
  BY FS_AddElement
LEMMA OneLess ==
    ASSUME NEW S, IsFiniteSet(S), NEW x, x \in S
    PROVE  Cardinality(S \ {x}) = Cardinality(S) - 1
  BY FS_RemoveElement

\* Before the first call nothing is out and nobody waits.
LEMMA InitIInv == IoInit => IInv
<1> SUFFICES ASSUME IoInit PROVE IInv
  OBVIOUS
<1>1. Permitted = {} /\ CallsAt("Waiting") = {} /\ CallsAt("Returned") = {}
  BY DEF IoInit, Permitted, CallsAt
<1>2. Cardinality(Permitted) = 0
  BY <1>1, FS_EmptySet
<1>3. IoTypeOK
  BY <1>1, DirectIoAssumption DEF IoInit, IoTypeOK, Counts
<1>4. PermitsOut
  BY <1>2, DirectIoAssumption DEF IoInit, PermitsOut
<1>5. RequestsSettleOnce
  BY DEF IoInit, RequestsSettleOnce, Counts, Settled
<1>6. NoLostWakeup
  BY <1>1 DEF NoLostWakeup
<1> QED BY <1>3, <1>4, <1>5, <1>6 DEF IInv

\* A move of one request between two places neither of which holds a permit.
LEMMA StepWithoutPermit ==
    ASSUME IInv, NEW r \in Requests,
           Check(r) \/ Wait(r) \/ WakeUp(r)
    PROVE  IInv'
<1>1. IoTypeOK'
  BY DEF IInv, IoTypeOK, Check, Wait, WakeUp, CallsAt
<1>2. Permitted' = Permitted
  BY DEF IInv, IoTypeOK, Check, Wait, WakeUp, Permitted, CallsAt
<1>3. PermitsOut' /\ RequestsSettleOnce'
  BY <1>2 DEF IInv, PermitsOut, RequestsSettleOnce, Check, Wait, WakeUp
<1>4. NoLostWakeup'
  <2> SUFFICES ASSUME CallsAt("Waiting")' # {} PROVE Cardinality(CallsAt("Locking"))' >= Depth - inFlight'
    BY DEF NoLostWakeup
  <2>1. CASE Check(r)
    <3>1. CallsAt("Waiting")' = CallsAt("Waiting")
      BY <2>1 DEF IInv, IoTypeOK, Check, CallsAt
    <3>2. CallsAt("Locking")' = CallsAt("Locking") \/ CallsAt("Locking")' = CallsAt("Locking") \cup {r}
      BY <2>1 DEF IInv, IoTypeOK, Check, CallsAt
    <3>3. r \notin CallsAt("Locking")
      BY <2>1 DEF Check, CallsAt
    <3> QED BY <2>1, <3>1, <3>2, <3>3, PlacesFinite, OneMore, DirectIoAssumption
            DEF IInv, IoTypeOK, NoLostWakeup, Check
  <2>2. CASE Wait(r)
    <3>1. Cardinality(CallsAt("Locking"))' \in Nat
      <4>1. CallsAt("Locking")' \subseteq Requests
        BY DEF CallsAt
      <4> QED BY <4>1, DirectIoAssumption, FS_Subset, FS_CardinalityType
    <3> QED BY <2>2, <3>1, DirectIoAssumption DEF IInv, IoTypeOK, Wait
  <2>3. CASE WakeUp(r)
    <3>1. CallsAt("Waiting") # {} /\ CallsAt("Locking")' = CallsAt("Locking") \cup {r} /\ r \notin CallsAt("Locking")
      BY <2>3 DEF IInv, IoTypeOK, WakeUp, CallsAt
    <3> QED BY <2>3, <3>1, PlacesFinite, OneMore, DirectIoAssumption
            DEF IInv, IoTypeOK, NoLostWakeup, WakeUp
  <2> QED BY <2>1, <2>2, <2>3
<1> QED BY <1>1, <1>3, <1>4 DEF IInv

\* A call takes a permit only while there is one.
LEMMA StepTakePermit ==
    ASSUME IInv, NEW r \in Requests, TakePermit(r)
    PROVE  IInv'
<1>1. IoTypeOK'
  BY DEF IInv, IoTypeOK, TakePermit, CallsAt, Counts
<1>2. Permitted' = Permitted \cup {r} /\ r \notin Permitted
  BY DEF IInv, IoTypeOK, TakePermit, Permitted, CallsAt
<1>3. CallsAt("Locking")' = CallsAt("Locking") \ {r} /\ r \in CallsAt("Locking") /\ CallsAt("Waiting")' = CallsAt("Waiting")
  BY DEF IInv, IoTypeOK, TakePermit, CallsAt
<1>4. PermitsOut'
  BY <1>2, PlacesFinite, OneMore, DirectIoAssumption DEF IInv, IoTypeOK, PermitsOut, TakePermit
<1>5. RequestsSettleOnce'
  BY DEF IInv, IoTypeOK, RequestsSettleOnce, TakePermit, Counts, Settled
<1>6. NoLostWakeup'
  BY <1>3, PlacesFinite, OneLess, DirectIoAssumption DEF IInv, IoTypeOK, NoLostWakeup, TakePermit
<1> QED BY <1>1, <1>4, <1>5, <1>6 DEF IInv

\* What happens to a request while it holds its permit, a panic included, keeps it.
LEMMA StepHoldingPermit ==
    ASSUME IInv, NEW r \in Requests,
           Spawn(r) \/ ReadChunk(r) \/ StopReading(r) \/ Cancel(r)
    PROVE  IInv'
<1>1. IoTypeOK'
  <2>1. CASE Spawn(r)
    BY <2>1 DEF IInv, IoTypeOK, Spawn, CallsAt
  <2>2. CASE ReadChunk(r)
    <3>1. left' \in [Requests -> Nat]
      BY <2>2 DEF IInv, IoTypeOK, ReadChunk
    <3> QED BY <2>2, <3>1 DEF IInv, IoTypeOK, ReadChunk, CallsAt
  <2>3. CASE Cancel(r)
    BY <2>3 DEF IInv, IoTypeOK, Cancel, CallsAt
  <2>4. CASE StopReading(r)
    <3>1. PICK o \in Settled : Return(r, o)
      BY <2>4 DEF StopReading, Settled
    <3>2. o # "None" /\ r \in Requests
      BY DEF Settled
    <3>3. pc' = [pc EXCEPT ![r] = "Returned"] /\ result' = [result EXCEPT ![r] = o]
          /\ UNCHANGED <<left, cancel, inFlight, accounting, closed>>
      BY <3>1 DEF Return
    <3>4. \A q \in CallsAt("Returned")' : result'[q] # "None"
      BY <3>2, <3>3 DEF IInv, IoTypeOK, CallsAt
    <3>5. pc' \in [Requests -> {"New", "Refused", "Locking", "Waiting", "Admitted", "Reading",
                               "Returned", "Done", "Panicked"}]
          /\ result' \in [Requests -> Settled \cup {"None"}]
      BY <3>3 DEF IInv, IoTypeOK
    <3> QED BY <3>3, <3>4, <3>5 DEF IInv, IoTypeOK
  <2> QED BY <2>1, <2>2, <2>3, <2>4
<1>2. Permitted' = Permitted
  BY DEF IInv, IoTypeOK, Spawn, ReadChunk, StopReading, Return, Cancel, Permitted, CallsAt
<1>3. CallsAt("Waiting")' = CallsAt("Waiting") /\ CallsAt("Locking")' = CallsAt("Locking")
  BY DEF IInv, IoTypeOK, Spawn, ReadChunk, StopReading, Return, Cancel, CallsAt
<1>4. inFlight' = inFlight /\ accounting' = accounting
  BY DEF Spawn, ReadChunk, StopReading, Return, Cancel
<1> QED BY <1>1, <1>2, <1>3, <1>4 DEF IInv, PermitsOut, RequestsSettleOnce, NoLostWakeup

\* A worker gives back the permit it had, and the call it wakes makes up for it.
LEMMA StepFinish ==
    ASSUME IInv, NEW r \in Requests, Finish(r)
    PROVE  IInv'
<1>1. PICK woken \in Notify : pc' = [woken EXCEPT ![r] = "Done"]
  BY DEF Finish
<1>2. \/ CallsAt("Waiting") = {} /\ woken = pc
      \/ \E w \in CallsAt("Waiting") : woken = [pc EXCEPT ![w] = "Locking"]
  BY <1>1 DEF Notify
<1>3. r \in Permitted /\ r \notin CallsAt("Waiting") /\ r \notin CallsAt("Locking") /\ result[r] \in Settled
  BY DEF IInv, IoTypeOK, Finish, Permitted, CallsAt, Settled
<1>4. Permitted' = Permitted \ {r}
  BY <1>1, <1>2, <1>3 DEF IInv, IoTypeOK, Finish, Permitted, CallsAt
<1>5. inFlight > 0 /\ inFlight' = inFlight - 1
  BY <1>3, PlacesFinite, FS_EmptySet DEF IInv, IoTypeOK, PermitsOut, Finish
<1>6. IoTypeOK'
  <2>1. woken \in [Requests -> {"New", "Refused", "Locking", "Waiting", "Admitted", "Reading",
                                "Returned", "Done", "Panicked"}]
    BY <1>2 DEF IInv, IoTypeOK, CallsAt
  <2>2. CallsAt("Returned")' \subseteq CallsAt("Returned")
    BY <1>1, <1>2, <2>1 DEF CallsAt
  <2>3. accounting' \in [Counts -> Nat]
    BY <1>3 DEF IInv, IoTypeOK, Finish, Counts, Settled
  <2>4. inFlight' \in Nat
    BY <1>5 DEF IInv, IoTypeOK
  <2>5. pc' \in [Requests -> {"New", "Refused", "Locking", "Waiting", "Admitted", "Reading",
                              "Returned", "Done", "Panicked"}]
    BY <1>1, <2>1
  <2> QED BY <2>2, <2>3, <2>4, <2>5 DEF IInv, IoTypeOK, Finish
<1>7. PermitsOut'
  BY <1>3, <1>4, <1>5, PlacesFinite, OneLess, DirectIoAssumption DEF IInv, IoTypeOK, PermitsOut
<1>8. RequestsSettleOnce'
  BY <1>3, <1>5 DEF IInv, IoTypeOK, RequestsSettleOnce, Finish, Counts, Settled
<1>9. NoLostWakeup'
  <2>1. CASE CallsAt("Waiting") = {} /\ woken = pc
    BY <1>1, <2>1 DEF IInv, IoTypeOK, NoLostWakeup, CallsAt
  <2>2. CASE \E w \in CallsAt("Waiting") : woken = [pc EXCEPT ![w] = "Locking"]
    <3>1. PICK w \in CallsAt("Waiting") : woken = [pc EXCEPT ![w] = "Locking"]
      BY <2>2
    <3>2. CallsAt("Locking")' = CallsAt("Locking") \cup {w} /\ w \notin CallsAt("Locking")
      BY <1>1, <1>3, <3>1 DEF IInv, IoTypeOK, CallsAt
    <3> QED BY <1>5, <3>1, <3>2, PlacesFinite, OneMore, DirectIoAssumption
            DEF IInv, IoTypeOK, NoLostWakeup
  <2> QED BY <1>2, <2>1, <2>2
<1> QED BY <1>6, <1>7, <1>8, <1>9 DEF IInv

\* close wakes everybody, so nobody waits.
LEMMA StepClose == IInv /\ Close => IInv'
<1> SUFFICES ASSUME IInv, Close PROVE IInv'
  OBVIOUS
<1>1. IoTypeOK'
  BY DEF IInv, IoTypeOK, Close, CallsAt
<1>2. Permitted' = Permitted /\ CallsAt("Waiting")' = {}
  BY DEF IInv, IoTypeOK, Close, Permitted, CallsAt
<1> QED BY <1>1, <1>2 DEF IInv, PermitsOut, RequestsSettleOnce, NoLostWakeup, Close

\* Every step keeps the inductive invariant.
LEMMA NextIInv == IInv /\ [IoNext]_ioVars => IInv'
<1> SUFFICES ASSUME IInv, [IoNext]_ioVars PROVE IInv'
  OBVIOUS
<1>1. CASE Close
  BY <1>1, StepClose
<1>2. CASE \E r \in Requests : Proceed(r) \/ WakeUp(r) \/ Cancel(r)
  <2>1. PICK r \in Requests : Proceed(r) \/ WakeUp(r) \/ Cancel(r)
    BY <1>2
  <2>2. CASE Check(r) \/ Wait(r) \/ WakeUp(r)
    BY <2>2, StepWithoutPermit
  <2>3. CASE TakePermit(r)
    BY <2>3, StepTakePermit
  <2>4. CASE Spawn(r) \/ ReadChunk(r) \/ StopReading(r) \/ Cancel(r)
    BY <2>4, StepHoldingPermit
  <2>5. CASE Finish(r)
    BY <2>5, StepFinish
  <2> QED BY <2>1, <2>2, <2>3, <2>4, <2>5 DEF Proceed
<1>3. CASE UNCHANGED ioVars
  BY <1>3 DEF ioVars, IInv, IoTypeOK, PermitsOut, RequestsSettleOnce, NoLostWakeup, Permitted, CallsAt
<1> QED BY <1>1, <1>2, <1>3 DEF IoNext

\* In every state of the engine the inductive invariant holds.
THEOREM Inductive == IoSpec => []IInv
<1> QED BY InitIInv, NextIInv, PTL DEF IoSpec

\* The engine's variables keep their types (submit, read_one, close).
THEOREM TypeCorrect == IoSpec => []IoTypeOK
<1>1. IInv => IoTypeOK
  BY DEF IInv
<1> QED BY <1>1, Inductive, PTL

\* in_flight is what is out and never more than queue_depth, whatever the number of
\* callers, and a panic loses the one permit of its request and no other.
THEOREM PermitsBounded == IoSpec => []PermitsOut
<1>1. IInv => PermitsOut
  BY DEF IInv
<1> QED BY <1>1, Inductive, PTL

\* IoAccounting counts every request once.
THEOREM AccountingBalanced == IoSpec => []RequestsSettleOnce
<1>1. IInv => RequestsSettleOnce
  BY DEF IInv
<1> QED BY <1>1, Inductive, PTL

\* notify_one for each permit given back is enough for any number of callers.
THEOREM WakeupsSuffice == IoSpec => []NoLostWakeup
<1>1. IInv => NoLostWakeup
  BY DEF IInv
<1> QED BY <1>1, Inductive, PTL
=============================================================================
