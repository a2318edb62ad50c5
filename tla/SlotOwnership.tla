---------------------------- MODULE SlotOwnership ----------------------------
(***************************************************************************)
(* What the residency manager promises about VRAM, whatever its callers,   *)
(* its transfers and its failures do: a slot is empty or holds one page at *)
(* one generation; it changes hands only through empty; a page never holds *)
(* two slots; a slot in use by a compute lease is neither emptied nor      *)
(* handed to anyone else until that use ends.                              *)
(*                                                                         *)
(* The promise is the one stated at manager.rs:131-133: "Slot reuse is     *)
(* never implicit.  The residency manager must first evict the old page".  *)
(***************************************************************************)
EXTENDS Integers

CONSTANTS Pages, Slots, Generation

VARIABLES
    owner,   \* the pages (at most one) each slot holds, with their generation
    inUse    \* the slots a compute lease protects

Claims == [page : Pages, gen : Generation]
svars  == <<owner, inUse>>

Init == /\ owner = [s \in Slots |-> {}]
        /\ inUse = {}

Claim(s, c) ==
    /\ owner[s] = {}
    /\ \A r \in Slots : \A d \in owner[r] : d.page # c.page
    /\ owner' = [owner EXCEPT ![s] = {c}]
    /\ UNCHANGED inUse

Release(s) ==
    /\ owner[s] # {} /\ s \notin inUse
    /\ owner' = [owner EXCEPT ![s] = {}]
    /\ UNCHANGED inUse

Use(s) ==
    /\ owner[s] # {} /\ s \notin inUse
    /\ inUse' = inUse \cup {s}
    /\ UNCHANGED owner

EndUse(s) ==
    /\ s \in inUse
    /\ inUse' = inUse \ {s}
    /\ UNCHANGED owner

Next == \E s \in Slots :
    \/ \E c \in Claims : Claim(s, c)
    \/ Release(s)
    \/ Use(s)
    \/ EndUse(s)

Spec == Init /\ [][Next]_svars
=============================================================================
