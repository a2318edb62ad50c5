----------------------------- MODULE PinnedPool -----------------------------
(***************************************************************************)
(* The pinned host staging pool (har-memory/src/pinned_pool.rs): first fit *)
(* over free blocks, reservations rounded up to the alignment, handles     *)
(* checked on release, neighbours coalesced.                               *)
(***************************************************************************)
EXTENDS Naturals, FiniteSets, FiniteSetsExt

CONSTANTS PoolBytes, Alignment, Requests,
          MaxHandles   \* bound: acquisitions in a behaviour

ASSUME PoolAssumption == /\ PoolBytes \in Nat \ {0} /\ Alignment \in Nat \ {0}
                         /\ Requests \subseteq Nat \ {0} /\ MaxHandles \in Nat

VARIABLES free,    \* set of blocks [start, end)
          inUse,   \* set of live handles
          issued   \* every handle ever returned: callers may keep them
pvars == <<free, inUse, issued>>

Block == [start : 0..PoolBytes, end : 0..PoolBytes]
Handle == [id : 1..MaxHandles, offset : 0..PoolBytes, bytes : Requests]

PTypeOK == free \subseteq Block /\ inUse \subseteq issued /\ issued \subseteq Handle

PInit == free = {[start |-> 0, end |-> PoolBytes]} /\ inUse = {} /\ issued = {}

RoundUp(b) == ((b + Alignment - 1) \div Alignment) * Alignment
Misalign(s) == (Alignment - (s % Alignment)) % Alignment
NonEmpty(B) == {b \in B : b.start < b.end}

ReservedBytes(h) == [start |-> h.offset, end |-> h.offset + RoundUp(h.bytes)]

(* acquire: the lowest block that holds the rounded size after alignment.   *)
Acquire(b) ==
    LET Fit == {f \in free : f.end - f.start >= Misalign(f.start) + RoundUp(b)} IN
    /\ Cardinality(issued) < MaxHandles
    /\ Fit # {}
    /\ LET f == CHOOSE g \in Fit : \A e \in Fit : g.start <= e.start
           h == [id |-> Cardinality(issued) + 1,
                 offset |-> f.start + Misalign(f.start), bytes |-> b]
       IN /\ free' = (free \ {f}) \cup
                     NonEmpty({[start |-> f.start, end |-> h.offset],
                               [start |-> ReservedBytes(h).end, end |-> f.end]})
          /\ inUse' = inUse \cup {h}
          /\ issued' = issued \cup {h}

\* Variant: only the block before is merged.
MergeLeft(start, end) ==
    LET L == {f \in free : f.end = start}
    IN (free \ L) \cup {[start |-> Min({start} \cup {f.start : f \in L}), end |-> end]}

(* insert_free: merge with the block that ends where this one starts and    *)
(* with the one that starts where it ends.                                  *)
InsertFree(start, end) ==
    LET L == {f \in free : f.end = start}
        R == {f \in free : f.start = end}
    IN (free \ (L \cup R)) \cup
       {[start |-> Min({start} \cup {f.start : f \in L}),
         end |-> Max({end} \cup {f.end : f \in R})]}

(* release: a handle that is not the live one at its offset is refused.     *)
Release(h) ==
    /\ h \in inUse
    /\ inUse' = inUse \ {h}
    /\ free' = InsertFree(h.offset, ReservedBytes(h).end)
    /\ UNCHANGED issued

PNext == \/ \E b \in Requests : Acquire(b)
         \/ \E h \in issued : Release(h)

(***************************************************************************)
(* Every byte of the region is in exactly one free block or reservation,   *)
(* reservations are aligned, and no two free blocks touch - so whatever    *)
(* was released can be acquired again in one piece.                        *)
(***************************************************************************)
PoolTiled ==
    LET Parts == free \cup {ReservedBytes(h) : h \in inUse}
        Holds(p, x) == p.start <= x /\ x < p.end
    IN /\ \A x \in 0..(PoolBytes - 1) :
            Cardinality({f \in free : Holds(f, x)})
              + Cardinality({h \in inUse : Holds(ReservedBytes(h), x)}) = 1
       /\ \A p \in Parts : p.start < p.end /\ p.end <= PoolBytes
       /\ \A h \in inUse : h.offset % Alignment = 0
       /\ \A f, g \in free : f.end # g.start
=============================================================================
