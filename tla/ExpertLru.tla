----------------------------- MODULE ExpertLru -----------------------------
(***************************************************************************)
(* The timestamp-LRU expert cache (har-residency/src/expert_lru.rs).       *)
(* Victims leave in the order of (last use, size); between equals the code *)
(* takes whichever its HashMap yields first, here any of them.             *)
(***************************************************************************)
EXTENDS Naturals, FiniteSets, Functions

CONSTANTS Pages, Sizes, Capacity,
          MaxTime   \* bound: the times callers pass

ASSUME LruAssumption == /\ Capacity \in Nat \ {0}
                        /\ Sizes \subseteq Nat

VARIABLES cache,     \* function from the resident pages to their Entry
          resident,  \* resident_bytes
          lruOp      \* ghost: the last call, for the properties
lvars == <<cache, resident, lruOp>>

Entry == [bytes : Sizes, used : 0..MaxTime, pins : 0..2]

LTypeOK == /\ DOMAIN cache \subseteq Pages
           /\ \A p \in DOMAIN cache : cache[p] \in Entry
           /\ resident \in Nat

LInit == /\ cache = [p \in {} |-> 0]
         /\ resident = 0
         /\ lruOp = "new"

SizeOf(E, S) == SumFunctionOnSet([p \in DOMAIN E |-> E[p].bytes], S)
Keeping(E, S) == [p \in DOMAIN E \ S |-> E[p]]

NotAfter(E, p, q) == \/ E[p].used < E[q].used
                     \/ E[p].used = E[q].used /\ E[p].bytes <= E[q].bytes

Unpinned(E) == {p \in DOMAIN E : E[p].pins = 0}

(***************************************************************************)
(* The sets of victims the eviction loops may take from E, which holds     *)
(* `used` bytes, until `limit` holds: a prefix of the eviction order, no   *)
(* longer than needed, or every unpinned page when even that is too little.*)
(***************************************************************************)
LruVictims(E, used, limit) ==
    LET U == Unpinned(E)
        Fits(V) == used - SizeOf(E, V) <= limit
    IN {V \in SUBSET U :
          /\ \A v \in V, w \in U \ V : NotAfter(E, v, w)
          /\ Fits(V) \/ V = U
          /\ V # {} => \E v \in V : /\ \A u \in V : NotAfter(E, u, v)
                                    /\ ~Fits(V \ {v})}

-----------------------------------------------------------------------------
(* touch: a hit moves the page's last use; a miss changes nothing.          *)
Touch(p, t) ==
    /\ p \in DOMAIN cache
    /\ cache' = [cache EXCEPT ![p].used = t]
    /\ lruOp' = "touch"
    /\ UNCHANGED resident

(* insert of a page already resident: its size and use are replaced, its    *)
(* pins kept, and victims - the page itself among them - leave.             *)
Refresh(p, b, t) ==
    /\ b <= Capacity /\ p \in DOMAIN cache
    /\ LET E == [cache EXCEPT ![p].bytes = b, ![p].used = t]
           r == resident - cache[p].bytes + b
       IN \E V \in LruVictims(E, r, Capacity) :
            /\ cache' = Keeping(E, V)
            /\ resident' = r - SizeOf(E, V)
    /\ lruOp' = "insert"

(* insert of a new page: make_room first.  When the pinned pages leave too  *)
(* little it fails, with every unpinned page already evicted.               *)
Insert(p, b, t) ==
    /\ b <= Capacity /\ p \notin DOMAIN cache
    /\ \E V \in LruVictims(cache, resident + b, Capacity) :
         LET left == resident - SizeOf(cache, V)
             K == Keeping(cache, V)
         IN IF left + b <= Capacity
            THEN /\ cache' = [q \in DOMAIN K \cup {p} |->
                                 IF q = p THEN [bytes |-> b, used |-> t, pins |-> 0]
                                 ELSE K[q]]
                 /\ resident' = left + b
                 /\ lruOp' = "insert"
            ELSE /\ cache' = K
                 /\ resident' = left
                 /\ lruOp' = "refused"

Pin(p, t) ==
    /\ p \in DOMAIN cache /\ cache[p].pins < 2
    /\ cache' = [cache EXCEPT ![p].used = t, ![p].pins = @ + 1]
    /\ lruOp' = "pin"
    /\ UNCHANGED resident

Unpin(p) ==
    /\ p \in DOMAIN cache /\ cache[p].pins > 0
    /\ cache' = [cache EXCEPT ![p].pins = @ - 1]
    /\ lruOp' = "unpin"
    /\ UNCHANGED resident

LNext == \E p \in Pages :
           \/ Unpin(p)
           \/ \E t \in 0..MaxTime :
                \/ Touch(p, t) \/ Pin(p, t)
                \/ \E b \in Sizes : Refresh(p, b, t) \/ Insert(p, b, t)

-----------------------------------------------------------------------------
(***************************************************************************)
(* resident_bytes is what the entries hold, and after every insert, also   *)
(* one that fails, the cache is within its capacity unless everything left *)
(* is pinned (a pinned page may have been refreshed to a larger size).     *)
(***************************************************************************)
LruBounded ==
    /\ resident = SizeOf(cache, DOMAIN cache)
    /\ lruOp \in {"insert", "refused"} =>
         resident <= Capacity \/ Unpinned(cache) = {}

(* A pinned page leaves the cache by no call.                               *)
PinnedKept == \A p \in DOMAIN cache : cache[p].pins > 0 => p \in DOMAIN cache'
PinnedStay == [][PinnedKept]_lvars
=============================================================================
