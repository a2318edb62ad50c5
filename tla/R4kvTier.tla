------------------------------ MODULE R4kvTier ------------------------------
(***************************************************************************)
(* The R4KV tier manager (r4kv/src/tier.rs): every access makes its page   *)
(* hot, then pages leave the hot tier until it is below the high           *)
(* watermark.  The utility and shadow-price policies score pages in        *)
(* floating point: here any hot page may be their victim.                  *)
(***************************************************************************)
EXTENDS Integers, Functions

CONSTANTS PageIds, PageBytes, HighWatermark, TargetWatermark

ASSUME TierAssumption == /\ PageIds \subseteq Nat
                         /\ {HighWatermark, TargetWatermark} \subseteq Nat
                         /\ TargetWatermark <= HighWatermark
                         /\ PageBytes \subseteq Nat \ {0}

VARIABLES policy,    \* fixed when the manager is built
          held,      \* function from the known pages to their Page
          hotUsed,  \* hot_used
          older     \* pairs of known pages, that of the lower last_access_tick first
tvars == <<policy, held, hotUsed, older>>

Policies == {"Fifo", "Lru", "Scored"}
Page == [state : {"HotMirrored", "PromotedHot", "LukewarmOnly"},
         hot : PageBytes \cup {0}, ram : PageBytes]

TTypeOK == /\ policy \in Policies
           /\ DOMAIN held \subseteq PageIds
           /\ \A p \in DOMAIN held : held[p] \in Page
           /\ hotUsed \in Nat
           /\ older \subseteq (DOMAIN held) \X (DOMAIN held)
           /\ \A p, q \in DOMAIN held : <<p, q>> \in older <=> p # q /\ <<q, p>> \notin older
           /\ \A p, q, r \in DOMAIN held :
                 <<p, q>> \in older /\ <<q, r>> \in older => <<p, r>> \in older

TInit == /\ policy \in Policies
         /\ held = [p \in {} |-> 0]
         /\ hotUsed = 0 /\ older = {}

Hot(P) == {p \in DOMAIN P : P[p].hot > 0}
Demote(P, V) == [p \in DOMAIN P |->
    IF p \in V THEN [P[p] EXCEPT !.state = "LukewarmOnly", !.hot = 0] ELSE P[p]]

HotBytes(P, S) == SumFunctionOnSet([p \in DOMAIN P |-> P[p].hot], S)

(* pick_victim, of two hot pages: the lower id, the page accessed longer    *)
(* ago, or either.                                                          *)
PickedBefore(p, q, R) ==
    \/ policy = "Fifo" /\ p < q
    \/ policy = "Lru" /\ <<p, q>> \in R
    \/ policy = "Scored"

\* Variant: the tier is left one page too full.
VictimsLate(P, used, R) ==
    {V \in SUBSET Hot(P) :
        /\ \A v \in V, w \in Hot(P) \ V : PickedBefore(v, w, R)
        /\ \E w \in Hot(P) : used - HotBytes(P, V \cup {w}) <= HighWatermark
        /\ V # {} => \E v \in V :
              /\ \A u \in V \ {v} : PickedBefore(u, v, R)
              /\ used - HotBytes(P, V \ {v}) > HighWatermark}

(* The sets of pages the loop of enforce_watermark may demote: in the order *)
(* of pick_victim, no longer than the tier is above the high watermark, or  *)
(* every hot page.  A page that takes it below the target watermark takes   *)
(* it below the high one, so that exit of the loop changes nothing.         *)
Victims(P, used, R) ==
    {V \in SUBSET Hot(P) :
        /\ \A v \in V, w \in Hot(P) \ V : PickedBefore(v, w, R)
        /\ used - HotBytes(P, V) <= HighWatermark \/ V = Hot(P)
        /\ V # {} => \E v \in V :
              /\ \A u \in V \ {v} : PickedBefore(u, v, R)
              /\ used - HotBytes(P, V \ {v}) > HighWatermark}

(* access: the bytes passed for a page already known are not looked at.     *)
Access(id, bytes) ==
    LET known == id \in DOMAIN held
        resident == known /\ held[id].hot > 0
        R == {e \in older : id \notin {e[1], e[2]}} \cup ((DOMAIN held \ {id}) \X {id})
        P == IF known
             THEN [held EXCEPT ![id].state = "PromotedHot", ![id].hot = held[id].ram]
             ELSE [p \in DOMAIN held \cup {id} |->
                     IF p = id THEN [state |-> "HotMirrored", hot |-> bytes, ram |-> bytes]
                     ELSE held[p]]
    IN /\ older' = R
       /\ IF resident THEN UNCHANGED <<held, hotUsed>>
          ELSE \E V \in Victims(P, hotUsed + P[id].hot, R) :
                 /\ held' = Demote(P, V)
                 /\ hotUsed' = hotUsed + P[id].hot - HotBytes(P, V)
       /\ UNCHANGED policy

TNext == \E id \in PageIds, b \in PageBytes : Access(id, b)

(***************************************************************************)
(* The hot tier's counter is what its pages hold and never exceeds the     *)
(* high watermark between calls; a page is LukewarmOnly when it holds no   *)
(* hot bytes; and under LRU the page just accessed is hot if it fits.      *)
(***************************************************************************)
TierSound ==
    /\ hotUsed = HotBytes(held, DOMAIN held)
    /\ hotUsed <= HighWatermark
    /\ \A p \in DOMAIN held : held[p].hot = 0 <=> held[p].state = "LukewarmOnly"
    /\ policy = "Lru" => \A p \in DOMAIN held :
         (\A q \in DOMAIN held : <<p, q>> \notin older) /\ held[p].ram <= HighWatermark
            => p \in Hot(held)
=============================================================================
