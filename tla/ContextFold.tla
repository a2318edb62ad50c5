---------------------------- MODULE ContextFold ----------------------------
(***************************************************************************)
(* The ContextFold controller (har-contextfold: orchestrator.rs, store.rs, *)
(* policy.rs) over the prefix graph: reference pages, latent and lossless  *)
(* copies persisted in a page store that keeps one entry per page, the set *)
(* of hot pages, the choice of a representation for attention, eviction.   *)
(***************************************************************************)
EXTENDS PrefixGraph

CONSTANTS
    Payloads,   \* page payloads, all of one length
    MaxPuts,    \* bound: payloads stored
    FileStore   \* TRUE: FilePageStore, FALSE: MemoryPageStore

ASSUME StoreAssumption == FileStore \in BOOLEAN /\ MaxPuts \in Nat /\ Payloads # {}

VARIABLES
    puts,     \* the memory store's next offset; a bound for the file store
    entries,  \* function from page ids to [loc, payload]
    hot,      \* hot_pages
    tailPass  \* ~require_tail_probe_pass \/ tail_probe_pass of the policy

fvars == <<gvars, puts, entries, hot, tailPass>>

NoLoc == [offset |-> MaxPuts + 1, generation |-> 0]
Location == [offset : 0..(MaxPuts + 1), generation : 0..MaxGeneration]

(* payload is a ghost: what was persisted as this representation;           *)
(* certified: authorize would accept its certificate for this page.         *)
Rep == [loc : Location, payload : Payloads, certified : BOOLEAN]
NotStored == [loc |-> NoLoc, payload |-> CHOOSE x \in Payloads : TRUE,
              certified |-> FALSE]

FTypeOK == /\ GTypeOK /\ puts \in 0..MaxPuts
           /\ \A p \in DOMAIN pages : \A k \in DOMAIN pages[p].reps :
                pages[p].reps[k] \in Rep
           /\ DOMAIN entries \subseteq PageId
           /\ \A p \in DOMAIN entries :
                entries[p] \in [loc : Location, payload : Payloads]
           /\ hot \subseteq PageId /\ tailPass \in BOOLEAN

FInit == /\ GInit /\ puts = 0 /\ entries = [p \in {} |-> 0]
         /\ hot = {} /\ tailPass = TRUE  \* new refuses any other policy

AddRepresentation(p, kind, rep) ==
    pages' = [pages EXCEPT ![p].reps = Put(@, kind, rep)]

-----------------------------------------------------------------------------
(* register_reference_page: attach, then the exact copy and the archive.    *)
RegisterReferencePage(p, made) ==
    /\ CanAttach(p, made)
    /\ pages' = Put(pages, p, NewPage(made,
                  [k \in {"ExactHotQ8", "ExactTokenArchive"} |-> NotStored]))
    /\ hot' = hot \cup {p}
    /\ UNCHANGED <<generation, roots, nodes, leases, retained,
                   puts, entries, tailPass>>

(* put: the file store writes one file per page, at offset 0.               *)
NewLocation == [offset |-> IF FileStore THEN 0 ELSE puts,
                generation |-> generation]

(***************************************************************************)
(* persist_latent_page and persist_lossless_page: the payload is put, over *)
(* whatever the page had stored, and then recorded.  For a page the graph  *)
(* does not know the recording fails and the entry is removed again.       *)
(***************************************************************************)
Persist(p, kind, payload, certified) ==
    /\ puts < MaxPuts /\ puts' = puts + 1
    /\ IF p \in DOMAIN pages
       THEN /\ entries' = Put(entries, p, [loc |-> NewLocation, payload |-> payload])
            /\ AddRepresentation(p, kind, [loc |-> NewLocation, payload |-> payload,
                                           certified |-> certified])
       ELSE /\ entries' = Without(entries, p)
            /\ UNCHANGED pages
    /\ UNCHANGED <<generation, roots, nodes, leases, retained, hot, tailPass>>

PersistLatentPage(p, payload, certified) ==
    Persist(p, "ContextFoldLatent", payload, certified)
PersistLosslessPage(p, payload) == Persist(p, "LosslessColdPage", payload, FALSE)

(* set_recent_hot: exact pages past the cutoff are hot, the others cold.    *)
SetRecentHot(current, window) ==
    /\ window > 0
    /\ hot' = {p \in DOMAIN pages : /\ p.end + window > current
                                    /\ "ExactHotQ8" \in DOMAIN pages[p].reps}
              \cup (hot \ DOMAIN pages)
    /\ UNCHANGED <<gvars, puts, entries, tailPass>>

MarkPage(p, isHot) ==
    /\ p \in DOMAIN pages
    /\ hot' = IF isHot THEN hot \cup {p} ELSE hot \ {p}
    /\ UNCHANGED <<gvars, puts, entries, tailPass>>

PromoteWarm(p) ==
    /\ p \in DOMAIN pages
    /\ AddRepresentation(p, "ReconstructedWarm", NotStored)
    /\ UNCHANGED <<generation, roots, nodes, leases, retained,
                   puts, entries, hot, tailPass>>

(* The policy is a public field: a later tail probe may replace it.         *)
SetTailProbe(pass) == tailPass' = pass /\ UNCHANGED <<gvars, puts, entries, hot>>

\* Variant: the entry is compared by its generation alone.
StoredThen(p, kind) == /\ p \in DOMAIN entries
                       /\ entries[p].loc.generation = pages[p].reps[kind].loc.generation

Stored(p, kind) == /\ p \in DOMAIN entries
                   /\ entries[p].loc = pages[p].reps[kind].loc

(***************************************************************************)
(* safe_evict: the representation leaves the graph first; a store entry is *)
(* removed if it is at the representation's location, else the call fails. *)
(***************************************************************************)
SafeEvict(p, kind) ==
    /\ CanEvict(p, kind, generation)
    /\ pages' = [pages EXCEPT ![p].reps = Without(@, kind)]
    /\ entries' = IF Stored(p, kind) THEN Without(entries, p) ELSE entries
    /\ UNCHANGED <<generation, roots, nodes, leases, retained,
                   puts, hot, tailPass>>

-----------------------------------------------------------------------------
LatentAllowed(p, required) ==
    /\ "ContextFoldLatent" \in DOMAIN pages[p].reps
    /\ required => pages[p].reps["ContextFoldLatent"].certified

Preference == <<"ExactHotQ8", "ReconstructedWarm", "ContextFoldLatent", "LosslessColdPage">>

(***************************************************************************)
(* select_for_attention of a known page, `required` saying whether quality *)
(* bounds were asked for: a kind, "Fallback", or "NoQualityAuthorized".    *)
(***************************************************************************)
Select(p, required) ==
    LET K == DOMAIN pages[p].reps
        Usable(k) == /\ k \in K
                     /\ IF k = "ExactHotQ8" THEN p \in hot ELSE tailPass
                     /\ k = "ReconstructedWarm" => ~required
                     /\ k = "ContextFoldLatent" => LatentAllowed(p, required)
        U == {i \in DOMAIN Preference : Usable(Preference[i])}
    IN IF U # {} THEN Preference[Min(U)]
       ELSE IF ~tailPass \/ "ExactTokenArchive" \in K THEN "Fallback"
       ELSE "NoQualityAuthorized"

GraphStep ==
    /\ \/ \E o \in Origins : InsertRoot(o)
       \/ AdvanceGeneration
       \/ \E n \in DOMAIN nodes :
            \/ \E t \in Tokens, o \in Origins : Extend(n, t, o)
            \/ RetainPrefix(n) \/ ReleasePrefix(n)
       \/ \E id \in DOMAIN leases : ReleaseLease(id)
       \/ \E p \in DOMAIN pages, k \in Kinds, o \in Owners :
            Lease(p, k, o, generation)
    /\ UNCHANGED <<puts, entries, hot, tailPass>>

PageStep(p) ==
    \/ \E g \in 1..MaxGeneration : RegisterReferencePage(p, g)
    \/ \E x \in Payloads, b \in BOOLEAN : PersistLatentPage(p, x, b)
    \/ \E x \in Payloads : PersistLosslessPage(p, x)
    \/ \E b \in BOOLEAN : MarkPage(p, b)
    \/ PromoteWarm(p)
    \/ \E k \in Kinds : SafeEvict(p, k)

FNext ==
    \/ GraphStep
    \/ \E n \in DOMAIN nodes, e \in 1..MaxDepth : PageStep([node |-> n, end |-> e])
    \/ \E b \in BOOLEAN : SetTailProbe(b)
    \/ \E c \in 0..MaxDepth, w \in 1..MaxDepth : SetRecentHot(c, w)

-----------------------------------------------------------------------------
(***************************************************************************)
(* load_representation_payload returns what was persisted as that          *)
(* representation: the memory store refuses a location other than that of  *)
(* the page's last put ("physical location mismatch"), and never answers   *)
(* it with another copy's bytes.                                           *)
(***************************************************************************)
LoadsOwnPayload ==
    \A p \in DOMAIN pages : \A k \in DOMAIN pages[p].reps :
        pages[p].reps[k].loc # NoLoc /\ Stored(p, k) =>
            entries[p].payload = pages[p].reps[k].payload

(***************************************************************************)
(* Nothing is stored that the graph has forgotten: every entry is at the   *)
(* location of a representation of its page, so an eviction can free it.   *)
(***************************************************************************)
NothingOrphaned ==
    \A p \in DOMAIN entries :
        p \in DOMAIN pages /\ \E k \in DOMAIN pages[p].reps : Stored(p, k)

(***************************************************************************)
(* A lease keeps attention served: while it holds the archive, the         *)
(* lossless copy or the exact copy of a hot page, select_for_attention     *)
(* finds something, whatever others evict, persist or forbid meanwhile.    *)
(***************************************************************************)
AttentionServed ==
    \A l \in DOMAIN leases, required \in BOOLEAN :
        \/ leases[l] \in {"ExactTokenArchive", "LosslessColdPage"}
        \/ leases[l] = "ExactHotQ8" /\ l.page \in hot
        => Select(l.page, required) # "NoQualityAuthorized"
=============================================================================
