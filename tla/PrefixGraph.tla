---------------------------- MODULE PrefixGraph ----------------------------
(***************************************************************************)
(* The prefix graph of har-kv (graph.rs, page.rs, identity.rs): a tree of  *)
(* token prefixes, the KV pages attached to its nodes with the physical    *)
(* representations each has, and leases that keep a page from eviction.    *)
(* A digest is the value it is taken of.  Everything of an identity that   *)
(* is not its token sequence is its origin.                                *)
(***************************************************************************)
EXTENDS Naturals, SequencesExt

CONSTANTS
    Origins,   \* model, tokenizer, rope, layers, codec, runtime generation
    Tokens,
    Owners,
    MaxDepth, MaxGeneration, MaxRetains, \* bounds
    Contract   \* which of Clauses the callers keep to

(***************************************************************************)
(* What the graph leaves to its callers: attach_page replaces the record   *)
(* of a page attached before, leases of one owner on one page share an id, *)
(* extend does not compare the child's origin with the parent's, and       *)
(* release_prefix counts down whoever retained.                            *)
(***************************************************************************)
Clauses == {"attach once", "one lease per owner", "one origin per tree",
            "retain before release"}

ASSUME GraphAssumption == /\ {MaxDepth, MaxRetains} \subseteq Nat /\ MaxGeneration \in Nat \ {0}
                          /\ Contract \subseteq Clauses /\ "none" \notin Origins

VARIABLES
    generation,
    roots,     \* set of node ids
    nodes,     \* function from node ids to PrefixNode
    pages,     \* function from page ids to KVPageRecord
    leases,    \* function from lease ids to the leased representation kind
    retained   \* ghost: [node ids -> Nat], retains without a release

gvars == <<generation, roots, nodes, pages, leases, retained>>

Identity == [origin : Origins, tokens : BoundedSeq(Tokens, MaxDepth)]
Depth(id) == Len(id.tokens)

NoParent == [origin |-> "none", tokens |-> <<>>]
PrefixNode == [parent : Identity \cup {NoParent}, children : SUBSET Identity,
               refs : Nat, made : 1..MaxGeneration]

Kinds == {"ExactHotQ8", "ReconstructedWarm", "ContextFoldLatent",
          "LosslessColdPage", "ExactTokenArchive"}

(* One page per position: [node, end), the token it ends with.              *)
PageId == [node : Identity, end : 1..MaxDepth]
LeaseId == [page : PageId, owner : Owners, generation : 1..MaxGeneration]

GTypeOK ==
    /\ generation \in 1..MaxGeneration
    /\ roots \subseteq DOMAIN nodes /\ DOMAIN nodes \subseteq Identity
    /\ \A n \in DOMAIN nodes : nodes[n] \in PrefixNode
    /\ DOMAIN pages \subseteq PageId
    /\ \A p \in DOMAIN pages : /\ DOMAIN pages[p].reps \subseteq Kinds
                               /\ pages[p].active \in Nat
    /\ DOMAIN leases \subseteq LeaseId
    /\ \A l \in DOMAIN leases : leases[l] \in Kinds

GInit == /\ generation = 1
         /\ roots = {} /\ nodes = [n \in {} |-> 0]
         /\ pages = [p \in {} |-> 0] /\ leases = [l \in {} |-> 0]
         /\ retained = [n \in Identity |-> 0]

Put(f, x, y) == [z \in DOMAIN f \cup {x} |-> IF z = x THEN y ELSE f[z]]
Without(f, x) == [z \in DOMAIN f \ {x} |-> f[z]]

NewNode(parent) == [parent |-> parent, children |-> {}, refs |-> 0,
                    made |-> generation]

-----------------------------------------------------------------------------
(* insert_root: the id holds no graph generation, so a root is made once.   *)
InsertRoot(origin) ==
    LET id == [origin |-> origin, tokens |-> <<>>] IN
    /\ id \notin roots
    /\ roots' = roots \cup {id}
    /\ nodes' = Put(nodes, id, NewNode(NoParent))
    /\ UNCHANGED <<generation, pages, leases, retained>>

\* Variant: an edge the parent has already is made again.
ExtendAgain(parent, token, origin) ==
    LET id == [origin |-> origin, tokens |-> Append(parent.tokens, token)] IN
    /\ Depth(parent) < MaxDepth
    /\ "one origin per tree" \in Contract => origin = parent.origin
    /\ nodes' = Put([nodes EXCEPT ![parent].children = @ \cup {id}],
                    id, NewNode(parent))
    /\ UNCHANGED <<generation, roots, pages, leases, retained>>

(***************************************************************************)
(* extend refuses a token the parent has an edge for, and replaces the     *)
(* node when the id exists anyway (under another parent).                  *)
(***************************************************************************)
Extend(parent, token, origin) ==
    LET id == [origin |-> origin, tokens |-> Append(parent.tokens, token)] IN
    /\ Depth(parent) < MaxDepth
    /\ "one origin per tree" \in Contract => origin = parent.origin
    /\ \A c \in nodes[parent].children : Last(c.tokens) # token
    /\ nodes' = Put([nodes EXCEPT ![parent].children = @ \cup {id}],
                    id, NewNode(parent))
    /\ UNCHANGED <<generation, roots, pages, leases, retained>>

\* The nodes from n up its parents: their ids are the prefixes of n's tokens
\* as long as every parent has the child's origin.
Lineage(n) ==
    LET up[k \in 0..Depth(n)] ==
            IF k = 0 THEN n
            ELSE IF nodes[up[k - 1]].parent = NoParent THEN up[k - 1]
            ELSE nodes[up[k - 1]].parent
    IN {up[k] : k \in 0..Depth(n)}

RetainPrefix(n) ==
    /\ retained[n] < MaxRetains
    /\ nodes' = [m \in DOMAIN nodes |->
                   IF m \in Lineage(n) THEN [nodes[m] EXCEPT !.refs = @ + 1]
                   ELSE nodes[m]]
    /\ retained' = [retained EXCEPT ![n] = @ + 1]
    /\ UNCHANGED <<generation, roots, pages, leases>>

(* release_prefix: a node at zero on the way up stops it there (Err), after *)
(* the ones below it were counted down.                                     *)
ReleasePrefix(n) ==
    LET Zero == {m \in Lineage(n) : nodes[m].refs = 0}
        Reached == {m \in Lineage(n) : \A z \in Zero : Depth(m) > Depth(z)}
    IN /\ "retain before release" \in Contract => retained[n] > 0
       /\ nodes' = [m \in DOMAIN nodes |->
                      IF m \in Reached THEN [nodes[m] EXCEPT !.refs = @ - 1]
                      ELSE nodes[m]]
       /\ retained' = [retained EXCEPT ![n] = IF @ = 0 THEN 0 ELSE @ - 1]
       /\ UNCHANGED <<generation, roots, pages, leases>>

(* attach_page: the record the caller built carries the closure of its      *)
(* node's identity under some graph generation; only the node's own passes. *)
CanAttach(p, made) ==
    /\ p.node \in DOMAIN nodes
    /\ p.end <= Depth(p.node)
    /\ made = nodes[p.node].made
    /\ "attach once" \in Contract => p \notin DOMAIN pages

NewPage(made, reps) == [made |-> made, reps |-> reps, active |-> 0]

(* lease: counted on the page, kept under an id of page, owner, generation. *)
Lease(p, kind, owner, expected) ==
    LET id == [page |-> p, owner |-> owner, generation |-> generation] IN
    /\ expected = generation
    /\ p \in DOMAIN pages /\ kind \in DOMAIN pages[p].reps
    /\ "one lease per owner" \in Contract => id \notin DOMAIN leases
    /\ pages[p].active < 2
    /\ pages' = [pages EXCEPT ![p].active = @ + 1]
    /\ leases' = Put(leases, id, kind)
    /\ UNCHANGED <<generation, roots, nodes, retained>>

(* release_lease forgets the lease before it looks at the page's counts.    *)
ReleaseLease(id) ==
    /\ id \in DOMAIN leases
    /\ leases' = Without(leases, id)
    /\ pages' = IF pages[id.page].active = 0 THEN pages
                ELSE [pages EXCEPT ![id.page].active = @ - 1]
    /\ UNCHANGED <<generation, roots, nodes, retained>>

(* evict: refused for a stale generation and for a page under lease.        *)
CanEvict(p, kind, expected) ==
    /\ expected = generation
    /\ p \in DOMAIN pages /\ kind \in DOMAIN pages[p].reps
    /\ pages[p].active = 0

AdvanceGeneration ==
    /\ generation < MaxGeneration
    /\ generation' = generation + 1
    /\ UNCHANGED <<roots, nodes, pages, leases, retained>>

-----------------------------------------------------------------------------
(* lookup: the node reached from a root along the tokens, if there is one.  *)
Lookup(root, tokens) ==
    LET reached[k \in 0..Len(tokens)] ==
            IF k = 0 THEN {root}
            ELSE UNION {{c \in nodes[n].children : Last(c.tokens) = tokens[k]} :
                          n \in reached[k - 1]}
    IN reached[Len(tokens)]

\* validate_causal_closure
CausallyClosed(p) == /\ p.node \in DOMAIN nodes
                     /\ p.end <= Depth(p.node)
                     /\ pages[p].made = nodes[p.node].made

\* The retains not released of n and of the prefixes that extend it.
RetainsOver(n) == {x \in Identity \X (1..MaxRetains) :
    x[2] <= retained[x[1]] /\ n.origin = x[1].origin /\ IsPrefix(n.tokens, x[1].tokens)}

(***************************************************************************)
(* Every node is found from the root of its origin along its own tokens,   *)
(* and is no other prefix's node; a page's causal closure stays the one of *)
(* its node across generations; and a node's reference count is the number *)
(* of retains of it and of the prefixes that extend it.                    *)
(***************************************************************************)
PrefixesSound ==
    /\ \A n \in DOMAIN nodes :
         /\ Lookup([n EXCEPT !.tokens = <<>>], n.tokens) = {n}
         /\ nodes[n].refs = Cardinality(RetainsOver(n))
    /\ \A p \in DOMAIN pages : CausallyClosed(p)

(***************************************************************************)
(* "active page lease prevents eviction": a page counts exactly the leases *)
(* on it, and what they lease is there - until the release, also when the  *)
(* generation advanced in between.                                         *)
(***************************************************************************)
LeasesProtect ==
    /\ \A p \in DOMAIN pages :
         pages[p].active = Cardinality({l \in DOMAIN leases : l.page = p})
    /\ \A l \in DOMAIN leases : leases[l] \in DOMAIN pages[l.page].reps
=============================================================================
