------------------------------- MODULE MCDevice -------------------------------
(***************************************************************************)
(* Checks the components that hold memory beside each other.  Vulkan: the  *)
(* handles behind the wrappers ("objects"), and the queues of an open      *)
(* device with the expert slot table ("slots").  The host: the expert LRU  *)
(* cache, the pinned pool, the elastic VRAM budget, the registry of        *)
(* residency records, the R4KV tier manager and transfer engine, the       *)
(* metabolism's reserve and books.  KV: the                                *)
(* prefix graph alone, at a depth where prefixes branch ("graph"), the     *)
(* ContextFold controller over a graph of one edge ("fold").  They share   *)
(* no state in the code, so a behaviour steps the one part chosen at the   *)
(* start.                                                                  *)
(***************************************************************************)
EXTENDS ExpertSlots, ExpertLru, PinnedPool, ElasticBudget, R4kvTier, R4kvDma, Metabolism,
        MemoryRegistry, ContextFold

CONSTANTS Wrappers,  \* the Vulkan wrapper objects of the "objects" part
          MaxNodes   \* bound: nodes in the graph of the "graph" part

VARIABLES part, instance, leaked, device, deviceRef, phase, kind, raw

O == INSTANCE VulkanObjects

objectVars == <<instance, leaked, device, deviceRef, phase, kind, raw>>
hostVars == <<lvars, pvars, bvars, tvars, dvars, xvars, mrvars>>
mvars == <<part, vars, objectVars, hostVars, fvars>>

HostParts == {"lru", "pool", "budget", "tier", "dma", "reserve", "books", "registry"}
KvParts == {"graph", "fold"}

MCInit ==
    /\ Init /\ O!OInit
    /\ LInit /\ PInit /\ BInit /\ TInit /\ DInit /\ XInit /\ MInit
    /\ FInit
    /\ part \in {"objects", "slots"} \cup HostParts \cup KvParts
    /\ part # "budget" => current = MinBytes
    /\ part # "tier" => policy = "Lru"
    /\ part \notin {"reserve", "books"} => owner = "gate" /\ basis = CHOOSE b \in Bases : TRUE

HostNext ==
    \/ part = "lru" /\ LNext /\ UNCHANGED <<pvars, bvars, tvars, dvars, xvars, mrvars>>
    \/ part = "pool" /\ PNext /\ UNCHANGED <<lvars, bvars, tvars, dvars, xvars, mrvars>>
    \/ part = "budget" /\ BNext /\ UNCHANGED <<lvars, pvars, tvars, dvars, xvars, mrvars>>
    \/ part = "tier" /\ TNext /\ UNCHANGED <<lvars, pvars, bvars, dvars, xvars, mrvars>>
    \/ part = "dma" /\ DNext /\ UNCHANGED <<lvars, pvars, bvars, tvars, xvars, mrvars>>
    \/ part = "reserve" /\ ReserveNext /\ UNCHANGED <<lvars, pvars, bvars, tvars, dvars, mrvars>>
    \/ part = "books" /\ BooksNext /\ UNCHANGED <<lvars, pvars, bvars, tvars, dvars, mrvars>>
    \/ part = "registry" /\ MNext /\ UNCHANGED <<lvars, pvars, bvars, tvars, dvars, xvars>>

GraphPart ==
    \/ GraphStep
    \/ \E n \in DOMAIN nodes, e \in 1..MaxDepth, g \in 1..MaxGeneration :
         /\ DOMAIN pages = {} \/ "attach once" \notin Contract
         /\ RegisterReferencePage([node |-> n, end |-> e], g)
    \/ \E p \in DOMAIN pages : SafeEvict(p, "ExactHotQ8")

KvNext == \/ part = "graph" /\ GraphPart
          \/ part = "fold" /\ FNext

MCNext ==
    /\ UNCHANGED part
    /\ \/ part = "objects" /\ O!ONext /\ UNCHANGED <<vars, hostVars, fvars>>
       \/ part = "slots" /\ Next /\ UNCHANGED <<objectVars, hostVars, fvars>>
       \/ HostNext /\ UNCHANGED <<vars, objectVars, fvars>>
       \/ KvNext /\ UNCHANGED <<vars, objectVars, hostVars>>

MCSpec == MCInit /\ [][MCNext]_mvars

(* The bounds of the two graph parts and of the logs of two records.        *)
Bounds ==
    /\ Cardinality(DOMAIN nodes) <= MaxNodes
    /\ part = "graph" => Cardinality({n \in Identity : retained[n] > 0}) <= 2
    /\ part = "fold" =>
         /\ DOMAIN nodes \subseteq [origin : {CHOOSE o \in Origins : TRUE},
                                   tokens : {<<>>, <<CHOOSE t \in Tokens : TRUE>>}]
         /\ \A n \in Identity : retained[n] = 0
    /\ part = "registry" =>
         /\ Len(transfers) > 1 => \A r \in Resources : Len(machines[r].events) <= 1
         /\ \A r, q \in Resources : r # q /\ machines[r].made /\ machines[q].made =>
                /\ Len(machines[r].events) + Len(machines[q].events) <= 2
                /\ machines[r].generation + machines[q].generation <= 1

(* A property is evaluated in the parts that can change what it speaks of.  *)
(* lib.rs: a handle of an open instance or device has a live wrapper, and   *)
(* goes with the last of them.                                              *)
HandlesHaveOwners == O!OTypeOK /\ O!HandlesHaveOwners
(* Events of a queue mean their work is executed, and no dispatch at the    *)
(* GPU reads a buffer that is gone.                                         *)
SubmissionsSound == part = "slots" => TypeOK /\ EventsMeanExecuted /\ DispatchBuffersAlive
(* expert_lru.rs, pinned_pool.rs, r4kv/tier.rs and dma.rs, har-memory:      *)
(* whatever is inserted, transferred, freed and evicted, in whatever order, *)
(* the counters and logs agree with the records, and what is admitted stays *)
(* within what it is compared with: for dma.rs the arena and the queue, not *)
(* the transfers in flight.                                                 *)
MemoryBounded == /\ part = "lru" => LTypeOK /\ LruBounded
                 /\ part = "pool" => PTypeOK /\ PoolTiled
                 /\ part = "tier" => TTypeOK /\ TierSound
                 /\ part = "dma" => DTypeOK /\ DmaSound
                 /\ part = "budget" => BTypeOK
                 /\ part = "registry" => MTypeOK /\ RegistrySound
(* har-kv: the tree holds prefixes, and a leased page is not evicted.       *)
GraphSound == part \in {"graph", "fold"} => FTypeOK /\ PrefixesSound /\ LeasesProtect
(* The metabolism's reserve ledger and telemetry books agree with history.  *)
MetabolismSound == part \in {"reserve", "books"} => ReserveSound /\ BooksAgree
(* contextfold over the memory store: nothing is stored for a page that is  *)
(* gone, a copy read back is the one persisted as it, and a lease on an     *)
(* exact copy keeps attention served.                                       *)
StoresSound == part \in {"graph", "fold"} =>
                  NothingOrphaned /\ LoadsOwnPayload /\ AttentionServed
(* The budget moves as far as its direction allows, no call takes a pinned  *)
(* page out of the cache, and a record's history is never rewritten.        *)
HostStepsAllowed == BudgetMoves /\ PinnedStay /\ HistoryKept
=============================================================================
