--------------------------- MODULE ResidencyManager ---------------------------
(***************************************************************************)
(* har-residency/src/manager.rs over the vocabulary of types.rs: the       *)
(* ownership ledger of the runtime.  One record per page (its physical     *)
(* state, generation, replicas and leases), a table of persistent VRAM     *)
(* slots, transfer tickets, and the counters that budgets and queue        *)
(* positions are admitted against.                                         *)
(*                                                                         *)
(* Every method of the Rust struct runs under `&mut self`, so a method is  *)
(* one step.  A method that returns Err after it has changed something is  *)
(* modelled with the change (the code has no rollback); one that returns   *)
(* Err before changing anything is simply not enabled.                     *)
(*                                                                         *)
(* Callers pass what an earlier call returned to them: the ticket of a     *)
(* successful queue call, a slot, a lease they hold.  They may pass it at  *)
(* any time, in any order, late or repeatedly, and to any method: what the *)
(* manager does not check is a clause of Contract, kept by all callers or  *)
(* by none.                                                                *)
(*                                                                         *)
(* Abstracted: checksums, projections (one slot per page and generation),  *)
(* epochs, time stamps, the speculative flag and the telemetry counters.   *)
(***************************************************************************)
EXTENDS Integers, FiniteSetsExt, Functions

CONSTANTS
    Pages,             \* page identities
    NoPage,            \* the page_id None of a free slot
    PageBytes,         \* representation.bytes of each page
    SlotCount,         \* VRAM slots
    SlotBytes,         \* capacity_bytes of a slot
    PageableBudget, PinnedBudget,
    NvmeCap, TransferCap, ComputeCap,   \* the *_queue_capacity of the snapshot
    Contract,          \* which of Clauses the callers keep to
    MaxGen,            \* bound: generations are 0..MaxGen
    MaxTickets,        \* bound: tickets ever created
    MaxLeases          \* bound: leases ever created

\* What the manager leaves to its callers: queue_upload looks at the state of the
\* slot and not at whose it is, and no call on a ticket looks at its kind.
Clauses == {"own slot", "own kind"}

ASSUME ContractAssumption == Contract \subseteq Clauses
ASSUME PagesAssumption == NoPage \notin Pages
ASSUME FinitePages == IsFiniteSet(Pages)   \* the records are a map in memory
ASSUME BytesAssumption == PageBytes \in [Pages -> Nat \ {0}]
ASSUME SlotsAssumption == SlotCount \in Nat \ {0} /\ SlotBytes \in Nat \ {0}
ASSUME BudgetAssumption ==
    /\ PageableBudget \in Nat /\ PinnedBudget \in Nat
    /\ NvmeCap \in Nat /\ TransferCap \in Nat /\ ComputeCap \in Nat
ASSUME BoundAssumption ==
    MaxGen \in Nat /\ MaxTickets \in Nat /\ MaxLeases \in Nat

-----------------------------------------------------------------------------
(* types.rs: the physical state of a page, the transition relation every    *)
(* record update is checked against, and the life of a transfer ticket.     *)
\* enum ResidencyState.
ResidencyState ==
    {"Indexed", "NvmeReadQueued", "NvmeReading", "RamReady",
     "VramReservationQueued", "VramReserved", "UploadQueued",
     "VramUploading", "Uploaded", "ComputeReady", "InUse",
     "EvictionQueued", "Evicting", "Evicted", "Cancelled", "Failed"}

\* fn legal_transition: the successors of each state.  Failed has none.
Successors(from) ==
    CASE from = "Indexed"        -> {"NvmeReadQueued", "RamReady", "Evicted"}
      [] from = "NvmeReadQueued" -> {"NvmeReading", "Cancelled", "Failed"}
      [] from = "NvmeReading"    -> {"RamReady", "Cancelled", "Failed"}
      [] from = "RamReady"       -> {"VramReservationQueued", "UploadQueued",
                                     "EvictionQueued", "Indexed"}
      [] from = "VramReservationQueued" ->
            {"VramReserved", "RamReady", "Cancelled", "Failed"}
      [] from = "VramReserved"   -> {"UploadQueued", "EvictionQueued", "Failed"}
      [] from = "UploadQueued"   -> {"VramUploading", "Cancelled", "Failed"}
      [] from = "VramUploading"  -> {"Uploaded", "Cancelled", "Failed"}
      [] from = "Uploaded"       -> {"ComputeReady", "EvictionQueued", "Failed"}
      [] from = "ComputeReady"   -> {"InUse", "EvictionQueued", "RamReady",
                                     "Indexed"}
      [] from = "InUse"          -> {"ComputeReady", "EvictionQueued", "Failed"}
      [] from = "EvictionQueued" -> {"Evicting", "Cancelled", "Failed"}
      [] from = "Evicting"       -> {"RamReady", "Indexed", "Evicted", "Failed"}
      [] from = "Evicted"        -> {"NvmeReadQueued", "Indexed"}
      [] from = "Cancelled"      -> {"Indexed", "Evicted"}
      [] OTHER                   -> {}

\* The variant accepts a transition to the same state.
LegalOrSame(from, to) == to \in Successors(from) \cup {from}
LegalTransition(from, to) == to \in Successors(from)

\* ResidencyRecord::transition: the state after a requested transition, which
\* is the old one when the transition is refused.
After(from, to) == IF LegalTransition(from, to) THEN to ELSE from

-----------------------------------------------------------------------------
\* enum TransferStatus; "None" marks an identifier no ticket has taken yet.
TransferStatus ==
    {"None", "Queued", "Running", "Completed", "Cancelled", "Failed"}

\* enum TransferKind, the two kinds the manager issues.
TransferKind == {"NvmeRead", "RamToVram"}

InFlight(status) == status \in {"Queued", "Running"}

\* TransferTicket::start, first_byte, cancel and fail: when each is accepted.
CanStart(status)     == status = "Queued"
CanFirstByte(status) == status = "Running"
CanCancel(status)    == status \notin {"None", "Completed"}
CanFail(status)      == CanCancel(status)

-----------------------------------------------------------------------------
\* u64::saturating_sub, used by every release of a budget or queue position.
Monus(a, b) == IF a >= b THEN a - b ELSE 0

-----------------------------------------------------------------------------
Slots      == 0 .. SlotCount - 1
Generation == 0 .. MaxGen
NoGen      == -1       \* "no replica here"
TicketId   == 1 .. MaxTickets
Replica    == Generation \cup {NoGen}
PageState  == ResidencyState \cup {"Unregistered"}
Lease      == [id : 1 .. MaxLeases, page : Pages, slot : Slots, gen : Generation]

\* enum SlotState.
SlotState  == {"Free", "Reserved", "Uploading", "Uploaded", "ComputeReady", "InUse"}

VramSlot == [state : SlotState, page : Pages \cup {NoPage}, gen : Replica,
             users : Nat, ticket : TicketId \cup {0}]
TransferTicket == [page : Pages \cup {NoPage}, gen : Replica, kind : TransferKind,
                   status : TransferStatus, issued : BOOLEAN]

\* TransferTicket::new and VramSlot::new before any use.
NoTicket == [page |-> NoPage, gen |-> NoGen, kind |-> "NvmeRead",
             status |-> "None", issued |-> FALSE]
FreeSlot == [state |-> "Free", page |-> NoPage, gen |-> NoGen,
             users |-> 0, ticket |-> 0]

VARIABLES
    state,        \* record.state of each page
    gen,          \* record.generation
    pageable,     \* generation of the RamPageable replica, or NoGen
    pinned,       \* generation of the RamPinned replica, or NoGen
    vram,         \* generation of the VramSlot(s) replica of each page and slot
    leases,       \* record.leases
    slots,        \* the VRAM slot table
    tickets, nextTicket,
    held,         \* leases returned to callers and not yet given back
    nextLease,
    pageableUsed, pinnedUsed, vramUsed,         \* snapshot byte counters
    nvmeDepth, transferDepth, computeDepth      \* snapshot queue depths

record   == <<state, gen, pageable, pinned, vram, leases>>
transfer == <<tickets, nextTicket>>
compute  == <<held, nextLease>>
bytes    == <<pageableUsed, pinnedUsed, vramUsed>>
depths   == <<nvmeDepth, transferDepth, computeDepth>>
vars     == <<record, slots, transfer, compute, bytes, depths>>

Registered(p) == state[p] # "Unregistered"
Has(replica)  == replica # NoGen
HasVram(p)    == \E s \in Slots : Has(vram[p][s])
Evictable(s)  == slots[s].state \in {"ComputeReady", "Uploaded"} /\ slots[s].users = 0

\* validate_slot_identity; the variant forgets to compare the page.
IdentifiesAnyPage(s, p) == slots[s].gen = gen[p]
Identifies(s, p) == slots[s].page = p /\ slots[s].gen = gen[p]

\* The budget check of an admission; the variant looks at what is used already
\* and not at the page that is coming.
FitsSoFar(used, p, budget) == used <= budget
Fits(used, p, budget) == used + PageBytes[p] <= budget

\* A queue position is taken only when the record accepted the transition.
Take(depth, accepted) == IF accepted THEN depth + 1 ELSE depth

Goto(p, to) == state' = [state EXCEPT ![p] = After(@, to)]
Legal(p, to) == LegalTransition(state[p], to)

Init ==
    /\ state = [p \in Pages |-> "Unregistered"]
    /\ gen = [p \in Pages |-> 0]
    /\ pageable = [p \in Pages |-> NoGen]
    /\ pinned = [p \in Pages |-> NoGen]
    /\ vram = [p \in Pages |-> [s \in Slots |-> NoGen]]
    /\ leases = [p \in Pages |-> {}]
    /\ slots = [s \in Slots |-> FreeSlot]
    /\ tickets = [t \in TicketId |-> NoTicket] /\ nextTicket = 1
    /\ held = {} /\ nextLease = 1
    /\ pageableUsed = 0 /\ pinnedUsed = 0 /\ vramUsed = 0
    /\ nvmeDepth = 0 /\ transferDepth = 0 /\ computeDepth = 0

-----------------------------------------------------------------------------
(* Pageable and pinned RAM                                                  *)

Register(p) ==
    /\ ~Registered(p)
    /\ state' = [state EXCEPT ![p] = "Indexed"]
    /\ UNCHANGED <<gen, pageable, pinned, vram, leases, slots, transfer, compute,
                   bytes, depths>>

PublishRamPageable(p) ==
    /\ Registered(p)
    /\ Fits(pageableUsed, p, PageableBudget)
    /\ IF Has(pageable[p]) THEN UNCHANGED <<pageable, pageableUsed>>
       ELSE /\ pageable' = [pageable EXCEPT ![p] = gen[p]]
            /\ pageableUsed' = pageableUsed + PageBytes[p]
    /\ state' = [state EXCEPT ![p] = IF @ = "Indexed" THEN "RamReady" ELSE @]
    /\ UNCHANGED <<gen, pinned, vram, leases, slots, transfer, compute,
                   pinnedUsed, vramUsed, depths>>

PromotePageableToPinned(p) ==
    /\ Has(pageable[p])
    /\ Fits(pinnedUsed, p, PinnedBudget)
    /\ pageable' = [pageable EXCEPT ![p] = NoGen]
    /\ pinned' = [pinned EXCEPT ![p] = gen[p]]
    /\ pageableUsed' = Monus(pageableUsed, PageBytes[p])
    /\ pinnedUsed' = pinnedUsed + PageBytes[p]
    /\ UNCHANGED <<state, gen, vram, leases, slots, transfer, compute, vramUsed,
                   depths>>

\* A RAM eviction walks EvictionQueued -> Evicting and drops the replica; it
\* then asks for ComputeReady when VRAM still holds the page, for Indexed
\* otherwise, and returns the bytes only if that last transition is accepted.
\* The variants would also take RAM from a page in use, or in an upload.
RamEvictableInUse(p)  == state[p] \in {"RamReady", "ComputeReady", "InUse"}
RamEvictableUpload(p) == state[p] \in {"RamReady", "ComputeReady", "VramUploading"}
RamEvictable(p) == state[p] \in {"RamReady", "ComputeReady"}
AfterRamEviction(p) == IF HasVram(p) THEN "ComputeReady" ELSE "Indexed"

EvictPageableRam(p) ==
    /\ Has(pageable[p]) /\ RamEvictable(p)
    /\ pageable' = [pageable EXCEPT ![p] = NoGen]
    /\ state' = [state EXCEPT ![p] = After("Evicting", AfterRamEviction(p))]
    /\ pageableUsed' = IF LegalTransition("Evicting", AfterRamEviction(p))
                       THEN Monus(pageableUsed, PageBytes[p]) ELSE pageableUsed
    /\ UNCHANGED <<gen, pinned, vram, leases, slots, transfer, compute,
                   pinnedUsed, vramUsed, depths>>

EvictRam(p) ==
    /\ Has(pinned[p]) /\ RamEvictable(p)
    /\ pinned' = [pinned EXCEPT ![p] = NoGen]
    /\ state' = [state EXCEPT ![p] = After("Evicting", AfterRamEviction(p))]
    /\ pinnedUsed' = IF LegalTransition("Evicting", AfterRamEviction(p))
                     THEN Monus(pinnedUsed, PageBytes[p]) ELSE pinnedUsed
    /\ UNCHANGED <<gen, pageable, vram, leases, slots, transfer, compute,
                   pageableUsed, vramUsed, depths>>

-----------------------------------------------------------------------------
(* NVMe reads                                                               *)

\* new_ticket.  `ok` says whether the caller gets the identifier back: the
\* ticket is in the table either way.
NewTicket(p, kind, ok) ==
    /\ nextTicket <= MaxTickets
    /\ tickets' = [tickets EXCEPT ![nextTicket] =
           [page |-> p, gen |-> gen[p], kind |-> kind, status |-> "Queued",
            issued |-> ok]]
    /\ nextTicket' = nextTicket + 1

\* Whether a ticket is for the generation its page has now; the variant lets
\* older ones pass.
NotNewer(t) == tickets[t].gen <= gen[tickets[t].page]
Current(t)  == tickets[t].gen = gen[tickets[t].page]

\* A ticket some caller was given, of the call's kind if callers keep them apart.
Known(t, kind) ==
    tickets[t].issued /\ ("own kind" \in Contract => tickets[t].kind = kind)
Mark(t, status) == tickets' = [tickets EXCEPT ![t].status = status]

QueueNvmeRead(p) ==
    /\ Registered(p)
    /\ nvmeDepth < NvmeCap
    /\ NewTicket(p, "NvmeRead", Legal(p, "NvmeReadQueued"))
    /\ Goto(p, "NvmeReadQueued")
    /\ nvmeDepth' = Take(nvmeDepth, Legal(p, "NvmeReadQueued"))
    /\ UNCHANGED <<gen, pageable, pinned, vram, leases, slots, compute, bytes,
                   transferDepth, computeDepth>>

StartNvmeRead(t) ==
    LET p == tickets[t].page IN
    /\ Known(t, "NvmeRead")
    /\ Current(t)
    /\ CanStart(tickets[t].status)
    /\ Mark(t, "Running")
    /\ Goto(p, "NvmeReading")
    /\ UNCHANGED <<gen, pageable, pinned, vram, leases, slots, nextTicket, compute,
                   bytes, depths>>

\* complete_nvme_read when the payload would not fit the pinned budget.
RefuseNvmeRead(t) ==
    /\ Known(t, "NvmeRead")
    /\ ~Fits(pinnedUsed, tickets[t].page, PinnedBudget)
    /\ CanFail(tickets[t].status)
    /\ Mark(t, "Failed")
    /\ nvmeDepth' = Monus(nvmeDepth, 1)
    /\ UNCHANGED <<record, slots, nextTicket, compute, bytes, transferDepth,
                   computeDepth>>

\* complete_nvme_read otherwise: a payload of an older generation is dropped
\* with its ticket Completed, and neither counter moves.
CompleteNvmeRead(t) ==
    LET p == tickets[t].page
        commits == Current(t) /\ Legal(p, "RamReady")
    IN
    /\ Known(t, "NvmeRead")
    /\ Fits(pinnedUsed, p, PinnedBudget)
    /\ CanFirstByte(tickets[t].status)
    /\ Mark(t, "Completed")
    /\ pinned' = IF Current(t) THEN [pinned EXCEPT ![p] = tickets[t].gen] ELSE pinned
    /\ state' = IF commits THEN [state EXCEPT ![p] = "RamReady"] ELSE state
    /\ nvmeDepth' = IF commits THEN Monus(nvmeDepth, 1) ELSE nvmeDepth
    /\ pinnedUsed' = IF commits THEN pinnedUsed + PageBytes[p] ELSE pinnedUsed
    /\ UNCHANGED <<gen, pageable, vram, leases, slots, nextTicket, compute,
                   pageableUsed, vramUsed, transferDepth, computeDepth>>

\* Cancelling gives the queue position back but leaves the record, and the
\* slot of an upload, where they are.
CancelTicket(t) ==
    /\ tickets[t].issued
    /\ CanCancel(tickets[t].status)
    /\ Mark(t, "Cancelled")
    /\ nvmeDepth' = IF tickets[t].kind = "NvmeRead" THEN Monus(nvmeDepth, 1)
                    ELSE nvmeDepth
    /\ transferDepth' = IF tickets[t].kind = "RamToVram" THEN Monus(transferDepth, 1)
                        ELSE transferDepth
    /\ UNCHANGED <<record, slots, nextTicket, compute, bytes, computeDepth>>

-----------------------------------------------------------------------------
(* VRAM slots: reservation, upload, compute, eviction                       *)

\* VramSlotTable::reserve finds the slot this page already has, or takes the
\* first free one; a refusal puts the record back to RamReady.
SlotOf(p, s) == slots[s].page = p /\ slots[s].gen = gen[p] /\ slots[s].state # "Free"
\* The variant counts a slot nobody computes on as free: implicit reuse.
FirstUnused(s) == slots[s].state = "Free" \/ Evictable(s)
FirstFree(s) == /\ slots[s].state = "Free"
                /\ \A r \in Slots : r < s => slots[r].state # "Free"

ReserveVram(p) ==
    /\ state[p] = "RamReady"
    /\ Has(pinned[p])
    /\ pinnedUsed <= PinnedBudget
    /\ IF \E s \in Slots : SlotOf(p, s) THEN UNCHANGED slots
       ELSE /\ PageBytes[p] <= SlotBytes
            /\ \E s \in Slots :
                  /\ FirstFree(s)
                  /\ slots' = [slots EXCEPT ![s] = [FreeSlot EXCEPT
                                !.state = "Reserved", !.page = p, !.gen = gen[p]]]
    /\ state' = [state EXCEPT ![p] = "VramReserved"]
    /\ UNCHANGED <<gen, pageable, pinned, vram, leases, transfer, compute, bytes,
                   depths>>

\* The slot takes the ticket before the record is asked to move.  It has to be
\* Reserved: for this page only if callers see to it.
QueueUpload(p, s) ==
    LET reserved == slots[s].state = "Reserved"
        ok       == reserved /\ Legal(p, "UploadQueued")
    IN
    /\ Registered(p)
    /\ "own slot" \in Contract => slots[s].page = p
    /\ transferDepth < TransferCap
    /\ NewTicket(p, "RamToVram", ok)
    /\ slots' = IF reserved
                THEN [slots EXCEPT ![s].state = "Uploading", ![s].ticket = nextTicket]
                ELSE slots
    /\ state' = IF ok THEN [state EXCEPT ![p] = "UploadQueued"] ELSE state
    /\ transferDepth' = Take(transferDepth, ok)
    /\ UNCHANGED <<gen, pageable, pinned, vram, leases, compute, bytes, nvmeDepth,
                   computeDepth>>

StartUpload(t) ==
    /\ Known(t, "RamToVram")
    /\ CanStart(tickets[t].status)
    /\ Mark(t, "Running")
    /\ Goto(tickets[t].page, "VramUploading")
    /\ UNCHANGED <<gen, pageable, pinned, vram, leases, slots, nextTicket, compute,
                   bytes, depths>>

\* The slot becomes Uploaded first; the ticket, the replica and the record
\* follow only if the ticket is Running.
CompleteUpload(t, s) ==
    LET p       == tickets[t].page
        running == CanFirstByte(tickets[t].status)
        commits == running /\ Legal(p, "Uploaded")
    IN
    /\ Known(t, "RamToVram")
    /\ Current(t)
    /\ slots[s].state = "Uploading" /\ slots[s].ticket = t
    /\ slots' = [slots EXCEPT ![s].state = "Uploaded"]
    /\ tickets' = IF running THEN [tickets EXCEPT ![t].status = "Completed"]
                  ELSE tickets
    /\ vram' = IF running THEN [vram EXCEPT ![p][s] = tickets[t].gen] ELSE vram
    /\ state' = IF commits THEN [state EXCEPT ![p] = "Uploaded"] ELSE state
    /\ transferDepth' = IF commits THEN Monus(transferDepth, 1) ELSE transferDepth
    /\ pinnedUsed' = IF commits THEN Monus(pinnedUsed, PageBytes[p]) ELSE pinnedUsed
    /\ vramUsed' = IF commits THEN vramUsed + PageBytes[p] ELSE vramUsed
    /\ UNCHANGED <<gen, pageable, pinned, leases, nextTicket, compute, pageableUsed,
                   nvmeDepth, computeDepth>>

MarkComputeReady(p, s) ==
    /\ Identifies(s, p)
    /\ slots[s].state = "Uploaded"
    /\ slots' = [slots EXCEPT ![s].state = "ComputeReady"]
    /\ Goto(p, "ComputeReady")
    /\ UNCHANGED <<gen, pageable, pinned, vram, leases, transfer, compute, bytes,
                   depths>>

\* The slot is pinned and the lease recorded before the record is asked to
\* move; the caller gets the lease only if it does.
AcquireCompute(p, s) ==
    LET lease == [id |-> nextLease, page |-> p, slot |-> s, gen |-> gen[p]]
        ok    == Legal(p, "InUse")
    IN
    /\ computeDepth < ComputeCap
    /\ nextLease <= MaxLeases
    /\ Identifies(s, p)
    /\ slots[s].state = "ComputeReady"
    /\ slots' = [slots EXCEPT ![s].state = "InUse", ![s].users = @ + 1]
    /\ leases' = [leases EXCEPT ![p] = @ \cup {lease}]
    /\ nextLease' = nextLease + 1
    /\ Goto(p, "InUse")
    /\ held' = IF ok THEN held \cup {lease} ELSE held
    /\ computeDepth' = Take(computeDepth, ok)
    /\ UNCHANGED <<gen, pageable, pinned, vram, transfer, bytes, nvmeDepth,
                   transferDepth>>

\* PageLease::validate_against and VramSlotTable::release, then the record.
\* The lease is passed by value: the caller no longer has it afterwards.
ReleaseCompute(lease) ==
    LET p == lease.page
        s == lease.slot
    IN
    /\ lease \in held
    /\ lease.gen = gen[p] /\ Has(vram[p][s])
    /\ Identifies(s, p) /\ slots[s].state = "InUse" /\ slots[s].users > 0
    /\ slots' = [slots EXCEPT ![s].users = @ - 1,
                              ![s].state = IF slots[s].users = 1 THEN "ComputeReady"
                                           ELSE @]
    /\ leases' = [leases EXCEPT ![p] = {l \in @ : l.id # lease.id}]
    /\ held' = held \ {lease}
    /\ Goto(p, "ComputeReady")
    /\ computeDepth' = IF Legal(p, "ComputeReady") THEN Monus(computeDepth, 1)
                       ELSE computeDepth
    /\ UNCHANGED <<gen, pageable, pinned, vram, transfer, nextLease, bytes, nvmeDepth,
                   transferDepth>>

\* A slot that refuses eviction leaves the record Evicting.
EvictVram(p, s) ==
    LET evicts == Identifies(s, p) /\ Evictable(s) IN
    /\ Has(vram[p][s])
    /\ state[p] \in {"ComputeReady", "Uploaded"}
    /\ state' = [state EXCEPT ![p] = IF evicts THEN "RamReady" ELSE "Evicting"]
    /\ slots' = IF evicts THEN [slots EXCEPT ![s] = FreeSlot] ELSE slots
    /\ vram' = IF evicts THEN [vram EXCEPT ![p][s] = NoGen] ELSE vram
    /\ vramUsed' = IF evicts THEN Monus(vramUsed, PageBytes[p]) ELSE vramUsed
    /\ UNCHANGED <<gen, pageable, pinned, leases, transfer, compute, pageableUsed,
                   pinnedUsed, depths>>

\* The stale slots are freed in slot order up to the first busy one, which
\* ends the call; only when none is busy does the record start over.
\* The variant drops the lease check and the check of each slot.
AdvanceGenerationBlind(p, g) ==
    /\ Registered(p)
    /\ g > gen[p]
    /\ slots' = [s \in Slots |-> IF slots[s].page = p THEN FreeSlot ELSE slots[s]]
    /\ gen' = [gen EXCEPT ![p] = g]
    /\ state' = [state EXCEPT ![p] = "Indexed"]
    /\ pageable' = [pageable EXCEPT ![p] = NoGen]
    /\ pinned' = [pinned EXCEPT ![p] = NoGen]
    /\ vram' = [vram EXCEPT ![p] = [s \in Slots |-> NoGen]]
    /\ UNCHANGED <<leases, transfer, compute, bytes, depths>>

AdvanceGeneration(p, g) ==
    LET stale == {s \in Slots : slots[s].page = p /\ slots[s].gen = gen[p]}
        busy  == {s \in stale : ~Evictable(s)}
        freed == {s \in stale : \A b \in busy : s < b}
        ok    == busy = {}
    IN
    /\ Registered(p)
    /\ leases[p] = {} /\ state[p] # "InUse"
    /\ g > gen[p]
    /\ slots' = [s \in Slots |-> IF s \in freed THEN FreeSlot ELSE slots[s]]
    /\ gen' = IF ok THEN [gen EXCEPT ![p] = g] ELSE gen
    /\ state' = IF ok THEN [state EXCEPT ![p] = "Indexed"] ELSE state
    /\ pageable' = IF ok THEN [pageable EXCEPT ![p] = NoGen] ELSE pageable
    /\ pinned' = IF ok THEN [pinned EXCEPT ![p] = NoGen] ELSE pinned
    /\ vram' = IF ok THEN [vram EXCEPT ![p] = [s \in Slots |-> NoGen]] ELSE vram
    /\ pageableUsed' = IF ok /\ Has(pageable[p])
                       THEN Monus(pageableUsed, PageBytes[p]) ELSE pageableUsed
    /\ pinnedUsed' = IF ok /\ Has(pinned[p])
                     THEN Monus(pinnedUsed, PageBytes[p]) ELSE pinnedUsed
    /\ UNCHANGED <<leases, transfer, compute, vramUsed, depths>>

-----------------------------------------------------------------------------
PageStep(p) ==
    \/ Register(p)
    \/ PublishRamPageable(p)
    \/ PromotePageableToPinned(p)
    \/ EvictPageableRam(p)
    \/ EvictRam(p)
    \/ QueueNvmeRead(p)
    \/ ReserveVram(p)
    \/ \E g \in Generation : AdvanceGeneration(p, g)

SlotStep(p, s) ==
    \/ QueueUpload(p, s)
    \/ MarkComputeReady(p, s)
    \/ AcquireCompute(p, s)
    \/ EvictVram(p, s)

TicketStep(t) ==
    \/ StartNvmeRead(t)
    \/ RefuseNvmeRead(t)
    \/ CompleteNvmeRead(t)
    \/ StartUpload(t)
    \/ \E s \in Slots : CompleteUpload(t, s)
    \/ CancelTicket(t)

Next ==
    \/ \E p \in Pages : PageStep(p)
    \/ \E p \in Pages, s \in Slots : SlotStep(p, s)
    \/ \E t \in TicketId : TicketStep(t)
    \/ \E lease \in held : ReleaseCompute(lease)

Spec == Init /\ [][Next]_vars
-----------------------------------------------------------------------------
(* Properties                                                               *)

\* Every variable stays in the domain its Rust type and the bounds give it.
TypeOK ==
    /\ state \in [Pages -> PageState]
    /\ gen \in [Pages -> Generation]
    /\ pageable \in [Pages -> Replica]
    /\ pinned \in [Pages -> Replica]
    /\ vram \in [Pages -> [Slots -> Replica]]
    /\ leases \in [Pages -> SUBSET Lease]
    /\ slots \in [Slots -> VramSlot]
    /\ tickets \in [TicketId -> TransferTicket]
    /\ nextTicket \in 1 .. MaxTickets + 1
    /\ nextLease \in 1 .. MaxLeases + 1
    /\ held \in SUBSET Lease
    /\ pageableUsed \in Nat /\ pinnedUsed \in Nat /\ vramUsed \in Nat
    /\ nvmeDepth \in Nat /\ transferDepth \in Nat /\ computeDepth \in Nat

\* ResidencyRecord::validate (types.rs) holds of every record after every call,
\* including the calls that return Err half way: no replica is of another
\* generation, RamReady has a RAM replica, the VRAM states have a VRAM
\* replica, InUse has a lease.
RecordsValidate == \A p \in Pages :
    /\ pageable[p] \in {gen[p], NoGen} /\ pinned[p] \in {gen[p], NoGen}
    /\ \A s \in Slots : vram[p][s] \in {gen[p], NoGen}
    /\ state[p] = "RamReady" => Has(pageable[p]) \/ Has(pinned[p])
    /\ state[p] \in {"Uploaded", "ComputeReady", "InUse"} => HasVram(p)
    /\ state[p] = "InUse" => leases[p] # {}

\* "Slot reuse is never implicit ... otherwise a free-list operation could
\* leave two pages claiming one slot" (manager.rs:131-133): a page that claims
\* a VRAM replica in a slot is the page, at the generation, the slot holds,
\* and no page has two slots.
ReplicaNamesOwnSlot ==
    /\ \A p \in Pages, s \in Slots : Has(vram[p][s]) =>
          /\ slots[s].page = p /\ slots[s].gen = vram[p][s]
          /\ slots[s].state \in {"Uploaded", "ComputeReady", "InUse"}
    /\ \A r, s \in Slots : slots[r].page = slots[s].page /\ r # s
                             => slots[s].page = NoPage

\* A lease in a record, returned to a caller or leaked by an acquire that
\* failed half way, keeps its slot InUse for that page and generation.
LeaseProtectsSlot == \A p \in Pages : \A l \in leases[p] :
    /\ slots[l.slot].state = "InUse" /\ slots[l.slot].users > 0
    /\ slots[l.slot].page = p /\ l.page = p
    /\ slots[l.slot].gen = l.gen /\ l.gen = gen[p]

\* Every lease a caller holds can be given back: the record still lists it and
\* still has the VRAM replica it names.
HeldLeaseReleasable == \A l \in held :
    /\ l \in leases[l.page]
    /\ gen[l.page] = l.gen /\ vram[l.page][l.slot] = l.gen
    /\ state[l.page] = "InUse"

\* A ticket that is still live at the page's generation is the one the record is
\* waiting for, and the only one, whichever calls of whichever kind it is passed to:
\* a record at rest has no transfer left that could move it.  A started upload may
\* find its record VramUploading already, since start_upload takes a ticket of an
\* older generation too; start_nvme_read does not.
LiveTicketMatchesRecord == \A t \in TicketId :
    LET k == tickets[t] IN
    k.issued /\ InFlight(k.status) /\ k.gen = gen[k.page] =>
        /\ k.kind = "NvmeRead" =>
              \/ state[k.page] = "NvmeReadQueued"
              \/ state[k.page] = "NvmeReading" /\ k.status = "Running"
        /\ k.kind = "RamToVram" => state[k.page] \in {"UploadQueued", "VramUploading"}
        /\ \A u \in TicketId \ {t} :
              tickets[u].issued /\ tickets[u].page = k.page /\ tickets[u].gen = k.gen
                => ~InFlight(tickets[u].status)

\* Of reads, when no ticket is passed to a call for uploads: the record says whether
\* the live one was started.
LiveReadMatchesRecord == \A t \in TicketId :
    LET k == tickets[t] IN
    k.issued /\ k.kind = "NvmeRead" /\ InFlight(k.status) /\ k.gen = gen[k.page] =>
        /\ state[k.page] = IF k.status = "Queued" THEN "NvmeReadQueued" ELSE "NvmeReading"
        /\ \A u \in TicketId :
              tickets[u].issued /\ tickets[u].kind = "NvmeRead" /\ u # t
                /\ tickets[u].page = k.page /\ tickets[u].gen = k.gen
                => ~InFlight(tickets[u].status)

\* The compute queue position is taken and given back with the lease.
ComputeDepthCountsLeases ==
    computeDepth = Cardinality(held) /\ computeDepth <= ComputeCap

\* The bytes of a set of pages.
BytesOf(S) == SumFunctionOnSet(PageBytes, S)

\* What admission to pageable RAM is decided on never understates what is
\* there, and stays within the budget, whatever evictions stopped half way.
PageableWithinBudget ==
    /\ BytesOf({p \in Pages : Has(pageable[p])}) <= pageableUsed
    /\ pageableUsed <= PageableBudget

\* vram_slot_used never understates the bytes of the VRAM replicas.
VramUsageNotUnderstated == BytesOf({p \in Pages : HasVram(p)}) <= vramUsed

\* While a caller holds a lease, no call of any other caller moves the record or
\* its generation, takes its replica away or reuses its slot.
LeasedPageFrozen == [][\A l \in held : l \in held' =>
    /\ state'[l.page] = state[l.page]
    /\ gen'[l.page] = gen[l.page]
    /\ vram'[l.page][l.slot] = vram[l.page][l.slot]
    /\ slots'[l.slot] = slots[l.slot]]_vars

\* An answer for an older generation never changes the record it comes late to.
StaleAnswerChangesNothing == [][\A t \in TicketId :
    tickets[t].status = "Running" /\ tickets'[t].status = "Completed" =>
        \/ tickets[t].gen = gen[tickets[t].page]
        \/ UNCHANGED <<record, slots, bytes>>]_vars

-----------------------------------------------------------------------------
(* The manager implements the promise of SlotOwnership                      *)

OwnerOf(s) == IF slots[s].page \in Pages
              THEN {[page |-> slots[s].page, gen |-> slots[s].gen]} ELSE {}
Ownership == INSTANCE SlotOwnership WITH
    owner <- [s \in Slots |-> OwnerOf(s)],
    inUse <- {s \in Slots : slots[s].users > 0}

\* Reservations, uploads, evictions, leases, generation changes and every call
\* that fails half way hand slots over only the way SlotOwnership allows.
ImplementsOwnership == Ownership!Spec

-----------------------------------------------------------------------------
(* The inductive invariants.  CoreInv needs nothing of the callers.  IInv   *)
(* is what holds beside it when they keep every clause of Contract.         *)

\* A slot is Free and blank, or holds a page at the page's generation, with one user
\* and that user's lease if it is InUse.
SlotsOwned == \A s \in Slots :
    LET k == slots[s] IN
    \/ k = FreeSlot
    \/ /\ k.page \in Pages /\ k.gen = gen[k.page] /\ k.state # "Free"
       /\ k.users = IF k.state = "InUse" THEN 1 ELSE 0
       /\ k.state = "InUse" => leases[k.page] # {}

OneSlotPerPage == \A r, s \in Slots :
    r # s /\ slots[r].page = slots[s].page => slots[s].page = NoPage

\* Every replica is of its page's generation, and a state that means VRAM has one
\* there - in whatever slot.
CopiesCurrent == \A p \in Pages :
    /\ pageable[p] \in {gen[p], NoGen} /\ pinned[p] \in {gen[p], NoGen}
    /\ \A s \in Slots : Has(vram[p][s]) => vram[p][s] = gen[p]
    /\ state[p] \in {"Uploaded", "ComputeReady", "InUse", "Evicting"} => HasVram(p)

\* A record has at most one lease, of its generation and on its own slot; one that a
\* caller holds finds the record InUse.
LeasesKept ==
    /\ \A p \in Pages : \A l \in leases[p] :
          /\ l.page = p /\ l.gen = gen[p]
          /\ slots[l.slot].page = p /\ slots[l.slot].state = "InUse"
          /\ \A m \in leases[p] : l = m
    /\ \A l \in held : l \in leases[l.page] /\ state[l.page] = "InUse"

FreshTickets == \A t \in TicketId : t >= nextTicket => tickets[t] = NoTicket

IssuedTickets == \A t \in TicketId : tickets[t].issued =>
    tickets[t].page \in Pages /\ tickets[t].gen <= gen[tickets[t].page]

CoreInv == /\ TypeOK /\ SlotsOwned /\ OneSlotPerPage /\ CopiesCurrent /\ LeasesKept
           /\ FreshTickets /\ IssuedTickets /\ LiveTicketMatchesRecord

\* States of a record whose page has no slot are exactly the others.
SlotlessState == {"Unregistered", "Indexed", "NvmeReadQueued", "NvmeReading", "RamReady"}
UploadState   == {"UploadQueued", "VramUploading"}
VramState     == {"Uploaded", "ComputeReady", "InUse", "Evicting"}

\* Which record states go with each state of the slot that holds the page, with
\* its VRAM replica and without (an upload whose ticket was not Running).
RecordStates(slotState, hasReplica) ==
    CASE slotState = "Reserved"     -> IF hasReplica THEN {} ELSE {"VramReserved"}
      [] slotState = "Uploading"    -> IF hasReplica THEN {} ELSE UploadState
      [] slotState = "Uploaded"     -> IF hasReplica THEN {"Uploaded"} ELSE UploadState
      [] slotState = "ComputeReady" -> IF hasReplica THEN {"ComputeReady", "Evicting"}
                                       ELSE UploadState
      [] slotState = "InUse"        -> IF hasReplica THEN {"InUse", "Evicting"}
                                       ELSE UploadState
      [] OTHER                      -> {}

\* A slot is Free and blank, or holds a page at the page's generation, in step
\* with the record.
SlotsAgree == \A s \in Slots :
    LET k == slots[s] IN
    \/ k = FreeSlot
    \/ /\ k.page \in Pages /\ k.gen = gen[k.page]
       /\ state[k.page] \in RecordStates(k.state, Has(vram[k.page][s]))
       /\ k.users = IF k.state = "InUse" THEN 1 ELSE 0
       /\ k.state = "InUse" => leases[k.page] # {}

ReplicasAgree == \A p \in Pages :
    /\ pageable[p] \in {gen[p], NoGen} /\ pinned[p] \in {gen[p], NoGen}
    /\ \A s \in Slots : Has(vram[p][s]) => vram[p][s] = gen[p] /\ slots[s].page = p
    /\ state[p] \in VramState => HasVram(p)

\* From RamReady until an eviction starts the page keeps a RAM replica.
RamRetained == \A p \in Pages :
    state[p] \notin (SlotlessState \ {"RamReady"}) \cup {"Evicting"} =>
        Has(pageable[p]) \/ Has(pinned[p])

LeasesAgree ==
    /\ \A p \in Pages : \A l \in leases[p] :
          /\ l.page = p /\ l.gen = gen[p]
          /\ slots[l.slot].page = p /\ slots[l.slot].state = "InUse"
          /\ \A m \in leases[p] : l = m
    /\ \A l \in held :
          /\ l \in leases[l.page]
          /\ state[l.page] = "InUse" /\ Has(vram[l.page][l.slot])

\* The ticket of an uploading slot is an upload of the slot's page, and the record
\* knows when it runs.
UploadTickets == \A s \in Slots : slots[s].state = "Uploading" =>
    LET k == tickets[slots[s].ticket] IN
    /\ slots[s].ticket \in TicketId /\ slots[s].ticket < nextTicket
    /\ k.page = slots[s].page /\ k.kind = "RamToVram"
    /\ k.status = "Running" => state[k.page] = "VramUploading"

IInv == /\ TypeOK /\ SlotsAgree /\ OneSlotPerPage /\ ReplicasAgree /\ RamRetained
        /\ LeasesAgree /\ FreshTickets /\ IssuedTickets /\ UploadTickets
        /\ LiveReadMatchesRecord
=============================================================================
