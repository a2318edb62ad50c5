------------------------- MODULE ResidencyManagerProofs -------------------------
(***************************************************************************)
(* The manager for any number of pages, slots, tickets and leases and      *)
(* whatever the budgets and queue capacities.  First the types, one lemma  *)
(* per method of manager.rs; then what holds whatever the callers do:      *)
(* CoreInv, one lemma per method, with the theorems on tickets and leases; *)
(* then what holds beside it when callers keep both clauses of Contract:   *)
(* IInv, one lemma per method.                                             *)
(*                                                                         *)
(* What follows from the two: of CoreInv, that leases freeze their pages,  *)
(* that the manager implements SlotOwnership, that late answers change     *)
(* nothing and that the counters of pageable RAM and of leases are kept;   *)
(* of IInv, that replicas name their own slots, that records are valid and *)
(* that the counter of VRAM is not understated.  Counters are compared     *)
(* with sums over whatever finite set of pages there is.                   *)
(***************************************************************************)
EXTENDS MCResidencyManager, DataLemmas

-----------------------------------------------------------------------------
(* Types                                                                    *)

\* A requested transition leaves the record in a state of the enum, accepted or
\* refused (ResidencyRecord::transition).
LEMMA AfterType ==
    ASSUME NEW from \in PageState, NEW to \in PageState
    PROVE  After(from, to) \in PageState
  BY DEF After

\* saturating_sub stays in the unsigned range.
LEMMA MonusType ==
    ASSUME NEW a \in Nat, NEW b \in Nat
    PROVE  Monus(a, b) \in Nat
  BY DEF Monus

\* representation.bytes is an unsigned number.
LEMMA PageBytesType == \A p \in Pages : PageBytes[p] \in Nat
  BY BytesAssumption

\* Adding a page's bytes to a byte counter, or taking them off, stays in range.
LEMMA AddBytesType ==
    ASSUME NEW a \in Nat, NEW p \in Pages
    PROVE  a + PageBytes[p] \in Nat /\ Monus(a, PageBytes[p]) \in Nat
  <1>1. PageBytes[p] \in Nat
    BY PageBytesType
  <1> QED
    BY <1>1 DEF Monus

\* Writing the status of a ticket keeps the ticket table in its type.
LEMMA MarkType ==
    ASSUME TypeOK, NEW t \in TicketId, NEW status \in TransferStatus, Mark(t, status)
    PROVE  tickets' \in [TicketId -> TransferTicket]
  BY DEF TypeOK, Mark, TransferTicket

\* new_ticket takes an identifier within the bound and keeps the table in its
\* type, returned to the caller or not.
LEMMA NewTicketType ==
    ASSUME TypeOK, NEW p \in Pages, NEW kind \in TransferKind, NEW ok \in BOOLEAN,
           NewTicket(p, kind, ok)
    PROVE  /\ nextTicket \in TicketId
           /\ tickets' \in [TicketId -> TransferTicket]
           /\ nextTicket' \in 1 .. MaxTickets + 1
  <1>1. nextTicket \in TicketId /\ nextTicket' \in 1 .. MaxTickets + 1
    BY BoundAssumption DEF TypeOK, NewTicket, TicketId
  <1>2. [page |-> p, gen |-> gen[p], kind |-> kind, status |-> "Queued",
         issued |-> ok] \in TransferTicket
    BY DEF TypeOK, TransferTicket, TransferStatus, Replica
  <1> QED
    BY <1>1, <1>2 DEF TypeOK, NewTicket

\* register keeps every variable in its type.
LEMMA RegisterType == ASSUME TypeOK, NEW p \in Pages, Register(p) PROVE TypeOK'
  BY DEF TypeOK, Register, transfer, compute, bytes, depths, PageState, ResidencyState

\* publish_ram_pageable keeps every variable in its type.
LEMMA PublishType == ASSUME TypeOK, NEW p \in Pages, PublishRamPageable(p) PROVE TypeOK'
  <1>0. gen[p] \in Replica /\ pageableUsed + PageBytes[p] \in Nat
    BY BytesAssumption DEF TypeOK, Replica
  <1>1. pageable' \in [Pages -> Replica] /\ pageableUsed' \in Nat
    BY <1>0 DEF TypeOK, PublishRamPageable
  <1>2. state' \in [Pages -> PageState]
    BY DEF TypeOK, PublishRamPageable, PageState, ResidencyState
  <1> QED
    BY <1>1, <1>2 DEF TypeOK, PublishRamPageable, transfer, compute, depths

\* promote_pageable_to_pinned keeps every variable in its type.
LEMMA PromoteType ==
    ASSUME TypeOK, NEW p \in Pages, PromotePageableToPinned(p)
    PROVE  TypeOK'
  <1>0. gen[p] \in Replica /\ NoGen \in Replica
    BY DEF TypeOK, Replica
  <1>1. pinnedUsed + PageBytes[p] \in Nat /\ Monus(pageableUsed, PageBytes[p]) \in Nat
    BY AddBytesType, MonusType DEF TypeOK
  <1> QED
    BY <1>0, <1>1 DEF TypeOK, PromotePageableToPinned, transfer, compute, depths

\* evict_pageable_ram keeps every variable in its type.
LEMMA EvictPageableType ==
    ASSUME TypeOK, NEW p \in Pages, EvictPageableRam(p)
    PROVE  TypeOK'
  <1>0. /\ NoGen \in Replica /\ Monus(pageableUsed, PageBytes[p]) \in Nat
        /\ After("Evicting", AfterRamEviction(p)) \in PageState
    BY BytesAssumption, MonusType, AfterType
    DEF TypeOK, Replica, AfterRamEviction, PageState, ResidencyState
  <1> QED
    BY <1>0 DEF TypeOK, EvictPageableRam, transfer, compute, depths

\* evict_ram keeps every variable in its type.
LEMMA EvictRamType == ASSUME TypeOK, NEW p \in Pages, EvictRam(p) PROVE TypeOK'
  <1>0. /\ NoGen \in Replica /\ Monus(pinnedUsed, PageBytes[p]) \in Nat
        /\ After("Evicting", AfterRamEviction(p)) \in PageState
    BY BytesAssumption, MonusType, AfterType
    DEF TypeOK, Replica, AfterRamEviction, PageState, ResidencyState
  <1> QED
    BY <1>0 DEF TypeOK, EvictRam, transfer, compute, depths

\* queue_nvme_read keeps every variable in its type.
LEMMA QueueNvmeType == ASSUME TypeOK, NEW p \in Pages, QueueNvmeRead(p) PROVE TypeOK'
  <1>0. "NvmeRead" \in TransferKind /\ Legal(p, "NvmeReadQueued") \in BOOLEAN
    BY DEF TransferKind, Legal, LegalTransition
  <1>1. /\ tickets' \in [TicketId -> TransferTicket]
        /\ nextTicket' \in 1 .. MaxTickets + 1
    BY <1>0, NewTicketType DEF QueueNvmeRead
  <1>2. After(state[p], "NvmeReadQueued") \in PageState
    BY AfterType DEF TypeOK, PageState, ResidencyState
  <1>3. nvmeDepth' \in Nat
    BY DEF TypeOK, QueueNvmeRead, Take
  <1> QED
    BY <1>1, <1>2, <1>3 DEF TypeOK, QueueNvmeRead, Goto, compute, bytes, Take

\* start_nvme_read keeps every variable in its type.
LEMMA StartNvmeType ==
    ASSUME TypeOK, NEW t \in TicketId, tickets[t].page \in Pages, StartNvmeRead(t)
    PROVE  TypeOK'
  <1>1. tickets' \in [TicketId -> TransferTicket]
    BY MarkType DEF StartNvmeRead, TransferStatus, Current
  <1>2. After(state[tickets[t].page], "NvmeReading") \in PageState
    BY AfterType DEF TypeOK, PageState, ResidencyState
  <1> QED
    BY <1>1, <1>2 DEF TypeOK, StartNvmeRead, Goto, compute, bytes, depths, Current

\* complete_nvme_read, refused by the pinned budget, keeps every variable in
\* its type.
LEMMA RefuseType == ASSUME TypeOK, NEW t \in TicketId, RefuseNvmeRead(t) PROVE TypeOK'
  <1>1. tickets' \in [TicketId -> TransferTicket]
    BY MarkType DEF RefuseNvmeRead, TransferStatus
  <1>2. nvmeDepth' \in Nat
    BY MonusType DEF TypeOK, RefuseNvmeRead
  <1> QED
    BY <1>1, <1>2 DEF TypeOK, RefuseNvmeRead, record, compute, bytes

\* complete_nvme_read keeps every variable in its type.
LEMMA CompleteNvmeType ==
    ASSUME TypeOK, NEW t \in TicketId, tickets[t].page \in Pages, CompleteNvmeRead(t)
    PROVE  TypeOK'
  <1> DEFINE p == tickets[t].page
  <1>1. tickets' \in [TicketId -> TransferTicket]
    BY MarkType DEF CompleteNvmeRead, TransferStatus, Current
  <1>2. tickets[t].gen \in Replica
    BY DEF TypeOK, TransferTicket
  <1>3. pinned' \in [Pages -> Replica]
    BY <1>2 DEF TypeOK, CompleteNvmeRead, Current
  <1>4. state' \in [Pages -> PageState]
    BY DEF TypeOK, CompleteNvmeRead, PageState, ResidencyState, Current
  <1>5. pinnedUsed + PageBytes[p] \in Nat /\ Monus(nvmeDepth, 1) \in Nat
    BY AddBytesType, MonusType DEF TypeOK
  <1>6. pinnedUsed' \in Nat /\ nvmeDepth' \in Nat
    BY <1>5 DEF TypeOK, CompleteNvmeRead, Current
  <1> QED
    BY <1>1, <1>3, <1>4, <1>6 DEF TypeOK, CompleteNvmeRead, compute, Current

\* cancel_ticket keeps every variable in its type.
LEMMA CancelType == ASSUME TypeOK, NEW t \in TicketId, CancelTicket(t) PROVE TypeOK'
  <1>1. tickets' \in [TicketId -> TransferTicket]
    BY MarkType DEF CancelTicket, TransferStatus
  <1>2. nvmeDepth' \in Nat /\ transferDepth' \in Nat
    BY MonusType DEF TypeOK, CancelTicket
  <1> QED
    BY <1>1, <1>2 DEF TypeOK, CancelTicket, record, compute, bytes

\* reserve_vram keeps every variable in its type.
LEMMA ReserveType == ASSUME TypeOK, NEW p \in Pages, ReserveVram(p) PROVE TypeOK'
  <1>1. [FreeSlot EXCEPT !.state = "Reserved", !.page = p, !.gen = gen[p]] \in VramSlot
    BY DEF TypeOK, FreeSlot, VramSlot, SlotState, Replica
  <1>2. slots' \in [Slots -> VramSlot]
    BY <1>1 DEF TypeOK, ReserveVram
  <1>3. state' \in [Pages -> PageState]
    BY DEF TypeOK, ReserveVram, PageState, ResidencyState
  <1> QED
    BY <1>2, <1>3 DEF TypeOK, ReserveVram, transfer, compute, bytes, depths

\* queue_upload keeps every variable in its type.
LEMMA QueueUploadType ==
    ASSUME TypeOK, NEW p \in Pages, NEW s \in Slots, QueueUpload(p, s)
    PROVE  TypeOK'
  <1>1. /\ nextTicket \in TicketId
        /\ tickets' \in [TicketId -> TransferTicket]
        /\ nextTicket' \in 1 .. MaxTickets + 1
    BY NewTicketType DEF QueueUpload, TransferKind, Legal, LegalTransition
  <1>2. slots' \in [Slots -> VramSlot]
    <2>1. [slots[s] EXCEPT !.state = "Uploading", !.ticket = nextTicket] \in VramSlot
      BY <1>1 DEF TypeOK, VramSlot, SlotState
    <2>2. \/ slots' = slots
          \/ slots' = [slots EXCEPT ![s] =
                         [slots[s] EXCEPT !.state = "Uploading", !.ticket = nextTicket]]
      BY DEF QueueUpload, TypeOK, Take
    <2> QED
      BY <2>1, <2>2 DEF TypeOK
  <1>3. state' \in [Pages -> PageState]
    BY DEF TypeOK, QueueUpload, PageState, ResidencyState
  <1>4. transferDepth' \in Nat
    <2>1. transferDepth' = transferDepth \/ transferDepth' = transferDepth + 1
      BY DEF QueueUpload, Take
    <2> QED
      BY <2>1 DEF TypeOK
  <1> QED
    BY <1>1, <1>2, <1>3, <1>4 DEF TypeOK, QueueUpload, compute, bytes

\* start_upload keeps every variable in its type.
LEMMA StartUploadType ==
    ASSUME TypeOK, NEW t \in TicketId, tickets[t].page \in Pages, StartUpload(t)
    PROVE  TypeOK'
  <1>1. tickets' \in [TicketId -> TransferTicket]
    BY MarkType DEF StartUpload, TransferStatus
  <1>2. After(state[tickets[t].page], "VramUploading") \in PageState
    BY AfterType DEF TypeOK, PageState, ResidencyState
  <1> QED
    BY <1>1, <1>2 DEF TypeOK, StartUpload, Goto, compute, bytes, depths

\* complete_upload keeps every variable in its type.
LEMMA CompleteUploadType ==
    ASSUME TypeOK, NEW t \in TicketId, NEW s \in Slots, tickets[t].page \in Pages, CompleteUpload(t, s)
    PROVE  TypeOK'
  <1> DEFINE p == tickets[t].page
  <1>0. /\ slots' = [slots EXCEPT ![s].state = "Uploaded"]
        /\ \/ tickets' = tickets
           \/ tickets' = [tickets EXCEPT ![t].status = "Completed"]
    BY DEF CompleteUpload, Current
  <1>1. slots' \in [Slots -> VramSlot]
    BY ZenonT(40), <1>0 DEF TypeOK, VramSlot, SlotState
  <1>2. tickets' \in [TicketId -> TransferTicket]
    BY ZenonT(40), <1>0 DEF TypeOK, TransferTicket, TransferStatus
  <1>3. tickets[t].gen \in Replica
    BY DEF TypeOK, TransferTicket
  <1>4. vram' \in [Pages -> [Slots -> Replica]]
    BY <1>3 DEF TypeOK, CompleteUpload, Current
  <1>5. state' \in [Pages -> PageState]
    BY DEF TypeOK, CompleteUpload, PageState, ResidencyState, Current
  <1>6. /\ Monus(transferDepth, 1) \in Nat /\ Monus(pinnedUsed, PageBytes[p]) \in Nat
        /\ vramUsed + PageBytes[p] \in Nat
    BY AddBytesType, MonusType DEF TypeOK
  <1>7. transferDepth' \in Nat /\ pinnedUsed' \in Nat /\ vramUsed' \in Nat
    BY <1>6 DEF TypeOK, CompleteUpload, Current
  <1> QED
    BY <1>1, <1>2, <1>4, <1>5, <1>7 DEF TypeOK, CompleteUpload, compute, Current

\* mark_compute_ready keeps every variable in its type.
LEMMA MarkReadyType ==
    ASSUME TypeOK, NEW p \in Pages, NEW s \in Slots, MarkComputeReady(p, s)
    PROVE  TypeOK'
  <1>1. slots' \in [Slots -> VramSlot]
    BY DEF TypeOK, MarkComputeReady, VramSlot, SlotState
  <1>2. After(state[p], "ComputeReady") \in PageState
    BY AfterType DEF TypeOK, PageState, ResidencyState
  <1> QED
    BY <1>1, <1>2 DEF TypeOK, MarkComputeReady, Goto, transfer, compute, bytes, depths

\* acquire_compute keeps every variable in its type.
LEMMA AcquireType ==
    ASSUME TypeOK, NEW p \in Pages, NEW s \in Slots, AcquireCompute(p, s)
    PROVE  TypeOK'
  <1>1. After(state[p], "InUse") \in PageState
    BY AfterType DEF TypeOK, PageState, ResidencyState
  <1>2. slots[s] \in VramSlot /\ slots[s].users + 1 \in Nat
    BY DEF TypeOK, VramSlot
  <1>3. [slots[s] EXCEPT !.state = "InUse", !.users = @ + 1] \in VramSlot
    BY <1>2 DEF VramSlot, SlotState
  <1>4. slots' = [slots EXCEPT ![s] = [slots[s] EXCEPT !.state = "InUse", !.users = @ + 1]]
    BY DEF AcquireCompute, TypeOK, Take
  <1>5. slots' \in [Slots -> VramSlot]
    BY <1>3, <1>4 DEF TypeOK
  <1>6. [id |-> nextLease, page |-> p, slot |-> s, gen |-> gen[p]] \in Lease
    BY BoundAssumption DEF TypeOK, AcquireCompute, Lease, Take
  <1>7. leases' \in [Pages -> SUBSET Lease] /\ held' \in SUBSET Lease
    BY <1>6 DEF TypeOK, AcquireCompute, Take
  <1>8. nextLease' \in 1 .. MaxLeases + 1 /\ computeDepth' \in Nat
    BY BoundAssumption DEF TypeOK, AcquireCompute, Take
  <1> QED
    BY <1>1, <1>5, <1>7, <1>8 DEF TypeOK, AcquireCompute, Goto, transfer, bytes, Take

\* release_compute keeps every variable in its type.
LEMMA ReleaseType ==
    ASSUME TypeOK, NEW lease \in held, ReleaseCompute(lease)
    PROVE  TypeOK'
  <1> DEFINE p == lease.page  s == lease.slot
  <1>1. p \in Pages /\ s \in Slots
    BY DEF TypeOK, Lease
  <1>2. After(state[p], "ComputeReady") \in PageState
    BY <1>1, AfterType DEF TypeOK, PageState, ResidencyState
  <1>3. slots[s] \in VramSlot /\ slots[s].users - 1 \in Nat
    BY <1>1 DEF TypeOK, VramSlot, ReleaseCompute
  <1>4. [slots[s] EXCEPT !.users = @ - 1,
             !.state = IF slots[s].users = 1 THEN "ComputeReady" ELSE @] \in VramSlot
    BY <1>3 DEF VramSlot, SlotState
  <1>5. slots' = [slots EXCEPT ![s] = [slots[s] EXCEPT !.users = @ - 1,
             !.state = IF slots[s].users = 1 THEN "ComputeReady" ELSE @]]
    BY <1>1 DEF ReleaseCompute, TypeOK
  <1>6. slots' \in [Slots -> VramSlot]
    BY <1>4, <1>5 DEF TypeOK
  <1>7. leases' \in [Pages -> SUBSET Lease] /\ held' \in SUBSET Lease
    BY <1>1 DEF TypeOK, ReleaseCompute
  <1>8. computeDepth' \in Nat
    BY MonusType DEF TypeOK, ReleaseCompute
  <1> QED
    BY <1>1, <1>2, <1>6, <1>7, <1>8 DEF TypeOK, ReleaseCompute, Goto, transfer, bytes

\* evict_vram keeps every variable in its type.
LEMMA EvictVramType ==
    ASSUME TypeOK, NEW p \in Pages, NEW s \in Slots, EvictVram(p, s)
    PROVE  TypeOK'
  <1>1. FreeSlot \in VramSlot
    BY DEF FreeSlot, VramSlot, SlotState, Replica
  <1>2. slots' \in [Slots -> VramSlot] /\ vram' \in [Pages -> [Slots -> Replica]]
    BY <1>1 DEF TypeOK, EvictVram, Replica
  <1>3. state' \in [Pages -> PageState]
    BY DEF TypeOK, EvictVram, PageState, ResidencyState
  <1>4. vramUsed' \in Nat
    BY BytesAssumption, MonusType DEF TypeOK, EvictVram
  <1> QED
    BY <1>2, <1>3, <1>4 DEF TypeOK, EvictVram, transfer, compute, depths

\* advance_generation keeps every variable in its type.
LEMMA AdvanceType ==
    ASSUME TypeOK, NEW p \in Pages, NEW g \in Generation, AdvanceGeneration(p, g)
    PROVE  TypeOK'
  <1>1. FreeSlot \in VramSlot /\ NoGen \in Replica
    BY DEF FreeSlot, VramSlot, SlotState, Replica
  <1>2. slots' \in [Slots -> VramSlot]
    BY <1>1 DEF TypeOK, AdvanceGeneration
  <1>3. /\ gen' \in [Pages -> Generation] /\ pageable' \in [Pages -> Replica]
        /\ pinned' \in [Pages -> Replica]
    BY <1>1 DEF TypeOK, AdvanceGeneration
  <1>4. vram' \in [Pages -> [Slots -> Replica]]
    BY <1>1 DEF TypeOK, AdvanceGeneration
  <1>5. state' \in [Pages -> PageState]
    BY DEF TypeOK, AdvanceGeneration, PageState, ResidencyState
  <1>6. /\ Monus(pageableUsed, PageBytes[p]) \in Nat
        /\ Monus(pinnedUsed, PageBytes[p]) \in Nat
    BY AddBytesType, MonusType DEF TypeOK
  <1>7. pageableUsed' \in Nat /\ pinnedUsed' \in Nat
    BY <1>6 DEF TypeOK, AdvanceGeneration
  <1> QED
    BY <1>2, <1>3, <1>4, <1>5, <1>7
    DEF TypeOK, AdvanceGeneration, transfer, compute, depths

-----------------------------------------------------------------------------
(* What holds whatever the callers do                                       *)

\* A slot that holds a page holds it at its generation and is not Free.
LEMMA OwnedSlot ==
    ASSUME CoreInv, NEW p \in Pages, NEW s \in Slots, slots[s].page = p
    PROVE  /\ slots[s].gen = gen[p] /\ slots[s].state # "Free"
           /\ slots[s].users = IF slots[s].state = "InUse" THEN 1 ELSE 0
           /\ slots[s].state = "InUse" => leases[p] # {}
           /\ \A r \in Slots : slots[r].page = p => r = s
  <1>1. slots[s] # FreeSlot
    BY PagesAssumption DEF FreeSlot
  <1> QED
    BY <1>1, PagesAssumption DEF CoreInv, SlotsOwned, OneSlotPerPage

\* A lease of a record is the only one, on the slot that holds its page.
LEMMA OwnLease ==
    ASSUME CoreInv, NEW p \in Pages, NEW l \in leases[p]
    PROVE  /\ l.page = p /\ l.gen = gen[p] /\ l.slot \in Slots
           /\ slots[l.slot].page = p /\ slots[l.slot].state = "InUse"
           /\ \A m \in leases[p] : l = m
           /\ \A r \in Slots : slots[r].page = p => r = l.slot
  <1>1. l.slot \in Slots
    BY DEF CoreInv, TypeOK, Lease
  <1>2. /\ l.page = p /\ l.gen = gen[p]
        /\ slots[l.slot].page = p /\ slots[l.slot].state = "InUse"
        /\ \A m \in leases[p] : l = m
    BY DEF CoreInv, LeasesKept
  <1> QED
    BY <1>1, <1>2, OwnedSlot

\* A lease a caller holds is listed by a record InUse.
LEMMA HeldLease ==
    ASSUME CoreInv, NEW l \in held
    PROVE  /\ l.page \in Pages /\ l.slot \in Slots
           /\ l \in leases[l.page]
           /\ state[l.page] = "InUse"
           /\ slots[l.slot].page = l.page /\ slots[l.slot].state = "InUse"
  <1>1. l.page \in Pages /\ l.slot \in Slots
    BY DEF CoreInv, TypeOK, Lease
  <1> QED
    BY <1>1 DEF CoreInv, LeasesKept

\* A record that moves while no lease on it is held disturbs no slot and no lease.
LEMMA SlotsFrame ==
    ASSUME CoreInv, UNCHANGED <<slots, gen, leases, held>>,
           \A q \in Pages : state'[q] = state[q] \/ state[q] # "InUse"
    PROVE  SlotsOwned' /\ OneSlotPerPage' /\ LeasesKept'
  <1>1. SlotsOwned' /\ OneSlotPerPage'
    BY DEF CoreInv, SlotsOwned, OneSlotPerPage
  <1>2. \A l \in held : l \in leases[l.page] /\ state'[l.page] = "InUse"
    BY HeldLease
  <1> QED
    BY <1>1, <1>2 DEF CoreInv, LeasesKept

\* The states of a record that a ticket may be live for.
Waiting == {"NvmeReadQueued", "NvmeReading", "UploadQueued", "VramUploading"}

\* What LiveTicketMatchesRecord says of one ticket in a state st of its record.
Awaited(k, st) ==
    /\ k.kind = "NvmeRead" => \/ st = "NvmeReadQueued"
                              \/ st = "NvmeReading" /\ k.status = "Running"
    /\ k.kind = "RamToVram" => st \in {"UploadQueued", "VramUploading"}

\* A live ticket of the generation its page has: awaited, and the only one.
Live(t) == /\ tickets[t].issued /\ InFlight(tickets[t].status)
           /\ tickets[t].gen = gen[tickets[t].page]

LEMMA LiveTicket ==
    ASSUME CoreInv, NEW t \in TicketId, Live(t)
    PROVE  /\ tickets[t].page \in Pages
           /\ Awaited(tickets[t], state[tickets[t].page])
           /\ state[tickets[t].page] \in Waiting
           /\ \A u \in TicketId : Live(u) /\ tickets[u].page = tickets[t].page => u = t
  <1>1. tickets[t].page \in Pages /\ tickets[t].kind \in TransferKind
    BY DEF CoreInv, IssuedTickets, Live, TypeOK, TransferTicket
  <1>2. Awaited(tickets[t], state[tickets[t].page])
    BY DEF CoreInv, LiveTicketMatchesRecord, Live, Awaited
  <1>3. \A u \in TicketId : Live(u) /\ tickets[u].page = tickets[t].page => u = t
    BY DEF CoreInv, LiveTicketMatchesRecord, Live
  <1> QED
    BY <1>1, <1>2, <1>3 DEF Awaited, Waiting, TransferKind

\* A record at rest may move without any ticket noticing.
LEMMA TicketsFrame ==
    ASSUME CoreInv, UNCHANGED <<tickets, nextTicket, gen>>,
           \A q \in Pages : state'[q] = state[q] \/ state[q] \notin Waiting
    PROVE  FreshTickets' /\ IssuedTickets' /\ LiveTicketMatchesRecord'
  <1>1. FreshTickets' /\ IssuedTickets'
    BY DEF CoreInv, FreshTickets, IssuedTickets
  <1>2. \A t \in TicketId : tickets[t].issued => tickets[t].page \in Pages
    BY DEF CoreInv, IssuedTickets
  <1>3. LiveTicketMatchesRecord'
    BY <1>2 DEF CoreInv, LiveTicketMatchesRecord, Waiting
  <1> QED
    BY <1>1, <1>3

\* A ticket that ends leaves its record to move on, if it was the one awaited.
LEMMA TicketEnds ==
    ASSUME CoreInv, NEW t \in TicketId, tickets[t].issued,
           NEW status \in {"Completed", "Cancelled", "Failed"}, Mark(t, status),
           UNCHANGED <<nextTicket, gen>>,
           \A q \in Pages : \/ state'[q] = state[q]
                            \/ q = tickets[t].page /\ Live(t)
    PROVE  FreshTickets' /\ IssuedTickets' /\ LiveTicketMatchesRecord'
  <1>1. /\ tickets'[t] = [tickets[t] EXCEPT !.status = status]
        /\ \A u \in TicketId : u # t => tickets'[u] = tickets[u]
    BY DEF CoreInv, TypeOK, Mark
  <1>2. /\ tickets'[t].issued = tickets[t].issued /\ tickets'[t].page = tickets[t].page
        /\ tickets'[t].gen = tickets[t].gen /\ tickets'[t].status = status
    BY <1>1 DEF CoreInv, TypeOK, TransferTicket
  <1>3. FreshTickets'
    <2>1. ~(t >= nextTicket)
      BY DEF CoreInv, FreshTickets, NoTicket
    <2> QED
      BY <1>1, <2>1 DEF CoreInv, FreshTickets
  <1>4. IssuedTickets'
    BY <1>1, <1>2 DEF CoreInv, IssuedTickets
  <1>5. ASSUME NEW u \in TicketId, Live(u)'
        PROVE  u # t /\ Live(u) /\ tickets'[u] = tickets[u] /\ tickets[u].page \in Pages
               /\ state'[tickets[u].page] = state[tickets[u].page]
    <2>1. u # t
      BY <1>2, <1>5 DEF Live, InFlight
    <2>2. Live(u) /\ tickets'[u] = tickets[u]
      BY <1>1, <1>5, <2>1 DEF Live
    <2>3. ~(Live(t) /\ tickets[u].page = tickets[t].page)
      BY <2>1, <2>2, LiveTicket
    <2> QED
      BY <2>1, <2>2, <2>3, LiveTicket
  <1>6. LiveTicketMatchesRecord'
    <2>1. ASSUME NEW u \in TicketId, Live(u)'
          PROVE  /\ Awaited(tickets[u], state[tickets[u].page])'
                 /\ \A v \in TicketId : Live(v)' /\ tickets'[v].page = tickets'[u].page => v = u
      <3>1. Awaited(tickets[u], state[tickets[u].page])'
        BY <1>5, <2>1, LiveTicket DEF Awaited
      <3>2. \A v \in TicketId : Live(v)' /\ tickets'[v].page = tickets'[u].page => v = u
        BY <1>5, <2>1, LiveTicket
      <3> QED
        BY <3>1, <3>2
    <2> QED
      BY <2>1 DEF LiveTicketMatchesRecord, Live, Awaited
  <1> QED
    BY <1>3, <1>4, <1>6

\* A ticket that starts asks its record to follow; whichever kind the call is for, a
\* record that does is one that waits for it or for another upload of its page.
LEMMA TicketStarts ==
    ASSUME CoreInv, NEW t \in TicketId, tickets[t].issued, tickets[t].status = "Queued",
           Mark(t, "Running"), UNCHANGED <<nextTicket, gen>>,
           \/ Goto(tickets[t].page, "VramUploading")
           \/ Goto(tickets[t].page, "NvmeReading") /\ Current(t)
    PROVE  FreshTickets' /\ IssuedTickets' /\ LiveTicketMatchesRecord'
  <1> DEFINE p == tickets[t].page
  <1>0. p \in Pages
    BY DEF CoreInv, IssuedTickets
  <1>1. /\ tickets'[t] = [tickets[t] EXCEPT !.status = "Running"]
        /\ \A u \in TicketId : u # t => tickets'[u] = tickets[u]
    BY DEF CoreInv, TypeOK, Mark
  <1>2. /\ tickets'[t].issued = tickets[t].issued /\ tickets'[t].page = tickets[t].page
        /\ tickets'[t].gen = tickets[t].gen /\ tickets'[t].status = "Running"
        /\ tickets'[t].kind = tickets[t].kind
    BY <1>1 DEF CoreInv, TypeOK, TransferTicket
  <1>3. FreshTickets'
    <2>1. ~(t >= nextTicket)
      BY DEF CoreInv, FreshTickets, NoTicket
    <2> QED
      BY <1>1, <2>1 DEF CoreInv, FreshTickets
  <1>4. IssuedTickets'
    BY <1>1, <1>2 DEF CoreInv, IssuedTickets
  <1>5. /\ \A q \in Pages : q # p => state'[q] = state[q]
        /\ \/ state'[p] = state[p]
           \/ state[p] = "UploadQueued" /\ state'[p] = "VramUploading"
           \/ state[p] = "NvmeReadQueued" /\ state'[p] = "NvmeReading" /\ Live(t)
    <2>1. \/ state' = [state EXCEPT ![p] = After(@, "VramUploading")]
          \/ state' = [state EXCEPT ![p] = After(@, "NvmeReading")] /\ Live(t)
      BY DEF Goto, Live, InFlight, Current
    <2>2. After(state[p], "VramUploading") \in {state[p], "VramUploading"}
          /\ (After(state[p], "VramUploading") # state[p] => state[p] = "UploadQueued")
      BY DEF After, LegalTransition, Successors
    <2>3. After(state[p], "NvmeReading") \in {state[p], "NvmeReading"}
          /\ (After(state[p], "NvmeReading") # state[p] => state[p] = "NvmeReadQueued")
      BY DEF After, LegalTransition, Successors
    <2> QED
      BY <1>0, <2>1, <2>2, <2>3 DEF CoreInv, TypeOK
  <1>6. ASSUME NEW u \in TicketId, Live(u)'
        PROVE  Live(u) /\ tickets'[u].page = tickets[u].page
    BY <1>1, <1>2, <1>6 DEF Live, InFlight
  <1>7. ASSUME NEW u \in TicketId, Live(u)'
        PROVE  Awaited(tickets'[u], state'[tickets'[u].page])
    <2>1. Live(u) /\ tickets'[u].page = tickets[u].page /\ tickets[u].page \in Pages
          /\ Awaited(tickets[u], state[tickets[u].page])
      BY <1>6, <1>7, LiveTicket
    <2>2. /\ tickets'[u].kind = tickets[u].kind
          /\ tickets[u].status = "Running" => tickets'[u].status = "Running"
      BY <1>1, <1>2
    <2>3. CASE state'[tickets[u].page] = state[tickets[u].page]
      BY <2>1, <2>2, <2>3 DEF Awaited
    <2>4. CASE state'[tickets[u].page] # state[tickets[u].page]
      <3>1. tickets[u].page = p
        BY <1>5, <2>1, <2>4
      <3>2. CASE state[p] = "UploadQueued" /\ state'[p] = "VramUploading"
        BY <2>1, <2>2, <3>1, <3>2 DEF Awaited
      <3>3. CASE state[p] = "NvmeReadQueued" /\ state'[p] = "NvmeReading" /\ Live(t)
        <4>1. u = t
          BY <2>1, <3>1, <3>3, LiveTicket
        <4> QED
          BY <1>2, <2>1, <2>2, <3>1, <3>3, <4>1 DEF Awaited
      <3> QED
        BY <1>5, <2>4, <3>1, <3>2, <3>3
    <2> QED
      BY <2>3, <2>4
  <1>8. \A u, v \in TicketId : Live(u)' /\ Live(v)' /\ tickets'[v].page = tickets'[u].page => v = u
    BY <1>6, LiveTicket
  <1>9. LiveTicketMatchesRecord'
    BY <1>7, <1>8 DEF LiveTicketMatchesRecord, Live, Awaited
  <1> QED
    BY <1>3, <1>4, <1>9

\* A ticket given out is the live one of its page: the record was at rest and now waits.
LEMMA TicketMade ==
    ASSUME CoreInv, NEW p \in Pages, NEW kind \in TransferKind, NEW ok \in BOOLEAN,
           NewTicket(p, kind, ok), UNCHANGED gen,
           \A q \in Pages : q # p => state'[q] = state[q],
           ~ok => state'[p] = state[p],
           ok => state[p] \notin Waiting
                 /\ state'[p] = IF kind = "NvmeRead" THEN "NvmeReadQueued" ELSE "UploadQueued"
    PROVE  FreshTickets' /\ IssuedTickets' /\ LiveTicketMatchesRecord'
  <1>0. nextTicket \in TicketId
    BY NewTicketType DEF CoreInv
  <1>1. PICK n \in TicketId : n = nextTicket /\ nextTicket' = n + 1
    BY <1>0 DEF NewTicket
  <1>2. /\ tickets'[n] = [page |-> p, gen |-> gen[p], kind |-> kind, status |-> "Queued",
                          issued |-> ok]
        /\ \A u \in TicketId : u # n => tickets'[u] = tickets[u]
    BY <1>1 DEF NewTicket, CoreInv, TypeOK
  <1>3. FreshTickets'
    BY <1>1, <1>2 DEF CoreInv, FreshTickets, TicketId
  <1>4. IssuedTickets'
    <2>1. gen[p] <= gen[p]
      BY DEF CoreInv, TypeOK, Generation
    <2> QED
      BY <1>2, <2>1 DEF CoreInv, IssuedTickets
  <1>5. ASSUME NEW u \in TicketId, u # n, Live(u)'
        PROVE  /\ Live(u) /\ tickets'[u] = tickets[u] /\ tickets[u].page \in Pages
               /\ state'[tickets[u].page] = state[tickets[u].page]
               /\ ok => tickets[u].page # p
    <2>1. Live(u) /\ tickets'[u] = tickets[u]
      BY <1>2, <1>5 DEF Live
    <2> QED
      BY <2>1, LiveTicket
  <1>6. ASSUME NEW u \in TicketId, Live(u)'
        PROVE  Awaited(tickets'[u], state'[tickets'[u].page])
    <2>1. CASE u = n
      <3>1. ok
        BY <1>2, <1>6, <2>1 DEF Live
      <3> QED
        BY <1>2, <2>1, <3>1 DEF Awaited, TransferKind
    <2>2. CASE u # n
      BY <1>5, <1>6, <2>2, LiveTicket
    <2> QED
      BY <2>1, <2>2
  <1>7. ASSUME NEW u \in TicketId, NEW v \in TicketId, Live(u)', Live(v)',
               tickets'[v].page = tickets'[u].page
        PROVE  v = u
    <2>1. Live(n)' => ok /\ tickets'[n].page = p
      BY <1>2 DEF Live
    <2>2. CASE u # n /\ v # n
      BY <1>5, <1>7, <2>2, LiveTicket
    <2> QED
      BY <1>5, <1>7, <2>1, <2>2
  <1>8. LiveTicketMatchesRecord'
    BY <1>6, <1>7 DEF LiveTicketMatchesRecord, Live, Awaited
  <1> QED
    BY <1>3, <1>4, <1>8

\* register, publish_ram_pageable, promote_pageable_to_pinned: RAM only, at the page's
\* generation, and a record that was at rest.
LEMMA CoreRam ==
    ASSUME CoreInv, NEW p \in Pages,
           Register(p) \/ PublishRamPageable(p) \/ PromotePageableToPinned(p)
    PROVE  CoreInv'
  <1>0. TypeOK'
    BY RegisterType, PublishType, PromoteType DEF CoreInv
  <1>1. UNCHANGED <<slots, gen, leases, held, tickets, nextTicket, vram>>
    BY DEF Register, PublishRamPageable, PromotePageableToPinned, transfer, compute
  <1>2. \A q \in Pages : \/ state'[q] = state[q]
                         \/ /\ state[q] \in {"Unregistered", "Indexed"}
                            /\ state'[q] \in {"Indexed", "RamReady"}
    BY DEF Register, PublishRamPageable, PromotePageableToPinned, Registered, CoreInv, TypeOK
  <1>3. SlotsOwned' /\ OneSlotPerPage' /\ LeasesKept'
    BY <1>1, <1>2, SlotsFrame
  <1>4. FreshTickets' /\ IssuedTickets' /\ LiveTicketMatchesRecord'
    BY <1>1, <1>2, TicketsFrame DEF Waiting
  <1>5. CopiesCurrent'
    <2>1. \A q \in Pages : pageable'[q] \in {gen[q], NoGen} /\ pinned'[q] \in {gen[q], NoGen}
      BY DEF Register, PublishRamPageable, PromotePageableToPinned, CoreInv, CopiesCurrent, TypeOK
    <2> QED
      BY <1>1, <1>2, <2>1 DEF CoreInv, CopiesCurrent, HasVram
  <1> QED
    BY <1>0, <1>3, <1>4, <1>5 DEF CoreInv

\* A RAM eviction leaves the record Evicting where VRAM has the page.
LEMMA CoreEvictRam ==
    ASSUME CoreInv, NEW p \in Pages, EvictPageableRam(p) \/ EvictRam(p)
    PROVE  CoreInv'
  <1>0. TypeOK'
    BY EvictPageableType, EvictRamType DEF CoreInv
  <1>1. /\ UNCHANGED <<slots, gen, leases, held, tickets, nextTicket, vram>>
        /\ state[p] \in {"RamReady", "ComputeReady"}
        /\ state' = [state EXCEPT ![p] = After("Evicting", AfterRamEviction(p))]
    BY DEF EvictPageableRam, EvictRam, RamEvictable, transfer, compute
  <1>2. \A q \in Pages : state'[q] = state[q] \/ state[q] \in {"RamReady", "ComputeReady"}
    BY <1>1 DEF CoreInv, TypeOK
  <1>3. SlotsOwned' /\ OneSlotPerPage' /\ LeasesKept'
    BY <1>1, <1>2, SlotsFrame
  <1>4. FreshTickets' /\ IssuedTickets' /\ LiveTicketMatchesRecord'
    BY <1>1, <1>2, TicketsFrame DEF Waiting
  <1>5. CopiesCurrent'
    <2>1. \A q \in Pages : pageable'[q] \in {gen[q], NoGen} /\ pinned'[q] \in {gen[q], NoGen}
      BY DEF EvictPageableRam, EvictRam, CoreInv, CopiesCurrent, TypeOK
    <2>2. After("Evicting", AfterRamEviction(p)) = IF HasVram(p) THEN "Evicting" ELSE "Indexed"
      BY DEF AfterRamEviction, After, LegalTransition, Successors
    <2>3. \A q \in Pages : state'[q] = IF q # p THEN state[q]
                                       ELSE IF HasVram(p) THEN "Evicting" ELSE "Indexed"
      BY <1>1, <2>2 DEF CoreInv, TypeOK
    <2> QED
      BY <1>1, <2>1, <2>3 DEF CoreInv, CopiesCurrent, HasVram
  <1> QED
    BY <1>0, <1>3, <1>4, <1>5 DEF CoreInv

LEMMA CoreQueueNvme == ASSUME CoreInv, NEW p \in Pages, QueueNvmeRead(p) PROVE CoreInv'
  <1>0. TypeOK'
    BY QueueNvmeType DEF CoreInv
  <1> DEFINE ok == Legal(p, "NvmeReadQueued")
  <1>1. /\ UNCHANGED <<slots, gen, leases, held, vram, pageable, pinned>>
        /\ NewTicket(p, "NvmeRead", ok) /\ ok \in BOOLEAN
    BY DEF QueueNvmeRead, compute, Legal, LegalTransition
  <1>2. /\ \A q \in Pages : q # p => state'[q] = state[q]
        /\ IF ok THEN state[p] \in {"Indexed", "Evicted"} /\ state'[p] = "NvmeReadQueued"
           ELSE state'[p] = state[p]
    BY DEF QueueNvmeRead, Goto, Legal, After, LegalTransition, Successors, CoreInv, TypeOK
  <1>3. SlotsOwned' /\ OneSlotPerPage' /\ LeasesKept'
    BY <1>1, <1>2, SlotsFrame
  <1>4. FreshTickets' /\ IssuedTickets' /\ LiveTicketMatchesRecord'
    BY <1>1, <1>2, TicketMade DEF Waiting, TransferKind
  <1>5. CopiesCurrent'
    BY <1>1, <1>2 DEF CoreInv, CopiesCurrent, HasVram
  <1> QED
    BY <1>0, <1>3, <1>4, <1>5 DEF CoreInv

\* start_nvme_read and start_upload, with a ticket of either kind.
LEMMA CoreStart ==
    ASSUME CoreInv, NEW t \in TicketId, StartNvmeRead(t) \/ StartUpload(t)
    PROVE  CoreInv'
  <1> DEFINE p == tickets[t].page
  <1>a. tickets[t].issued /\ p \in Pages
    BY DEF StartNvmeRead, StartUpload, Known, CoreInv, IssuedTickets
  <1>0. TypeOK'
    BY <1>a, StartNvmeType, StartUploadType DEF CoreInv
  <1>1. /\ UNCHANGED <<slots, gen, leases, held, vram, pageable, pinned, nextTicket>>
        /\ Mark(t, "Running") /\ tickets[t].status = "Queued"
        /\ \/ Goto(p, "VramUploading")
           \/ Goto(p, "NvmeReading") /\ Current(t)
    <2>1. CASE StartNvmeRead(t)
      BY <2>1 DEF StartNvmeRead, CanStart, compute
    <2>2. CASE StartUpload(t)
      BY <2>2 DEF StartUpload, CanStart, compute
    <2> QED
      BY <2>1, <2>2
  <1>2. \A q \in Pages : \/ state'[q] = state[q]
                         \/ /\ state[q] \in {"UploadQueued", "NvmeReadQueued"}
                            /\ state'[q] \in {"VramUploading", "NvmeReading"}
    BY <1>1 DEF Goto, After, LegalTransition, Successors, CoreInv, TypeOK
  <1>3. SlotsOwned' /\ OneSlotPerPage' /\ LeasesKept'
    BY <1>1, <1>2, SlotsFrame
  <1>4. FreshTickets' /\ IssuedTickets' /\ LiveTicketMatchesRecord'
    BY <1>a, <1>1, TicketStarts
  <1>5. CopiesCurrent'
    BY <1>1, <1>2 DEF CoreInv, CopiesCurrent, HasVram
  <1> QED
    BY <1>0, <1>3, <1>4, <1>5 DEF CoreInv

\* complete_nvme_read refused, and cancel_ticket: the record stays where it is.
LEMMA CoreRefuse ==
    ASSUME CoreInv, NEW t \in TicketId, RefuseNvmeRead(t) \/ CancelTicket(t)
    PROVE  CoreInv'
  <1>0. TypeOK'
    BY RefuseType, CancelType DEF CoreInv
  <1>1. /\ UNCHANGED <<slots, gen, leases, held, vram, pageable, pinned, nextTicket, state>>
        /\ Mark(t, "Failed") \/ Mark(t, "Cancelled")
    BY DEF RefuseNvmeRead, CancelTicket, Known, record, compute
  <1>a. tickets[t].issued
    BY DEF RefuseNvmeRead, CancelTicket, Known
  <1>3. SlotsOwned' /\ OneSlotPerPage' /\ LeasesKept'
    BY <1>1, SlotsFrame
  <1>4. FreshTickets' /\ IssuedTickets' /\ LiveTicketMatchesRecord'
    BY <1>a, <1>1, TicketEnds
  <1>5. CopiesCurrent'
    BY <1>1 DEF CoreInv, CopiesCurrent, HasVram
  <1> QED
    BY <1>0, <1>3, <1>4, <1>5 DEF CoreInv

\* complete_nvme_read, with a ticket of either kind: only a record NvmeReading, whose
\* ticket it is, goes to RamReady.
LEMMA CoreCompleteNvme ==
    ASSUME CoreInv, NEW t \in TicketId, CompleteNvmeRead(t)
    PROVE  CoreInv'
  <1> DEFINE p == tickets[t].page
  <1>a. tickets[t].issued /\ p \in Pages
    BY DEF CompleteNvmeRead, Known, CoreInv, IssuedTickets
  <1>0. TypeOK'
    BY <1>a, CompleteNvmeType DEF CoreInv
  <1>1. /\ UNCHANGED <<slots, gen, leases, held, vram, pageable, nextTicket>>
        /\ Mark(t, "Completed") /\ tickets[t].status = "Running"
        /\ pinned' = IF Current(t) THEN [pinned EXCEPT ![p] = gen[p]] ELSE pinned
        /\ \/ state' = state
           \/ /\ state' = [state EXCEPT ![p] = "RamReady"] /\ Current(t)
              /\ Legal(p, "RamReady")
    BY DEF CompleteNvmeRead, CanFirstByte, compute, Current
  <1>b. Current(t) => Live(t)
    BY <1>a, <1>1 DEF Live, InFlight, Current
  <1>2. \A q \in Pages : \/ state'[q] = state[q]
                         \/ /\ q = p /\ Live(t) /\ state[q] # "InUse"
                            /\ state'[q] = "RamReady"
    <2>1. Live(t) => state[p] # "InUse"
      BY LiveTicket DEF Waiting
    <2> QED
      BY <1>a, <1>1, <1>b, <2>1 DEF CoreInv, TypeOK
  <1>3. SlotsOwned' /\ OneSlotPerPage' /\ LeasesKept'
    BY <1>1, <1>2, SlotsFrame
  <1>4. FreshTickets' /\ IssuedTickets' /\ LiveTicketMatchesRecord'
    BY <1>a, <1>1, <1>2, TicketEnds
  <1>5. CopiesCurrent'
    <2>1. \A q \in Pages : pinned'[q] \in {gen[q], NoGen}
      BY <1>1 DEF CoreInv, CopiesCurrent, TypeOK
    <2> QED
      BY <1>1, <1>2, <2>1 DEF CoreInv, CopiesCurrent, HasVram
  <1> QED
    BY <1>0, <1>3, <1>4, <1>5 DEF CoreInv

\* reserve_vram: the slot taken was blank, and its page had none.
LEMMA CoreReserve == ASSUME CoreInv, NEW p \in Pages, ReserveVram(p) PROVE CoreInv'
  <1>0. TypeOK'
    BY ReserveType DEF CoreInv
  <1>1. /\ state[p] = "RamReady" /\ state' = [state EXCEPT ![p] = "VramReserved"]
        /\ UNCHANGED <<gen, leases, held, vram, pageable, pinned, tickets, nextTicket>>
    BY DEF ReserveVram, transfer, compute
  <1>2. \A q \in Pages : \/ state'[q] = state[q]
                         \/ state[q] = "RamReady" /\ state'[q] = "VramReserved"
    BY <1>1 DEF CoreInv, TypeOK
  <1>3. FreshTickets' /\ IssuedTickets' /\ LiveTicketMatchesRecord'
    BY <1>1, <1>2, TicketsFrame DEF Waiting
  <1>4. CopiesCurrent'
    BY <1>1, <1>2 DEF CoreInv, CopiesCurrent, HasVram
  <1>5. SlotsOwned' /\ OneSlotPerPage' /\ LeasesKept'
    <2>1. CASE slots' = slots
      BY <1>1, <1>2, <2>1, SlotsFrame
    <2>2. CASE slots' # slots
      <3>1. PICK s \in Slots :
              /\ slots[s].state = "Free"
              /\ slots' = [slots EXCEPT ![s] = [FreeSlot EXCEPT
                             !.state = "Reserved", !.page = p, !.gen = gen[p]]]
              /\ \A r \in Slots : ~SlotOf(p, r)
        BY <2>2 DEF ReserveVram, FirstFree
      <3>2. \A r \in Slots : slots[r].page # p
        BY <3>1, OwnedSlot DEF SlotOf
      <3>3. slots[s] = FreeSlot
        BY <3>1 DEF CoreInv, SlotsOwned
      <3>4. /\ slots'[s].state = "Reserved" /\ slots'[s].page = p
            /\ slots'[s].gen = gen[p] /\ slots'[s].users = 0
            /\ \A r \in Slots : r # s => slots'[r] = slots[r]
        BY <3>1 DEF CoreInv, TypeOK, FreeSlot
      <3>5. SlotsOwned'
        BY <1>1, <3>4 DEF CoreInv, SlotsOwned
      <3>6. OneSlotPerPage'
        BY <3>2, <3>4 DEF CoreInv, OneSlotPerPage
      <3>7. LeasesKept'
        <4>1. \A q \in Pages : \A l \in leases[q] : slots'[l.slot] = slots[l.slot]
          BY <3>1, <3>4, OwnLease
        <4>2. \A l \in held : l \in leases[l.page] /\ state'[l.page] = "InUse"
          BY <1>2, HeldLease
        <4> QED
          BY <1>1, <4>1, <4>2 DEF CoreInv, LeasesKept
      <3> QED
        BY <3>5, <3>6, <3>7
    <2> QED
      BY <2>1, <2>2
  <1> QED
    BY <1>0, <1>3, <1>4, <1>5 DEF CoreInv

\* A slot that is not InUse before a call nor after it, and keeps its page.
LEMMA SlotMoves ==
    ASSUME CoreInv, NEW s \in Slots, NEW st \in {"Uploading", "Uploaded", "ComputeReady"},
           slots[s].state \in {"Reserved", "Uploading", "Uploaded"},
           slots'[s].state = st, slots'[s].page = slots[s].page,
           slots'[s].gen = slots[s].gen, slots'[s].users = slots[s].users,
           \A r \in Slots : r # s => slots'[r] = slots[r],
           UNCHANGED <<gen, leases, held>>,
           \A l \in held : state'[l.page] = state[l.page]
    PROVE  SlotsOwned' /\ OneSlotPerPage' /\ LeasesKept'
  <1>1. /\ slots[s].page \in Pages /\ slots[s].gen = gen[slots[s].page]
        /\ slots[s].users = 0
    BY DEF CoreInv, SlotsOwned, FreeSlot
  <1>2. SlotsOwned'
    BY <1>1 DEF CoreInv, SlotsOwned
  <1>3. OneSlotPerPage'
    BY DEF CoreInv, OneSlotPerPage
  <1>4. LeasesKept'
    <2>1. \A q \in Pages : \A l \in leases[q] : slots'[l.slot] = slots[l.slot]
      BY OwnLease
    <2>2. \A l \in held : l \in leases[l.page] /\ state'[l.page] = "InUse"
      BY HeldLease
    <2> QED
      BY <2>1, <2>2 DEF CoreInv, LeasesKept
  <1> QED
    BY <1>2, <1>3, <1>4

\* queue_upload: the slot it takes may be another page's.
LEMMA CoreQueueUpload ==
    ASSUME CoreInv, NEW p \in Pages, NEW s \in Slots, QueueUpload(p, s) PROVE CoreInv'
  <1>0. TypeOK'
    BY QueueUploadType DEF CoreInv
  <1> DEFINE reserved == slots[s].state = "Reserved"
             ok == reserved /\ Legal(p, "UploadQueued")
  <1>1. /\ UNCHANGED <<gen, leases, held, vram, pageable, pinned>>
        /\ NewTicket(p, "RamToVram", ok) /\ ok \in BOOLEAN
    BY DEF QueueUpload, compute, Legal, LegalTransition
  <1>2. /\ \A q \in Pages : q # p => state'[q] = state[q]
        /\ IF ok THEN state[p] \in {"RamReady", "VramReserved"} /\ state'[p] = "UploadQueued"
           ELSE state'[p] = state[p]
    <2>1. state' = IF ok THEN [state EXCEPT ![p] = "UploadQueued"] ELSE state
      BY DEF QueueUpload
    <2>2. ok => state[p] \in {"RamReady", "VramReserved"}
      BY DEF Legal, LegalTransition, Successors
    <2> QED
      BY <2>1, <2>2 DEF CoreInv, TypeOK
  <1>3. FreshTickets' /\ IssuedTickets' /\ LiveTicketMatchesRecord'
    BY <1>1, <1>2, TicketMade DEF Waiting, TransferKind
  <1>4. CopiesCurrent'
    BY <1>1, <1>2 DEF CoreInv, CopiesCurrent, HasVram
  <1>5. SlotsOwned' /\ OneSlotPerPage' /\ LeasesKept'
    <2>1. CASE ~reserved
      <3>1. slots' = slots
        BY <2>1 DEF QueueUpload
      <3> QED
        BY <1>1, <1>2, <3>1, SlotsFrame
    <2>2. CASE reserved
      <3>1. slots' = [slots EXCEPT ![s].state = "Uploading", ![s].ticket = nextTicket]
        BY <2>2 DEF QueueUpload
      <3>2. /\ slots'[s].state = "Uploading" /\ slots'[s].page = slots[s].page
            /\ slots'[s].gen = slots[s].gen /\ slots'[s].users = slots[s].users
            /\ \A r \in Slots : r # s => slots'[r] = slots[r]
        BY <3>1 DEF CoreInv, TypeOK, VramSlot
      <3>3. \A l \in held : state'[l.page] = state[l.page]
        BY <1>2, HeldLease
      <3> QED
        BY <1>1, <2>2, <3>2, <3>3, SlotMoves
    <2> QED
      BY <2>1, <2>2
  <1> QED
    BY <1>0, <1>3, <1>4, <1>5 DEF CoreInv

\* complete_upload, with the ticket the slot took: only a record VramUploading goes to
\* Uploaded, with a replica somewhere.
LEMMA CoreCompleteUpload ==
    ASSUME CoreInv, NEW t \in TicketId, NEW s \in Slots, CompleteUpload(t, s)
    PROVE  CoreInv'
  <1> DEFINE p == tickets[t].page
  <1>a. tickets[t].issued /\ p \in Pages /\ tickets[t].gen = gen[p]
    BY DEF CompleteUpload, Known, Current, CoreInv, IssuedTickets
  <1>0. TypeOK'
    BY <1>a, CompleteUploadType DEF CoreInv
  <1>1. /\ UNCHANGED <<gen, leases, held, pageable, pinned, nextTicket>>
        /\ slots[s].state = "Uploading"
        /\ slots' = [slots EXCEPT ![s].state = "Uploaded"]
        /\ \/ UNCHANGED <<tickets, state, vram>>
           \/ /\ Mark(t, "Completed") /\ tickets[t].status = "Running"
              /\ vram' = [vram EXCEPT ![p][s] = gen[p]]
              /\ \/ state' = state
                 \/ state' = [state EXCEPT ![p] = "Uploaded"]
    BY <1>a DEF CompleteUpload, CanFirstByte, Mark, compute
  <1>2. \A q \in Pages : \/ state'[q] = state[q]
                         \/ /\ q = p /\ Live(t) /\ state[q] # "InUse"
                            /\ state'[q] = "Uploaded" /\ vram'[q][s] = gen[q]
    <2>1. CASE state' = state
      BY <2>1
    <2>2. CASE state' # state
      <3>1. Live(t)
        BY <1>a, <1>1, <2>2 DEF Live, InFlight
      <3>2. state[p] # "InUse"
        BY <3>1, LiveTicket DEF Waiting
      <3>3. /\ state' = [state EXCEPT ![p] = "Uploaded"]
            /\ vram' = [vram EXCEPT ![p][s] = gen[p]]
        BY <1>1, <2>2
      <3> QED
        BY <1>a, <3>1, <3>2, <3>3 DEF CoreInv, TypeOK
    <2> QED
      BY <2>1, <2>2
  <1>3. FreshTickets' /\ IssuedTickets' /\ LiveTicketMatchesRecord'
    <2>1. CASE UNCHANGED <<tickets, state>>
      BY <1>1, <2>1, TicketsFrame
    <2>2. CASE Mark(t, "Completed")
      BY <1>a, <1>1, <1>2, <2>2, TicketEnds
    <2> QED
      BY <1>1, <2>1, <2>2
  <1>4. CopiesCurrent'
    <2>1. \A q \in Pages, r \in Slots : vram'[q][r] = vram[q][r] \/ vram'[q][r] = gen[q]
      <3>1. CASE vram' = vram
        BY <3>1
      <3>2. CASE vram' = [vram EXCEPT ![p][s] = gen[p]]
        <4>1. PICK o \in Pages : o = p
          BY <1>a
        <4>2. vram' = [vram EXCEPT ![o] = [vram[o] EXCEPT ![s] = gen[o]]]
          BY <3>2, <4>1
        <4> QED
          BY <4>2 DEF CoreInv, TypeOK
      <3> QED
        BY <1>1, <3>1, <3>2
    <2>2. \A q \in Pages : HasVram(q) => \E r \in Slots : Has(vram'[q][r])
      BY <2>1 DEF HasVram, Has, CoreInv, TypeOK, Generation, NoGen
    <2>3. \A q \in Pages : state'[q] # state[q] => Has(vram'[q][s])
      BY <1>2 DEF Has, CoreInv, TypeOK, Generation, NoGen
    <2>4. \A q \in Pages : state'[q] \in {"Uploaded", "ComputeReady", "InUse", "Evicting"}
             => \E r \in Slots : Has(vram'[q][r])
      BY <2>2, <2>3 DEF CoreInv, CopiesCurrent
    <2> QED
      BY <1>1, <2>1, <2>4 DEF CoreInv, CopiesCurrent, HasVram
  <1>5. SlotsOwned' /\ OneSlotPerPage' /\ LeasesKept'
    <2>1. /\ slots'[s].state = "Uploaded" /\ slots'[s].page = slots[s].page
          /\ slots'[s].gen = slots[s].gen /\ slots'[s].users = slots[s].users
          /\ \A r \in Slots : r # s => slots'[r] = slots[r]
      BY <1>1 DEF CoreInv, TypeOK, VramSlot
    <2>2. \A l \in held : state'[l.page] = state[l.page]
      BY <1>2, HeldLease
    <2> QED
      BY <1>1, <2>1, <2>2, SlotMoves
  <1> QED
    BY <1>0, <1>3, <1>4, <1>5 DEF CoreInv

\* mark_compute_ready: the page's own slot is Uploaded, so nobody computes on it.
LEMMA CoreMarkReady ==
    ASSUME CoreInv, NEW p \in Pages, NEW s \in Slots, MarkComputeReady(p, s) PROVE CoreInv'
  <1>0. TypeOK'
    BY MarkReadyType DEF CoreInv
  <1>1. /\ UNCHANGED <<gen, leases, held, vram, pageable, pinned, tickets, nextTicket>>
        /\ slots[s].state = "Uploaded" /\ slots[s].page = p
        /\ slots' = [slots EXCEPT ![s].state = "ComputeReady"]
        /\ Goto(p, "ComputeReady")
    BY DEF MarkComputeReady, Identifies, transfer, compute
  <1>2. /\ \A q \in Pages : q # p => state'[q] = state[q]
        /\ \/ state'[p] = state[p]
           \/ state[p] \in {"Uploaded", "InUse"} /\ state'[p] = "ComputeReady"
    BY <1>1 DEF Goto, After, LegalTransition, Successors, CoreInv, TypeOK
  <1>3. FreshTickets' /\ IssuedTickets' /\ LiveTicketMatchesRecord'
    BY <1>1, <1>2, TicketsFrame DEF Waiting
  <1>4. CopiesCurrent'
    BY <1>1, <1>2 DEF CoreInv, CopiesCurrent, HasVram
  <1>5. SlotsOwned' /\ OneSlotPerPage' /\ LeasesKept'
    <2>1. /\ slots'[s].state = "ComputeReady" /\ slots'[s].page = slots[s].page
          /\ slots'[s].gen = slots[s].gen /\ slots'[s].users = slots[s].users
          /\ \A r \in Slots : r # s => slots'[r] = slots[r]
      BY <1>1 DEF CoreInv, TypeOK, VramSlot
    <2>2. \A l \in held : l.page # p
      BY <1>1, HeldLease, OwnedSlot
    <2>3. \A l \in held : state'[l.page] = state[l.page]
      BY <1>2, <2>2, HeldLease
    <2> QED
      BY <1>1, <2>1, <2>3, SlotMoves
  <1> QED
    BY <1>0, <1>3, <1>4, <1>5 DEF CoreInv

\* acquire_compute: no lease names a slot that is ComputeReady.
LEMMA CoreAcquire ==
    ASSUME CoreInv, NEW p \in Pages, NEW s \in Slots, AcquireCompute(p, s) PROVE CoreInv'
  <1>0. TypeOK'
    BY AcquireType DEF CoreInv
  <1> DEFINE lease == [id |-> nextLease, page |-> p, slot |-> s, gen |-> gen[p]]
             ok == Legal(p, "InUse")
  <1>1. /\ UNCHANGED <<gen, vram, pageable, pinned, tickets, nextTicket>>
        /\ slots[s].state = "ComputeReady" /\ slots[s].page = p
        /\ slots' = [slots EXCEPT ![s].state = "InUse", ![s].users = @ + 1]
        /\ leases' = [leases EXCEPT ![p] = @ \cup {lease}]
        /\ held' = IF ok THEN held \cup {lease} ELSE held
        /\ Goto(p, "InUse")
    BY DEF AcquireCompute, Identifies, transfer
  <1>2. /\ \A q \in Pages : q # p => state'[q] = state[q]
        /\ IF ok THEN state[p] = "ComputeReady" /\ state'[p] = "InUse"
           ELSE state'[p] = state[p]
    BY <1>1 DEF Goto, Legal, After, LegalTransition, Successors, CoreInv, TypeOK
  <1>3. FreshTickets' /\ IssuedTickets' /\ LiveTicketMatchesRecord'
    BY <1>1, <1>2, TicketsFrame DEF Waiting
  <1>4. CopiesCurrent'
    BY <1>1, <1>2 DEF CoreInv, CopiesCurrent, HasVram
  <1>5. leases[p] = {} /\ \A l \in held : l.page # p
    BY <1>1, OwnLease, HeldLease, OwnedSlot
  <1>6. /\ slots'[s].state = "InUse" /\ slots'[s].page = p
        /\ slots'[s].gen = gen[p] /\ slots'[s].users = 1
        /\ \A r \in Slots : r # s => slots'[r] = slots[r]
    BY <1>1, OwnedSlot DEF CoreInv, TypeOK, VramSlot
  <1>7. leases'[p] = {lease} /\ \A q \in Pages : q # p => leases'[q] = leases[q]
    BY <1>1, <1>5 DEF CoreInv, TypeOK
  <1> HIDE DEF lease, ok
  <1>8. SlotsOwned'
    <2>1. ASSUME NEW r \in Slots, r # s, slots'[r] # FreeSlot
          PROVE  /\ slots'[r].page \in Pages /\ slots'[r].gen = gen'[slots'[r].page]
                 /\ slots'[r].state # "Free"
                 /\ slots'[r].users = IF slots'[r].state = "InUse" THEN 1 ELSE 0
                 /\ slots'[r].state = "InUse" => leases'[slots'[r].page] # {}
      <3>1. slots'[r] = slots[r] /\ gen' = gen
        BY <1>1, <1>6, <2>1
      <3>2. \A q \in Pages : leases[q] # {} => leases'[q] # {}
        BY <1>7
      <3> QED
        BY <2>1, <3>1, <3>2 DEF CoreInv, SlotsOwned
    <2>2. leases'[p] # {} /\ gen'[p] = gen[p]
      BY <1>1, <1>7
    <2> QED
      BY <1>6, <2>1, <2>2 DEF SlotsOwned
  <1>9. OneSlotPerPage'
    <2>1. \A r \in Slots : slots'[r].page = slots[r].page
      BY <1>1, <1>6
    <2> QED
      BY <2>1 DEF CoreInv, OneSlotPerPage
  <1>10. LeasesKept'
    <2>1. ASSUME NEW q \in Pages, NEW l \in leases'[q]
          PROVE  /\ l.page = q /\ l.gen = gen[q]
                 /\ slots'[l.slot].page = q /\ slots'[l.slot].state = "InUse"
                 /\ \A m \in leases'[q] : l = m
      <3>1. CASE q = p
        <4>1. l = lease /\ leases'[q] = {lease}
          BY <1>7, <2>1, <3>1
        <4>2. lease.page = p /\ lease.gen = gen[p] /\ lease.slot = s
          BY DEF lease
        <4> QED
          BY <1>6, <3>1, <4>1, <4>2
      <3>2. CASE q # p
        <4>1. l \in leases[q] /\ leases'[q] = leases[q]
          BY <1>7, <2>1, <3>2
        <4>2. /\ l.page = q /\ l.gen = gen[q] /\ l.slot \in Slots
              /\ slots[l.slot].page = q /\ slots[l.slot].state = "InUse"
              /\ \A m \in leases[q] : l = m
          BY <4>1, OwnLease
        <4>3. slots'[l.slot] = slots[l.slot]
          BY <1>1, <1>6, <3>2, <4>2
        <4> QED
          BY <4>1, <4>2, <4>3
      <3> QED
        BY <3>1, <3>2
    <2>2. ASSUME NEW l \in held'
          PROVE  l \in leases'[l.page] /\ state'[l.page] = "InUse"
      <3>1. CASE l \in held
        BY <1>2, <1>5, <1>7, <3>1, HeldLease
      <3>2. CASE l \notin held
        <4>1. l = lease /\ ok
          BY <1>1, <2>2, <3>2
        <4>2. lease.page = p
          BY DEF lease
        <4> QED
          BY <1>2, <1>7, <4>1, <4>2
      <3> QED
        BY <3>1, <3>2
    <2>3. gen' = gen
      BY <1>1
    <2> QED
      BY <2>1, <2>2, <2>3 DEF LeasesKept
  <1> QED
    BY <1>0, <1>3, <1>4, <1>8, <1>9, <1>10 DEF CoreInv

\* release_compute: the only lease of the page goes, and with it the slot's user.
LEMMA CoreRelease ==
    ASSUME CoreInv, NEW lease \in held, ReleaseCompute(lease) PROVE CoreInv'
  <1>0. TypeOK'
    BY ReleaseType DEF CoreInv
  <1>a. PICK p \in Pages : p = lease.page
    BY HeldLease
  <1>b. PICK s \in Slots : s = lease.slot
    BY HeldLease
  <1>c. /\ slots[s].page = p /\ slots[s].state = "InUse" /\ slots[s].users = 1
        /\ state[p] = "InUse" /\ lease \in leases[p]
    BY <1>a, <1>b, HeldLease, OwnedSlot
  <1>1. /\ UNCHANGED <<gen, vram, pageable, pinned, tickets, nextTicket>>
        /\ slots' = [slots EXCEPT ![s].users = @ - 1, ![s].state = "ComputeReady"]
        /\ leases' = [leases EXCEPT ![p] = {l \in @ : l.id # lease.id}]
        /\ held' = held \ {lease}
        /\ Goto(p, "ComputeReady")
    BY <1>a, <1>b, <1>c DEF ReleaseCompute, transfer
  <1>2. /\ \A q \in Pages : q # p => state'[q] = state[q]
        /\ state'[p] = "ComputeReady"
    BY <1>1, <1>c DEF Goto, After, LegalTransition, Successors, CoreInv, TypeOK
  <1>3. FreshTickets' /\ IssuedTickets' /\ LiveTicketMatchesRecord'
    BY <1>1, <1>2, <1>c, TicketsFrame DEF Waiting
  <1>4. CopiesCurrent'
    BY <1>1, <1>2, <1>c DEF CoreInv, CopiesCurrent, HasVram
  <1>5. leases'[p] = {} /\ \A q \in Pages : q # p => leases'[q] = leases[q]
    <2>1. \A l \in leases[p] : l = lease
      BY <1>c, OwnLease
    <2> QED
      BY <1>1, <2>1 DEF CoreInv, TypeOK
  <1>6. /\ slots'[s].state = "ComputeReady" /\ slots'[s].page = p
        /\ slots'[s].gen = gen[p] /\ slots'[s].users = 0
        /\ \A r \in Slots : r # s => slots'[r] = slots[r] /\ slots[r].page # p
    BY <1>1, <1>c, OwnedSlot DEF CoreInv, TypeOK, VramSlot
  <1>7. gen' = gen /\ p # NoPage
    BY <1>1, PagesAssumption
  <1>8. SlotsOwned'
    <2>1. ASSUME NEW r \in Slots, r # s, slots'[r] # FreeSlot
          PROVE  /\ slots'[r].page \in Pages /\ slots'[r].gen = gen[slots'[r].page]
                 /\ slots'[r].state # "Free"
                 /\ slots'[r].users = IF slots'[r].state = "InUse" THEN 1 ELSE 0
                 /\ slots'[r].state = "InUse" => leases'[slots'[r].page] # {}
      <3>1. slots'[r] = slots[r] /\ slots[r].page # p
        BY <1>6, <2>1
      <3> QED
        BY <1>5, <2>1, <3>1 DEF CoreInv, SlotsOwned
    <2> QED
      BY <1>6, <1>7, <2>1 DEF SlotsOwned
  <1>9. OneSlotPerPage'
    <2>1. ASSUME NEW q \in Slots, NEW r \in Slots, q # r, slots'[q].page = slots'[r].page
          PROVE  slots'[r].page = NoPage
      <3>1. q # s /\ r # s
        BY <1>6, <2>1
      <3> QED
        BY <1>6, <2>1, <3>1 DEF CoreInv, OneSlotPerPage
    <2> QED
      BY <2>1 DEF OneSlotPerPage
  <1>10. LeasesKept'
    <2>1. ASSUME NEW q \in Pages, NEW l \in leases'[q]
          PROVE  /\ l.page = q /\ l.gen = gen[q]
                 /\ slots'[l.slot].page = q /\ slots'[l.slot].state = "InUse"
                 /\ \A m \in leases'[q] : l = m
      <3>1. q # p /\ l \in leases[q] /\ leases'[q] = leases[q]
        BY <1>5, <2>1
      <3>2. /\ l.page = q /\ l.gen = gen[q] /\ l.slot \in Slots
            /\ slots[l.slot].page = q /\ slots[l.slot].state = "InUse"
            /\ \A m \in leases[q] : l = m
        BY <3>1, OwnLease
      <3>3. slots'[l.slot] = slots[l.slot]
        BY <1>c, <1>6, <3>1, <3>2
      <3> QED
        BY <3>1, <3>2, <3>3
    <2>2. \A l \in held' : l \in leases'[l.page] /\ state'[l.page] = "InUse"
      <3>1. ASSUME NEW l \in held, l # lease PROVE l.page # p
        <4>1. l \in leases[l.page] /\ \A m \in leases[p] : lease = m
          BY <1>c, HeldLease, OwnLease
        <4> QED
          BY <3>1, <4>1
      <3>2. ASSUME NEW l \in held'
            PROVE  l \in leases'[l.page] /\ state'[l.page] = "InUse"
        <4>1. l \in held /\ l.page # p
          BY <1>1, <3>1, <3>2
        <4>2. l.page \in Pages /\ l \in leases[l.page] /\ state[l.page] = "InUse"
          BY <4>1, HeldLease
        <4> QED
          BY <1>2, <1>5, <4>1, <4>2
      <3> QED
        BY <3>2
    <2> QED
      BY <1>7, <2>1, <2>2 DEF LeasesKept
  <1> QED
    BY <1>0, <1>3, <1>4, <1>8, <1>9, <1>10 DEF CoreInv

\* Slots nobody computes on may be emptied.
LEMMA SlotsEmptied ==
    ASSUME CoreInv, NEW p \in Pages, UNCHANGED <<leases, held>>,
           \A s \in Slots : \/ slots'[s] = slots[s]
                            \/ /\ slots'[s] = FreeSlot
                               /\ slots[s].page = p /\ slots[s].state # "InUse",
           \A q \in Pages : q # p => gen'[q] = gen[q] /\ state'[q] = state[q],
           gen'[p] # gen[p] =>
               leases[p] = {} /\ \A s \in Slots : slots[s].page = p => slots'[s] = FreeSlot,
           state'[p] # state[p] => state[p] # "InUse"
    PROVE  SlotsOwned' /\ OneSlotPerPage' /\ LeasesKept'
  <1>1. SlotsOwned'
    <2>1. ASSUME NEW s \in Slots, slots'[s] # FreeSlot
          PROVE  /\ slots'[s].page \in Pages /\ slots'[s].gen = gen'[slots'[s].page]
                 /\ slots'[s].state # "Free"
                 /\ slots'[s].users = IF slots'[s].state = "InUse" THEN 1 ELSE 0
                 /\ slots'[s].state = "InUse" => leases'[slots'[s].page] # {}
      <3>1. slots'[s] = slots[s]
        BY <2>1
      <3>2. /\ slots[s].page \in Pages /\ slots[s].gen = gen[slots[s].page]
            /\ slots[s].state # "Free"
            /\ slots[s].users = IF slots[s].state = "InUse" THEN 1 ELSE 0
            /\ slots[s].state = "InUse" => leases[slots[s].page] # {}
        BY <2>1, <3>1 DEF CoreInv, SlotsOwned
      <3>3. gen'[slots[s].page] = gen[slots[s].page]
        BY <2>1, <3>1, <3>2
      <3> QED
        BY <3>1, <3>2, <3>3
    <2> QED
      BY <2>1 DEF SlotsOwned
  <1>2. OneSlotPerPage'
    <2>1. \A s \in Slots : slots'[s].page \in {slots[s].page, NoPage}
      BY DEF FreeSlot
    <2> QED
      BY <2>1 DEF CoreInv, OneSlotPerPage
  <1>3. LeasesKept'
    <2>1. ASSUME NEW q \in Pages, NEW l \in leases[q]
          PROVE  slots'[l.slot] = slots[l.slot] /\ gen'[q] = gen[q]
      BY <2>1, OwnLease
    <2>2. \A l \in held : l \in leases[l.page] /\ state'[l.page] = "InUse"
      BY HeldLease
    <2> QED
      BY <2>1, <2>2 DEF CoreInv, LeasesKept
  <1> QED
    BY <1>1, <1>2, <1>3

\* evict_vram empties the page's own slot and the replica there, or leaves both and
\* the record Evicting.
LEMMA CoreEvictVram ==
    ASSUME CoreInv, NEW p \in Pages, NEW s \in Slots, EvictVram(p, s) PROVE CoreInv'
  <1>0. TypeOK'
    BY EvictVramType DEF CoreInv
  <1> DEFINE evicts == Identifies(s, p) /\ Evictable(s)
  <1>1. /\ UNCHANGED <<gen, leases, held, pageable, pinned, tickets, nextTicket>>
        /\ Has(vram[p][s]) /\ state[p] \in {"ComputeReady", "Uploaded"}
        /\ state' = [state EXCEPT ![p] = IF evicts THEN "RamReady" ELSE "Evicting"]
        /\ slots' = IF evicts THEN [slots EXCEPT ![s] = FreeSlot] ELSE slots
        /\ vram' = IF evicts THEN [vram EXCEPT ![p][s] = NoGen] ELSE vram
    BY DEF EvictVram, transfer, compute
  <1>2. /\ \A q \in Pages : q # p => state'[q] = state[q] /\ vram'[q] = vram[q]
        /\ state'[p] = IF evicts THEN "RamReady" ELSE "Evicting"
        /\ \A r \in Slots : vram'[p][r] \in {vram[p][r], NoGen}
        /\ ~evicts => vram' = vram
    BY <1>1 DEF CoreInv, TypeOK
  <1>3. FreshTickets' /\ IssuedTickets' /\ LiveTicketMatchesRecord'
    BY <1>1, <1>2, TicketsFrame DEF Waiting
  <1>4. CopiesCurrent'
    <2>1. \A q \in Pages, r \in Slots : Has(vram'[q][r]) => vram'[q][r] = gen[q]
      BY <1>2 DEF CoreInv, CopiesCurrent, Has
    <2> QED
      BY <1>1, <1>2, <2>1 DEF CoreInv, CopiesCurrent, HasVram
  <1>5. SlotsOwned' /\ OneSlotPerPage' /\ LeasesKept'
    <2>1. CASE ~evicts
      BY <1>1, <1>2, <2>1, SlotsFrame
    <2>2. CASE evicts
      <3>1. \A r \in Slots : \/ slots'[r] = slots[r]
                             \/ /\ slots'[r] = FreeSlot
                                /\ slots[r].page = p /\ slots[r].state # "InUse"
        BY <1>1, <2>2 DEF CoreInv, TypeOK, Identifies, Evictable
      <3>2. /\ \A q \in Pages : q # p => gen'[q] = gen[q] /\ state'[q] = state[q]
            /\ gen'[p] = gen[p] /\ state[p] # "InUse"
            /\ UNCHANGED <<leases, held>>
        BY <1>1, <1>2
      <3> QED
        BY <3>1, <3>2, SlotsEmptied
    <2> QED
      BY <2>1, <2>2
  <1> QED
    BY <1>0, <1>3, <1>4, <1>5 DEF CoreInv

\* advance_generation: a page that moves on leaves no slot behind, and no ticket was
\* made for the generation it moves to.
LEMMA CoreAdvance ==
    ASSUME CoreInv, NEW p \in Pages, NEW g \in Generation, AdvanceGeneration(p, g)
    PROVE  CoreInv'
  <1>0. TypeOK'
    BY AdvanceType DEF CoreInv
  <1> DEFINE stale == {s \in Slots : slots[s].page = p /\ slots[s].gen = gen[p]}
             busy  == {s \in stale : ~Evictable(s)}
             freed == {s \in stale : \A b \in busy : s < b}
             ok    == busy = {}
  <1>1. /\ UNCHANGED <<leases, held, tickets, nextTicket>>
        /\ leases[p] = {} /\ state[p] # "InUse" /\ g > gen[p]
        /\ slots' = [s \in Slots |-> IF s \in freed THEN FreeSlot ELSE slots[s]]
        /\ gen' = IF ok THEN [gen EXCEPT ![p] = g] ELSE gen
        /\ state' = IF ok THEN [state EXCEPT ![p] = "Indexed"] ELSE state
        /\ pageable' = IF ok THEN [pageable EXCEPT ![p] = NoGen] ELSE pageable
        /\ pinned' = IF ok THEN [pinned EXCEPT ![p] = NoGen] ELSE pinned
        /\ vram' = IF ok THEN [vram EXCEPT ![p] = [s \in Slots |-> NoGen]] ELSE vram
    BY DEF AdvanceGeneration, transfer, compute
  <1>2. /\ freed \in SUBSET Slots
        /\ \A s \in freed : slots[s].page = p /\ slots[s].state # "InUse"
        /\ \A s \in Slots : slots'[s] = IF s \in freed THEN FreeSlot ELSE slots[s]
        /\ ok => \A s \in Slots : slots[s].page = p => s \in freed
    <2>1. \A s \in Slots : ~(s < s)
      BY DEF Slots
    <2>2. \A s \in freed : slots[s].page = p /\ Evictable(s)
      BY <2>1
    <2>3. ok => \A s \in Slots : slots[s].page = p => s \in freed
      BY OwnedSlot
    <2> QED
      BY <1>1, <2>2, <2>3 DEF Evictable
  <1> HIDE DEF freed, ok
  <1>3. /\ \A q \in Pages : q # p =>
              /\ gen'[q] = gen[q] /\ state'[q] = state[q] /\ pageable'[q] = pageable[q]
              /\ pinned'[q] = pinned[q] /\ vram'[q] = vram[q]
        /\ IF ok THEN /\ gen'[p] = g /\ state'[p] = "Indexed" /\ pageable'[p] = NoGen
                      /\ pinned'[p] = NoGen /\ \A s \in Slots : vram'[p][s] = NoGen
           ELSE UNCHANGED <<gen, state, pageable, pinned, vram>>
    BY <1>1 DEF CoreInv, TypeOK
  <1>4. SlotsOwned' /\ OneSlotPerPage' /\ LeasesKept'
    <2>1. \A s \in Slots : \/ slots'[s] = slots[s]
                           \/ /\ slots'[s] = FreeSlot
                              /\ slots[s].page = p /\ slots[s].state # "InUse"
      BY <1>2
    <2>2. /\ \A q \in Pages : q # p => gen'[q] = gen[q] /\ state'[q] = state[q]
          /\ state'[p] # state[p] => state[p] # "InUse"
          /\ UNCHANGED <<leases, held>>
      BY <1>1, <1>3
    <2>3. gen'[p] # gen[p] =>
             leases[p] = {} /\ \A s \in Slots : slots[s].page = p => slots'[s] = FreeSlot
      BY <1>1, <1>2, <1>3
    <2> QED
      BY <2>1, <2>2, <2>3, SlotsEmptied
  <1>5. CopiesCurrent'
    <2>1. CASE ok
      BY <1>3, <2>1 DEF CoreInv, CopiesCurrent, HasVram, Has
    <2>2. CASE ~ok
      BY <1>3, <2>2 DEF CoreInv, CopiesCurrent, HasVram
    <2> QED
      BY <2>1, <2>2
  <1>6. FreshTickets' /\ IssuedTickets' /\ LiveTicketMatchesRecord'
    <2>1. CASE ~ok
      BY <1>1, <1>3, <2>1, TicketsFrame
    <2>2. CASE ok
      <3>1. gen \in [Pages -> Int] /\ g \in Int
        BY DEF CoreInv, TypeOK, Generation
      <3>2. \A t \in TicketId : tickets[t].issued =>
               /\ tickets[t].gen \in Int /\ tickets[t].page \in Pages
               /\ tickets[t].gen <= gen[tickets[t].page]
        BY DEF CoreInv, IssuedTickets, TypeOK, TransferTicket, Replica, Generation, NoGen
      <3>3. FreshTickets'
        BY <1>1 DEF CoreInv, FreshTickets
      <3>4. IssuedTickets'
        BY <1>1, <1>3, <2>2, <3>1, <3>2 DEF IssuedTickets
      <3>5. ASSUME NEW t \in TicketId, Live(t)'
            PROVE  Live(t) /\ tickets[t].page \in Pages /\ tickets[t].page # p
        BY <1>1, <1>3, <2>2, <3>1, <3>2, <3>5 DEF Live
      <3>6. ASSUME NEW t \in TicketId, Live(t)'
            PROVE  /\ Awaited(tickets'[t], state'[tickets'[t].page])
                   /\ \A u \in TicketId :
                         Live(u)' /\ tickets'[u].page = tickets'[t].page => u = t
        BY <1>1, <1>3, <3>5, <3>6, LiveTicket
      <3>7. LiveTicketMatchesRecord'
        BY <3>6 DEF LiveTicketMatchesRecord, Live, Awaited
      <3> QED
        BY <3>3, <3>4, <3>7
    <2> QED
      BY <2>1, <2>2
  <1> QED
    BY <1>0, <1>4, <1>5, <1>6 DEF CoreInv


\* ResidencyManager::new starts in it.
LEMMA CoreInit == Init => CoreInv
  <1> SUFFICES ASSUME Init PROVE CoreInv
    OBVIOUS
  <1>1. /\ FreeSlot \in VramSlot /\ NoTicket \in TransferTicket
        /\ 1 \in 1 .. MaxTickets + 1 /\ 1 \in 1 .. MaxLeases + 1
        /\ 0 \in Generation /\ NoGen \in Replica
    BY BoundAssumption
    DEF FreeSlot, VramSlot, SlotState, NoTicket, TransferTicket, TransferKind,
        TransferStatus, Replica, Generation
  <1>2. TypeOK
    BY <1>1 DEF Init, TypeOK, PageState
  <1>3. SlotsOwned /\ OneSlotPerPage
    BY DEF Init, SlotsOwned, OneSlotPerPage, FreeSlot
  <1>4. CopiesCurrent /\ LeasesKept
    BY DEF Init, CopiesCurrent, LeasesKept, Has, NoGen
  <1>5. FreshTickets /\ IssuedTickets /\ LiveTicketMatchesRecord
    BY DEF Init, FreshTickets, IssuedTickets, LiveTicketMatchesRecord, NoTicket
  <1> QED
    BY <1>2, <1>3, <1>4, <1>5 DEF CoreInv

LEMMA CoreStutter == CoreInv /\ UNCHANGED vars => CoreInv'
  <1> SUFFICES ASSUME CoreInv, UNCHANGED vars PROVE CoreInv'
    OBVIOUS
  <1> USE DEF vars, record, transfer, compute, bytes, depths
  <1>1. TypeOK'
    BY DEF CoreInv, TypeOK
  <1>2. SlotsOwned' /\ OneSlotPerPage'
    BY DEF CoreInv, SlotsOwned, OneSlotPerPage
  <1>3. CopiesCurrent' /\ LeasesKept'
    BY DEF CoreInv, CopiesCurrent, LeasesKept, HasVram
  <1>4. FreshTickets' /\ IssuedTickets' /\ LiveTicketMatchesRecord'
    BY DEF CoreInv, FreshTickets, IssuedTickets, LiveTicketMatchesRecord
  <1> QED
    BY <1>1, <1>2, <1>3, <1>4 DEF CoreInv

\* Every call of the public interface preserves it, whichever slot, ticket or lease it
\* is passed and however late.
LEMMA CoreNext == CoreInv /\ [Next]_vars => CoreInv'
  <1> SUFFICES ASSUME CoreInv, [Next]_vars PROVE CoreInv'
    OBVIOUS
  <1>1. ASSUME NEW p \in Pages, PageStep(p) PROVE CoreInv'
    BY <1>1, CoreRam, CoreEvictRam, CoreQueueNvme, CoreReserve, CoreAdvance DEF PageStep
  <1>2. ASSUME NEW p \in Pages, NEW s \in Slots, SlotStep(p, s) PROVE CoreInv'
    BY <1>2, CoreQueueUpload, CoreMarkReady, CoreAcquire, CoreEvictVram DEF SlotStep
  <1>3. ASSUME NEW t \in TicketId, TicketStep(t) PROVE CoreInv'
    BY <1>3, CoreStart, CoreRefuse, CoreCompleteNvme, CoreCompleteUpload DEF TicketStep
  <1>4. CASE \E lease \in held : ReleaseCompute(lease)
    BY <1>4, CoreRelease
  <1> QED
    BY <1>1, <1>2, <1>3, <1>4, CoreStutter DEF Next

\* The core of the invariant holds in every state the manager can reach.
THEOREM CoreInvariance == Spec => []CoreInv
  BY CoreInit, CoreNext, PTL DEF Spec

\* Every counter, replica, slot, ticket and record stays in its type whatever
\* the callers do; in particular no depth or byte counter goes below zero.
THEOREM TypeCorrect == Spec => []TypeOK
  <1>1. CoreInv => TypeOK
    BY DEF CoreInv
  <1> QED
    BY <1>1, CoreInvariance, PTL

\* A live ticket of the page's generation is the one the record waits for, and the
\* only one, whichever kind of call it is passed to.
THEOREM LiveTicketsMatchRecords == Spec => []LiveTicketMatchesRecord
  <1>1. CoreInv => LiveTicketMatchesRecord
    BY DEF CoreInv
  <1> QED
    BY <1>1, CoreInvariance, PTL

\* As long as a record lists a lease, returned or leaked by a failed
\* acquire_compute, its slot is InUse for that page and generation.
THEOREM LeasesProtectSlots == Spec => []LeaseProtectsSlot
  <1>1. ASSUME CoreInv, NEW p \in Pages, NEW l \in leases[p]
        PROVE  /\ slots[l.slot].state = "InUse" /\ slots[l.slot].users > 0
               /\ slots[l.slot].page = p /\ l.page = p
               /\ slots[l.slot].gen = l.gen /\ l.gen = gen[p]
    BY <1>1, OwnLease, OwnedSlot
  <1>2. CoreInv => LeaseProtectsSlot
    BY <1>1 DEF LeaseProtectsSlot
  <1> QED
    BY <1>2, CoreInvariance, PTL

-----------------------------------------------------------------------------
(* Facts several methods use                                                *)

\* Every record is in a known state or its page unregistered.
LEMMA StateType == ASSUME IInv, NEW p \in Pages PROVE state[p] \in PageState
  BY DEF IInv, TypeOK

\* A page in a slotless state has no slot, no VRAM replica and no lease: what
\* register, the reads and the RAM evictions rely on.
LEMMA UnslottedPage ==
    ASSUME IInv, NEW p \in Pages, state[p] \in SlotlessState
    PROVE  /\ \A s \in Slots : slots[s].page # p
           /\ \A s \in Slots : vram[p][s] = NoGen
           /\ leases[p] = {}
           /\ \A l \in held : l.page # p
  <1>1. \A s \in Slots : slots[s].page # p
    BY PagesAssumption
    DEF IInv, SlotsAgree, RecordStates, SlotlessState, UploadState, FreeSlot
  <1>2. \A s \in Slots : vram[p][s] = NoGen
    BY <1>1 DEF IInv, ReplicasAgree, Has
  <1>3. leases[p] = {}
    BY <1>1 DEF IInv, TypeOK, LeasesAgree, Lease
  <1> QED
    BY <1>1, <1>2, <1>3 DEF IInv, LeasesAgree

\* What the slot that holds a page says of the page's record: the upload,
\* compute and eviction methods check the slot only.
LEMMA SlottedPage ==
    ASSUME IInv, NEW p \in Pages, NEW s \in Slots, slots[s].page = p
    PROVE  /\ slots[s].gen = gen[p]
           /\ state[p] \in RecordStates(slots[s].state, Has(vram[p][s]))
           /\ slots[s].users = IF slots[s].state = "InUse" THEN 1 ELSE 0
           /\ slots[s].state = "InUse" => leases[p] # {}
           /\ slots[s].state \in {"Reserved", "Uploading", "Uploaded", "ComputeReady", "InUse"}
  BY PagesAssumption DEF IInv, SlotsAgree, FreeSlot, RecordStates

\* A record that moves between slotless states disturbs no slot and no lease.
LEMMA SlotlessMove ==
    ASSUME IInv, NEW p \in Pages, state[p] \in SlotlessState,
           \A q \in Pages : q # p => state'[q] = state[q],
           UNCHANGED <<slots, gen, vram, leases, held>>
    PROVE  SlotsAgree' /\ LeasesAgree'
  <1>1. SlotsAgree'
    BY UnslottedPage DEF IInv, SlotsAgree
  <1>2. \A l \in held : l.page \in Pages
    BY DEF IInv, TypeOK, Lease
  <1>3. LeasesAgree'
    BY <1>2, UnslottedPage DEF IInv, LeasesAgree
  <1> QED
    BY <1>1, <1>3

\* A record with no read under way may move without a live read of the page
\* noticing.
LEMMA UnreadMove ==
    ASSUME IInv, NEW p \in Pages, state[p] \notin {"NvmeReadQueued", "NvmeReading"},
           \A q \in Pages : q # p => state'[q] = state[q],
           UNCHANGED <<tickets, gen>>
    PROVE  LiveReadMatchesRecord'
  BY DEF IInv, LiveReadMatchesRecord, InFlight, IssuedTickets

\* A RAM eviction ends in Indexed, or, when VRAM has the page, in Evicting:
\* evict_ram asks for ComputeReady, which legal_transition refuses.
LEMMA RamEvictionOutcome ==
    ASSUME IInv, NEW p \in Pages, RamEvictable(p)
    PROVE  \/ /\ state[p] = "RamReady" /\ ~HasVram(p)
              /\ After("Evicting", AfterRamEviction(p)) = "Indexed"
           \/ /\ state[p] = "ComputeReady" /\ HasVram(p)
              /\ After("Evicting", AfterRamEviction(p)) = "Evicting"
  <1>1. CASE state[p] = "RamReady"
    BY <1>1, UnslottedPage
    DEF SlotlessState, HasVram, Has, AfterRamEviction, After, LegalTransition,
        Successors
  <1>2. CASE state[p] = "ComputeReady"
    BY <1>2
    DEF IInv, ReplicasAgree, VramState, AfterRamEviction, After, LegalTransition,
        Successors
  <1> QED
    BY <1>1, <1>2 DEF RamEvictable

\* A change to an issued ticket leaves the tickets not yet created alone.
LEMMA FreshFrame ==
    ASSUME IInv, NEW t \in TicketId, tickets[t].issued,
           \A u \in TicketId : u # t => tickets'[u] = tickets[u],
           nextTicket' = nextTicket
    PROVE  FreshTickets'
  <1>1. ~(t >= nextTicket)
    BY DEF IInv, FreshTickets, NoTicket
  <1> QED
    BY <1>1 DEF IInv, FreshTickets

\* A record that is not uploading may move without the ticket of any uploading
\* slot noticing.
LEMMA UploadFrame ==
    ASSUME IInv, NEW p \in Pages, state[p] # "VramUploading",
           \A q \in Pages : q # p => state'[q] = state[q],
           \A s \in Slots : slots'[s].state = "Uploading" => slots'[s] = slots[s],
           UNCHANGED <<tickets, nextTicket>>
    PROVE  UploadTickets'
  <1>1. \A s \in Slots : slots[s].state = "Uploading" => slots[s].page \in Pages
    BY DEF IInv, SlotsAgree, FreeSlot
  <1> QED
    BY <1>1 DEF IInv, UploadTickets

-----------------------------------------------------------------------------
(* Every method preserves the invariant                                     *)

\* register preserves the invariant. The new record has no replica and no slot,
\* so nothing that exists notices it.
LEMMA RegisterStep ==
    ASSUME IInv, NEW p \in Pages, Register(p)
    PROVE  IInv'
  <1>0. TypeOK'
    BY RegisterType DEF IInv, IssuedTickets, Register, Known
  <1>a. /\ state[p] = "Unregistered" /\ state' = [state EXCEPT ![p] = "Indexed"]
        /\ UNCHANGED <<slots, gen, vram, leases, held, tickets, nextTicket>>
    BY DEF Register, Registered, transfer, compute
  <1>b. SlotsAgree' /\ LeasesAgree' /\ LiveReadMatchesRecord'
    BY <1>a, SlotlessMove, UnreadMove DEF SlotlessState, IInv, TypeOK
  <1>1. SlotsAgree'
    BY <1>b
  <1>2. OneSlotPerPage'
    BY DEF IInv, OneSlotPerPage, Register
  <1>3. ReplicasAgree'
    BY DEF IInv, TypeOK, ReplicasAgree, Has, HasVram, VramState, NoGen, After,
           LegalTransition, Successors, Replica, Register
  <1>4. RamRetained'
    BY DEF IInv, TypeOK, RamRetained, SlotlessState, Has, HasVram, NoGen,
           ReplicasAgree, After, LegalTransition, Successors, Replica, Register
  <1>5. LeasesAgree'
    BY <1>b
  <1>6. FreshTickets'
    BY DEF IInv, FreshTickets, Register, transfer
  <1>7. IssuedTickets'
    BY DEF IInv, IssuedTickets, Register, transfer
  <1>8. UploadTickets'
    BY <1>a, UploadFrame DEF IInv, TypeOK
  <1>9. LiveReadMatchesRecord'
    BY <1>b
  <1> QED
    BY <1>0, <1>1, <1>2, <1>3, <1>4, <1>5, <1>6, <1>7, <1>8, <1>9 DEF IInv

\* publish_ram_pageable preserves the invariant. The page gains a replica at
\* its own generation and at most moves from Indexed to RamReady.
LEMMA PublishStep ==
    ASSUME IInv, NEW p \in Pages, PublishRamPageable(p)
    PROVE  IInv'
  <1>0. TypeOK'
    BY PublishType DEF IInv, IssuedTickets, PublishRamPageable, Known
  <1>1. SlotsAgree'
    BY DEF IInv, TypeOK, SlotsAgree, RecordStates, FreeSlot, UploadState, Has, After,
           LegalTransition, Successors, SlotlessState, VramSlot, PublishRamPageable
  <1>2. OneSlotPerPage'
    BY DEF IInv, OneSlotPerPage, PublishRamPageable
  <1>3. ReplicasAgree'
    BY DEF IInv, TypeOK, ReplicasAgree, Has, HasVram, VramState, NoGen, After,
           LegalTransition, Successors, Replica, PublishRamPageable
  <1>4. RamRetained'
    <2>1. Has(pageable'[p])
      BY DEF PublishRamPageable, Has, IInv, TypeOK, Generation, NoGen
    <2>2. \A q \in Pages : q # p => state'[q] = state[q] /\ pageable'[q] = pageable[q] /\ pinned'[q] = pinned[q]
      BY DEF PublishRamPageable, IInv, TypeOK
    <2> QED
      BY <2>1, <2>2 DEF IInv, RamRetained
  <1>5. LeasesAgree'
    BY DEF IInv, LeasesAgree, PublishRamPageable, compute
  <1>6. FreshTickets'
    BY DEF IInv, FreshTickets, PublishRamPageable, transfer
  <1>7. IssuedTickets'
    BY DEF IInv, IssuedTickets, PublishRamPageable, transfer
  <1>8. UploadTickets'
    BY DEF IInv, UploadTickets, PublishRamPageable, transfer
  <1>9. LiveReadMatchesRecord'
    BY DEF IInv, LiveReadMatchesRecord, PublishRamPageable, transfer
  <1> QED
    BY <1>0, <1>1, <1>2, <1>3, <1>4, <1>5, <1>6, <1>7, <1>8, <1>9 DEF IInv

\* promote_pageable_to_pinned preserves the invariant. One RAM replica is
\* exchanged for the other, so the page keeps one.
LEMMA PromoteStep ==
    ASSUME IInv, NEW p \in Pages, PromotePageableToPinned(p)
    PROVE  IInv'
  <1>0. TypeOK'
    BY PromoteType DEF IInv, IssuedTickets, PromotePageableToPinned, Known
  <1>1. SlotsAgree'
    BY DEF IInv, SlotsAgree, PromotePageableToPinned
  <1>2. OneSlotPerPage'
    BY DEF IInv, OneSlotPerPage, PromotePageableToPinned
  <1>3. ReplicasAgree'
    BY DEF IInv, TypeOK, ReplicasAgree, Has, HasVram, VramState, NoGen, After,
           LegalTransition, Successors, Replica, PromotePageableToPinned
  <1>4. RamRetained'
    BY DEF IInv, TypeOK, RamRetained, SlotlessState, Has, HasVram, NoGen,
           ReplicasAgree, After, LegalTransition, Successors, Replica,
           PromotePageableToPinned
  <1>5. LeasesAgree'
    BY DEF IInv, LeasesAgree, PromotePageableToPinned, compute
  <1>6. FreshTickets'
    BY DEF IInv, FreshTickets, PromotePageableToPinned, transfer
  <1>7. IssuedTickets'
    BY DEF IInv, IssuedTickets, PromotePageableToPinned, transfer
  <1>8. UploadTickets'
    BY DEF IInv, UploadTickets, PromotePageableToPinned, transfer
  <1>9. LiveReadMatchesRecord'
    BY DEF IInv, LiveReadMatchesRecord, PromotePageableToPinned, transfer
  <1> QED
    BY <1>0, <1>1, <1>2, <1>3, <1>4, <1>5, <1>6, <1>7, <1>8, <1>9 DEF IInv

\* evict_pageable_ram preserves the invariant. The record ends Indexed, or
\* stuck Evicting if VRAM still holds the page.
LEMMA EvictPageableStep ==
    ASSUME IInv, NEW p \in Pages, EvictPageableRam(p)
    PROVE  IInv'
  <1>0. TypeOK'
    BY EvictPageableType DEF IInv, IssuedTickets, EvictPageableRam, Known
  <1>a. /\ UNCHANGED <<slots, gen, vram, leases, held, tickets, nextTicket>>
        /\ \A q \in Pages : q # p => state'[q] = state[q]
        /\ RamEvictable(p) /\ state'[p] = After("Evicting", AfterRamEviction(p))
    BY DEF EvictPageableRam, transfer, compute, IInv, TypeOK
  <1>b. \/ state[p] = "RamReady" /\ state'[p] = "Indexed"
        \/ state[p] = "ComputeReady" /\ state'[p] = "Evicting"
    BY <1>a, RamEvictionOutcome
  <1>1. SlotsAgree'
    <2>1. CASE state[p] = "RamReady"
      BY <1>a, <2>1, SlotlessMove DEF SlotlessState
    <2>2. CASE state[p] = "ComputeReady"
      <3>1. ASSUME NEW s \in Slots, slots[s].page = p
            PROVE  state'[p] \in RecordStates(slots[s].state, Has(vram[p][s]))
        BY <1>b, <2>2, <3>1, SlottedPage DEF RecordStates, UploadState
      <3> QED
        BY <1>a, <3>1 DEF IInv, SlotsAgree
    <2> QED
      BY <1>b, <2>1, <2>2
  <1>2. OneSlotPerPage'
    BY DEF IInv, OneSlotPerPage, EvictPageableRam
  <1>3. ReplicasAgree'
    <2>1. CASE state[p] = "RamReady"
      BY <1>a, <1>b, <2>1
      DEF IInv, TypeOK, ReplicasAgree, HasVram, VramState, EvictPageableRam
    <2>2. CASE state[p] = "ComputeReady"
      BY <1>a, <1>b, <2>2
      DEF IInv, TypeOK, ReplicasAgree, HasVram, VramState, EvictPageableRam
    <2> QED
      BY <1>b, <2>1, <2>2
  <1>4. RamRetained'
    BY <1>a, <1>b DEF IInv, TypeOK, RamRetained, SlotlessState, EvictPageableRam
  <1>5. LeasesAgree'
    <2>1. \A l \in held : l.page \in Pages /\ l.page # p
      BY <1>b DEF IInv, TypeOK, Lease, LeasesAgree
    <2> QED
      BY <1>a, <2>1 DEF IInv, LeasesAgree
  <1>6. FreshTickets'
    BY DEF IInv, FreshTickets, EvictPageableRam, transfer
  <1>7. IssuedTickets'
    BY DEF IInv, IssuedTickets, EvictPageableRam, transfer
  <1>8. UploadTickets'
    BY <1>a, <1>b, UploadFrame
  <1>9. LiveReadMatchesRecord'
    BY <1>a, <1>b, UnreadMove
  <1> QED
    BY <1>0, <1>1, <1>2, <1>3, <1>4, <1>5, <1>6, <1>7, <1>8, <1>9 DEF IInv

\* evict_ram preserves the invariant. The record ends Indexed, or stuck
\* Evicting if VRAM still holds the page.
LEMMA EvictRamStep ==
    ASSUME IInv, NEW p \in Pages, EvictRam(p)
    PROVE  IInv'
  <1>0. TypeOK'
    BY EvictRamType DEF IInv, IssuedTickets, EvictRam, Known
  <1>a. /\ UNCHANGED <<slots, gen, vram, leases, held, tickets, nextTicket>>
        /\ \A q \in Pages : q # p => state'[q] = state[q]
        /\ RamEvictable(p) /\ state'[p] = After("Evicting", AfterRamEviction(p))
    BY DEF EvictRam, transfer, compute, IInv, TypeOK
  <1>b. \/ state[p] = "RamReady" /\ state'[p] = "Indexed"
        \/ state[p] = "ComputeReady" /\ state'[p] = "Evicting"
    BY <1>a, RamEvictionOutcome
  <1>1. SlotsAgree'
    <2>1. CASE state[p] = "RamReady"
      BY <1>a, <2>1, SlotlessMove DEF SlotlessState
    <2>2. CASE state[p] = "ComputeReady"
      <3>1. ASSUME NEW s \in Slots, slots[s].page = p
            PROVE  state'[p] \in RecordStates(slots[s].state, Has(vram[p][s]))
        BY <1>b, <2>2, <3>1, SlottedPage DEF RecordStates, UploadState
      <3> QED
        BY <1>a, <3>1 DEF IInv, SlotsAgree
    <2> QED
      BY <1>b, <2>1, <2>2
  <1>2. OneSlotPerPage'
    BY DEF IInv, OneSlotPerPage, EvictRam
  <1>3. ReplicasAgree'
    <2>1. CASE state[p] = "RamReady"
      BY <1>a, <1>b, <2>1 DEF IInv, TypeOK, ReplicasAgree, HasVram, VramState, EvictRam
    <2>2. CASE state[p] = "ComputeReady"
      BY <1>a, <1>b, <2>2 DEF IInv, TypeOK, ReplicasAgree, HasVram, VramState, EvictRam
    <2> QED
      BY <1>b, <2>1, <2>2
  <1>4. RamRetained'
    BY <1>a, <1>b DEF IInv, TypeOK, RamRetained, SlotlessState, EvictRam
  <1>5. LeasesAgree'
    <2>1. \A l \in held : l.page \in Pages /\ l.page # p
      BY <1>b DEF IInv, TypeOK, Lease, LeasesAgree
    <2> QED
      BY <1>a, <2>1 DEF IInv, LeasesAgree
  <1>6. FreshTickets'
    BY DEF IInv, FreshTickets, EvictRam, transfer
  <1>7. IssuedTickets'
    BY DEF IInv, IssuedTickets, EvictRam, transfer
  <1>8. UploadTickets'
    BY <1>a, <1>b, UploadFrame
  <1>9. LiveReadMatchesRecord'
    BY <1>a, <1>b, UnreadMove
  <1> QED
    BY <1>0, <1>1, <1>2, <1>3, <1>4, <1>5, <1>6, <1>7, <1>8, <1>9 DEF IInv

\* queue_nvme_read preserves the invariant. The new ticket is issued only if
\* the record went to NvmeReadQueued, so it is the one live read of its page.
LEMMA QueueNvmeStep ==
    ASSUME IInv, NEW p \in Pages, QueueNvmeRead(p)
    PROVE  IInv'
  <1>0. TypeOK'
    BY QueueNvmeType DEF IInv, IssuedTickets, QueueNvmeRead, Known
  <1>1. SlotsAgree'
    BY DEF IInv, TypeOK, SlotsAgree, RecordStates, FreeSlot, UploadState, Has, After,
           LegalTransition, Successors, SlotlessState, VramSlot, QueueNvmeRead,
           NewTicket, Goto, Legal, Take
  <1>2. OneSlotPerPage'
    BY DEF IInv, OneSlotPerPage, QueueNvmeRead
  <1>3. ReplicasAgree'
    BY DEF IInv, TypeOK, ReplicasAgree, Has, HasVram, VramState, NoGen, After,
           LegalTransition, Successors, Replica, QueueNvmeRead, NewTicket, Goto, Legal,
           Take
  <1>4. RamRetained'
    BY DEF IInv, TypeOK, RamRetained, SlotlessState, Has, HasVram, NoGen,
           ReplicasAgree, After, LegalTransition, Successors, Replica, QueueNvmeRead,
           NewTicket, Goto, Legal, Take
  <1>5. LeasesAgree'
    BY DEF IInv, TypeOK, LeasesAgree, Has, Lease, After, LegalTransition, Successors,
           QueueNvmeRead, compute, NewTicket, Goto, Legal, Take
  <1>6. FreshTickets'
    BY DEF IInv, TypeOK, FreshTickets, TicketId, QueueNvmeRead, NewTicket, Goto, Legal,
           Take
  <1>7. IssuedTickets'
    BY DEF IInv, TypeOK, IssuedTickets, FreshTickets, NoTicket, TransferTicket,
           Generation, NoGen, QueueNvmeRead, NewTicket, Goto, Legal, Take
  <1>8. UploadTickets'
    BY DEF IInv, TypeOK, UploadTickets, SlotsAgree, RecordStates, UploadState, After,
           LegalTransition, Successors, TransferTicket, OneSlotPerPage, FreeSlot,
           TicketId, VramSlot, QueueNvmeRead, NewTicket, Goto, Legal, Take
  <1>9. LiveReadMatchesRecord'
    BY DEF IInv, TypeOK, LiveReadMatchesRecord, FreshTickets, IssuedTickets, InFlight,
           NoTicket, TransferTicket, After, LegalTransition, Successors, TicketId,
           QueueNvmeRead, NewTicket, Goto, Legal, Take
  <1> QED
    BY <1>0, <1>1, <1>2, <1>3, <1>4, <1>5, <1>6, <1>7, <1>8, <1>9 DEF IInv

\* start_nvme_read preserves the invariant. The ticket is current, so the
\* record was NvmeReadQueued for it.
LEMMA StartNvmeStep ==
    ASSUME IInv, NEW t \in TicketId, StartNvmeRead(t), tickets[t].kind = "NvmeRead"
    PROVE  IInv'
  <1>0. TypeOK'
    BY StartNvmeType DEF IInv, IssuedTickets, StartNvmeRead, Known, Current
  <1>1. SlotsAgree'
    BY DEF IInv, TypeOK, SlotsAgree, RecordStates, FreeSlot, UploadState, Has, After,
           LegalTransition, Successors, SlotlessState, VramSlot, StartNvmeRead, Mark,
           Known, Goto, Current
  <1>2. OneSlotPerPage'
    BY DEF IInv, OneSlotPerPage, StartNvmeRead, Current
  <1>3. ReplicasAgree'
    BY DEF IInv, TypeOK, ReplicasAgree, Has, HasVram, VramState, NoGen, After,
           LegalTransition, Successors, Replica, StartNvmeRead, Mark, Known, Goto,
           Current
  <1>4. RamRetained'
    BY DEF IInv, TypeOK, RamRetained, SlotlessState, Has, HasVram, NoGen,
           ReplicasAgree, After, LegalTransition, Successors, Replica, StartNvmeRead,
           Mark, Known, Goto, Current
  <1>5. LeasesAgree'
    BY DEF IInv, TypeOK, LeasesAgree, Has, Lease, After, LegalTransition, Successors,
           StartNvmeRead, compute, Mark, Known, Goto, Current
  <1>6. FreshTickets'
    BY FreshFrame DEF IInv, TypeOK, StartNvmeRead, Mark, Known, Current
  <1>7. IssuedTickets'
    BY DEF IInv, TypeOK, IssuedTickets, StartNvmeRead, Mark, Known, Goto, Current
  <1>8. UploadTickets'
    BY DEF IInv, TypeOK, UploadTickets, SlotsAgree, RecordStates, UploadState, After,
           LegalTransition, Successors, TransferTicket, OneSlotPerPage, FreeSlot,
           TicketId, VramSlot, StartNvmeRead, Mark, Known, Goto, Current
  <1>9. LiveReadMatchesRecord'
    <2> DEFINE p == tickets[t].page
    <2>1. /\ p \in Pages /\ tickets[t].gen = gen[p] /\ state[p] = "NvmeReadQueued"
          /\ tickets[t].issued /\ tickets[t].kind = "NvmeRead" /\ tickets[t].status = "Queued"
      BY DEF StartNvmeRead, Known, CanStart, InFlight, IInv, IssuedTickets,
             LiveReadMatchesRecord, Current
    <2>2. /\ state' = [state EXCEPT ![p] = "NvmeReading"] /\ gen' = gen
          /\ tickets' = [tickets EXCEPT ![t].status = "Running"]
      BY <2>1 DEF StartNvmeRead, Mark, Goto, After, LegalTransition, Successors, Current
    <2>3. \A u \in TicketId : u # t => tickets'[u] = tickets[u]
      BY <2>2 DEF IInv, TypeOK
    <2>4. /\ tickets'[t].page = p /\ tickets'[t].gen = gen[p] /\ tickets'[t].status = "Running"
          /\ tickets'[t].issued /\ tickets'[t].kind = "NvmeRead"
      BY <2>1, <2>2 DEF IInv, TypeOK, TransferTicket
    <2>5. \A u \in TicketId :
            u # t /\ tickets[u].issued /\ tickets[u].kind = "NvmeRead"
              /\ tickets[u].page = p /\ tickets[u].gen = gen[p] => ~InFlight(tickets[u].status)
      BY <2>1 DEF IInv, LiveReadMatchesRecord, InFlight
    <2>6. state'[p] = "NvmeReading" /\ \A q \in Pages : q # p => state'[q] = state[q]
      BY <2>1, <2>2 DEF IInv, TypeOK
    <2>7. \A u \in TicketId : tickets[u].issued => tickets[u].page \in Pages
      BY DEF IInv, IssuedTickets
    <2> QED
      BY <2>1, <2>2, <2>3, <2>4, <2>5, <2>6, <2>7
      DEF IInv, LiveReadMatchesRecord, InFlight
  <1> QED
    BY <1>0, <1>1, <1>2, <1>3, <1>4, <1>5, <1>6, <1>7, <1>8, <1>9 DEF IInv

\* complete_nvme_read, refused by the pinned budget, preserves the invariant.
\* Only the ticket and the queue depth change.
LEMMA RefuseStep ==
    ASSUME IInv, NEW t \in TicketId, RefuseNvmeRead(t)
    PROVE  IInv'
  <1>0. TypeOK'
    BY RefuseType DEF IInv, IssuedTickets, RefuseNvmeRead, Known
  <1>1. SlotsAgree'
    BY DEF IInv, SlotsAgree, RefuseNvmeRead, record
  <1>2. OneSlotPerPage'
    BY DEF IInv, OneSlotPerPage, RefuseNvmeRead
  <1>3. ReplicasAgree'
    BY DEF IInv, TypeOK, ReplicasAgree, Has, HasVram, VramState, NoGen, After,
           LegalTransition, Successors, Replica, RefuseNvmeRead, record
  <1>4. RamRetained'
    BY DEF IInv, RamRetained, RefuseNvmeRead, record
  <1>5. LeasesAgree'
    BY DEF IInv, LeasesAgree, RefuseNvmeRead, record, compute
  <1>a. /\ tickets[t].issued /\ tickets[t].page \in Pages
        /\ tickets' = [tickets EXCEPT ![t].status = "Failed"]
        /\ UNCHANGED <<state, gen, slots, nextTicket>>
    BY DEF RefuseNvmeRead, Known, Mark, record, IInv, IssuedTickets
  <1>b. /\ \A u \in TicketId : u # t => tickets'[u] = tickets[u]
        /\ tickets'[t] = [tickets[t] EXCEPT !.status = "Failed"]
        /\ tickets[t] \in TransferTicket
    BY <1>a DEF IInv, TypeOK
  <1>6. FreshTickets'
    BY <1>a, <1>b, FreshFrame
  <1>7. IssuedTickets'
    BY <1>a, <1>b DEF IInv, IssuedTickets, TransferTicket
  <1>8. UploadTickets'
    BY <1>a, <1>b DEF IInv, UploadTickets, TransferTicket
  <1>9. LiveReadMatchesRecord'
    BY <1>a, <1>b DEF IInv, LiveReadMatchesRecord, InFlight, TransferTicket
  <1> QED
    BY <1>0, <1>1, <1>2, <1>3, <1>4, <1>5, <1>6, <1>7, <1>8, <1>9 DEF IInv

\* complete_nvme_read preserves the invariant. A current ticket is Running, so
\* the record was NvmeReading; an older one changes no record.
LEMMA CompleteNvmeStep ==
    ASSUME IInv, NEW t \in TicketId, CompleteNvmeRead(t), tickets[t].kind = "NvmeRead"
    PROVE  IInv'
  <1>0. TypeOK'
    <2>1. TypeOK /\ tickets[t].page \in Pages
      BY DEF IInv, IssuedTickets, CompleteNvmeRead, Known
    <2> QED
      BY <2>1, CompleteNvmeType
  <1> DEFINE p == tickets[t].page
  <1>a. p \in Pages /\ tickets[t].issued /\ tickets[t].kind = "NvmeRead"
        /\ tickets[t].status = "Running"
    BY DEF CompleteNvmeRead, Known, CanFirstByte, IInv, IssuedTickets, Current
  <1>b. \/ /\ tickets[t].gen = gen[p] /\ state[p] = "NvmeReading"
           /\ state' = [state EXCEPT ![p] = "RamReady"]
           /\ pinned' = [pinned EXCEPT ![p] = gen[p]]
        \/ /\ tickets[t].gen # gen[p]
           /\ UNCHANGED <<state, pinned>>
    BY <1>a DEF IInv, LiveReadMatchesRecord, InFlight, CompleteNvmeRead, Legal,
                LegalTransition, Successors, Current
  <1>c. /\ UNCHANGED <<slots, gen, pageable, vram, leases, held>>
        /\ \A q \in Pages : q # p => state'[q] = state[q]
    BY <1>b DEF CompleteNvmeRead, compute, IInv, TypeOK, Current
  <1>d. SlotsAgree' /\ LeasesAgree'
    <2>1. CASE state' = state
      BY <1>c, <2>1 DEF IInv, SlotsAgree, LeasesAgree
    <2> QED
      BY <1>a, <1>b, <1>c, <2>1, SlotlessMove DEF SlotlessState
  <1>1. SlotsAgree'
    BY <1>d
  <1>2. OneSlotPerPage'
    BY DEF IInv, OneSlotPerPage, CompleteNvmeRead, Current
  <1>3. ReplicasAgree'
    BY DEF IInv, TypeOK, ReplicasAgree, Has, HasVram, VramState, NoGen, After,
           LegalTransition, Successors, Replica, CompleteNvmeRead, Current
  <1>4. RamRetained'
    <2>1. CASE state' = state /\ pinned' = pinned
      BY <1>c, <2>1 DEF IInv, RamRetained
    <2>2. CASE pinned' = [pinned EXCEPT ![p] = gen[p]]
      <3>1. Has(pinned'[p]) /\ \A q \in Pages : q # p => pinned'[q] = pinned[q]
        BY <1>a, <2>2 DEF IInv, TypeOK, Has, Generation, NoGen
      <3> QED
        BY <1>c, <3>1 DEF IInv, RamRetained
    <2> QED
      BY <1>b, <2>1, <2>2
  <1>5. LeasesAgree'
    BY <1>d
  <1>6. FreshTickets'
    BY FreshFrame DEF IInv, TypeOK, CompleteNvmeRead, Mark, Known, Current
  <1>7. IssuedTickets'
    BY SMTT(30) DEF IInv, TypeOK, IssuedTickets, CompleteNvmeRead, Mark, Known, CanFirstByte,
           Legal, Current
  <1>8. UploadTickets'
    BY DEF IInv, TypeOK, UploadTickets, SlotsAgree, RecordStates, UploadState, After,
           LegalTransition, Successors, TransferTicket, OneSlotPerPage, FreeSlot,
           TicketId, VramSlot, CompleteNvmeRead, Mark, Known, CanFirstByte, Legal,
           Current
  <1>9. LiveReadMatchesRecord'
    <2>1. /\ tickets[t].issued /\ tickets[t].kind = "NvmeRead" /\ tickets[t].status = "Running"
          /\ tickets'[t].status = "Completed"
          /\ \A u \in TicketId : u # t => tickets'[u] = tickets[u]
      BY DEF CompleteNvmeRead, Mark, Known, CanFirstByte, IInv, TypeOK, TransferTicket,
             Current
    <2>2. CASE state' = state
      BY <1>c, <2>1, <2>2 DEF IInv, LiveReadMatchesRecord, InFlight
    <2>3. CASE state' # state
      <3>1. tickets[t].gen = gen[p]
        BY <2>3 DEF CompleteNvmeRead, Current
      <3>2. \A u \in TicketId \ {t} :
               tickets[u].issued /\ tickets[u].kind = "NvmeRead" /\ tickets[u].page = p
                 /\ tickets[u].gen = gen[p] => ~InFlight(tickets[u].status)
        BY <2>1, <3>1 DEF IInv, LiveReadMatchesRecord, InFlight
      <3>3. ~InFlight(tickets'[t].status)
        BY <2>1 DEF InFlight
      <3>4. \A u \in TicketId : tickets[u].issued => tickets[u].page \in Pages
        BY DEF IInv, IssuedTickets
      <3> QED
        BY <1>c, <2>1, <3>2, <3>3, <3>4 DEF IInv, LiveReadMatchesRecord
    <2> QED
      BY <2>2, <2>3
  <1> QED
    BY <1>0, <1>1, <1>2, <1>3, <1>4, <1>5, <1>6, <1>7, <1>8, <1>9 DEF IInv

\* cancel_ticket preserves the invariant. Only the ticket and the queue depths
\* change.
LEMMA CancelStep ==
    ASSUME IInv, NEW t \in TicketId, CancelTicket(t)
    PROVE  IInv'
  <1>0. TypeOK'
    BY CancelType DEF IInv, IssuedTickets, CancelTicket, Known
  <1>1. SlotsAgree'
    BY DEF IInv, SlotsAgree, CancelTicket, record
  <1>2. OneSlotPerPage'
    BY DEF IInv, OneSlotPerPage, CancelTicket
  <1>3. ReplicasAgree'
    BY DEF IInv, TypeOK, ReplicasAgree, Has, HasVram, VramState, NoGen, After,
           LegalTransition, Successors, Replica, CancelTicket, record
  <1>4. RamRetained'
    BY DEF IInv, RamRetained, CancelTicket, record
  <1>5. LeasesAgree'
    BY DEF IInv, LeasesAgree, CancelTicket, record, compute
  <1>6. FreshTickets'
    BY FreshFrame DEF IInv, TypeOK, CancelTicket, Mark, Known
  <1>7. IssuedTickets'
    BY DEF IInv, TypeOK, IssuedTickets, CancelTicket, record, Mark, CanCancel
  <1>8. UploadTickets'
    BY DEF IInv, TypeOK, UploadTickets, CancelTicket, record, Mark, CanCancel
  <1>9. LiveReadMatchesRecord'
    BY DEF IInv, TypeOK, LiveReadMatchesRecord, FreshTickets, IssuedTickets, InFlight,
           NoTicket, TransferTicket, After, LegalTransition, Successors, TicketId,
           CancelTicket, record, Mark, CanCancel
  <1> QED
    BY <1>0, <1>1, <1>2, <1>3, <1>4, <1>5, <1>6, <1>7, <1>8, <1>9 DEF IInv

\* reserve_vram preserves the invariant. A page in RamReady has no slot, so the
\* free slot it takes is its only one.
LEMMA ReserveStep ==
    ASSUME IInv, NEW p \in Pages, ReserveVram(p)
    PROVE  IInv'
  <1>0. TypeOK'
    BY ReserveType DEF IInv, IssuedTickets, ReserveVram, Known
  <1>a. /\ state[p] = "RamReady" /\ state' = [state EXCEPT ![p] = "VramReserved"]
        /\ UNCHANGED <<gen, pageable, pinned, vram, leases, held, tickets, nextTicket>>
    BY DEF ReserveVram, transfer, compute
  <1>b. \A r \in Slots : slots[r].page # p /\ vram[p][r] = NoGen
    BY <1>a, UnslottedPage DEF SlotlessState
  <1>c. PICK s \in Slots :
          /\ slots[s].state = "Free"
          /\ slots' = [slots EXCEPT ![s] = [FreeSlot EXCEPT
                         !.state = "Reserved", !.page = p, !.gen = gen[p]]]
    BY <1>b DEF ReserveVram, SlotOf, FirstFree
  <1>d. slots[s] = FreeSlot
    BY <1>c DEF IInv, SlotsAgree, RecordStates
  <1>e. /\ slots'[s].state = "Reserved" /\ slots'[s].page = p
        /\ slots'[s].gen = gen[p] /\ slots'[s].users = 0
        /\ \A r \in Slots : r # s => slots'[r] = slots[r]
    BY <1>c DEF IInv, TypeOK, FreeSlot
  <1>f. state'[p] = "VramReserved" /\ \A q \in Pages : q # p => state'[q] = state[q]
    BY <1>a DEF IInv, TypeOK
  <1>1. SlotsAgree'
    <2>1. state'[p] \in RecordStates(slots'[s].state, Has(vram'[p][s]))
      BY <1>a, <1>b, <1>e, <1>f DEF RecordStates, Has
    <2> QED
      BY <1>a, <1>b, <1>e, <1>f, <2>1 DEF IInv, SlotsAgree
  <1>2. OneSlotPerPage'
    BY <1>b, <1>e DEF IInv, OneSlotPerPage
  <1>3. ReplicasAgree'
    <2>1. \A q \in Pages : ~Has(vram[q][s])
      BY <1>d, PagesAssumption DEF IInv, ReplicasAgree, FreeSlot
    <2> QED
      BY <1>a, <1>e, <1>f, <2>1 DEF IInv, ReplicasAgree, HasVram, VramState
  <1>4. RamRetained'
    BY DEF IInv, RamRetained, ReserveVram
  <1>5. LeasesAgree'
    BY DEF IInv, TypeOK, LeasesAgree, Has, Lease, After, LegalTransition, Successors,
           ReserveVram, transfer, compute, bytes, depths, SlotOf, FirstFree
  <1>6. FreshTickets'
    BY DEF IInv, FreshTickets, ReserveVram, transfer
  <1>7. IssuedTickets'
    BY DEF IInv, IssuedTickets, ReserveVram, transfer
  <1>8. UploadTickets'
    <2>1. \A t \in TicketId : tickets[t].page = p => state[p] # "VramUploading"
      BY <1>a
    <2> QED
      BY <1>a, <1>b, <1>e, <1>f DEF IInv, UploadTickets
  <1>9. LiveReadMatchesRecord'
    BY DEF IInv, LiveReadMatchesRecord, ReserveVram, transfer
  <1> QED
    BY <1>0, <1>1, <1>2, <1>3, <1>4, <1>5, <1>6, <1>7, <1>8, <1>9 DEF IInv

\* queue_upload preserves the invariant. The slot takes the fresh ticket and
\* the record waits with it.
LEMMA QueueUploadStep ==
    ASSUME IInv, NEW p \in Pages, NEW s \in Slots, QueueUpload(p, s), slots[s].page = p
    PROVE  IInv'
  <1>0. TypeOK'
    BY QueueUploadType DEF IInv, IssuedTickets, QueueUpload, Known
  <1>a. slots[s].page = p /\ UNCHANGED <<gen, vram, leases, held>>
    BY DEF QueueUpload, compute
  <1>b. \/ /\ slots[s].state = "Reserved" /\ state[p] = "VramReserved"
           /\ ~Has(vram[p][s])
           /\ state' = [state EXCEPT ![p] = "UploadQueued"]
           /\ slots' = [slots EXCEPT ![s].state = "Uploading", ![s].ticket = nextTicket]
        \/ UNCHANGED <<state, slots>>
    BY <1>a, SlottedPage
    DEF QueueUpload, RecordStates, Legal, LegalTransition, Successors
  <1>1. SlotsAgree'
    <2>1. CASE UNCHANGED <<state, slots>>
      BY <1>a, <2>1 DEF IInv, SlotsAgree
    <2>2. CASE /\ slots[s].state = "Reserved" /\ state[p] = "VramReserved"
               /\ ~Has(vram[p][s])
               /\ state' = [state EXCEPT ![p] = "UploadQueued"]
               /\ slots' = [slots EXCEPT ![s].state = "Uploading", ![s].ticket = nextTicket]
      <3>1. \A r \in Slots : r # s => slots'[r] = slots[r] /\ slots[r].page # p
        BY <1>a, <2>2, PagesAssumption DEF IInv, TypeOK, OneSlotPerPage
      <3>2. state'[p] = "UploadQueued" /\ \A q \in Pages : q # p => state'[q] = state[q]
        BY <2>2 DEF IInv, TypeOK
      <3>3. /\ slots'[s].page = p /\ slots'[s].gen = gen[p]
            /\ slots'[s].state = "Uploading" /\ slots'[s].users = 0
        BY <1>a, <2>2, SlottedPage DEF IInv, TypeOK, VramSlot
      <3>4. state'[p] \in RecordStates(slots'[s].state, Has(vram'[p][s]))
        BY <1>a, <2>2, <3>2, <3>3 DEF RecordStates, UploadState
      <3> QED
        BY <1>a, <3>1, <3>2, <3>3, <3>4 DEF IInv, SlotsAgree
    <2> QED
      BY <1>b, <2>1, <2>2
  <1>2. OneSlotPerPage'
    BY DEF IInv, TypeOK, OneSlotPerPage, QueueUpload, NewTicket, Legal, Take
  <1>3. ReplicasAgree'
    BY DEF IInv, TypeOK, ReplicasAgree, Has, HasVram, VramState, NoGen, After,
           LegalTransition, Successors, Replica, QueueUpload, Take
  <1>4. RamRetained'
    BY DEF IInv, TypeOK, RamRetained, SlotlessState, Has, HasVram, NoGen,
           ReplicasAgree, After, LegalTransition, Successors, Replica, QueueUpload,
           NewTicket, Legal, Take
  <1>5. LeasesAgree'
    BY DEF IInv, TypeOK, LeasesAgree, Has, Lease, After, LegalTransition, Successors,
           QueueUpload, compute, NewTicket, Legal, Take
  <1>6. FreshTickets'
    BY DEF IInv, TypeOK, FreshTickets, TicketId, QueueUpload, NewTicket, Legal, Take
  <1>7. IssuedTickets'
    BY DEF IInv, TypeOK, IssuedTickets, FreshTickets, NoTicket, TransferTicket,
           Generation, NoGen, QueueUpload, NewTicket, Legal, Take
  <1>8. UploadTickets'
    BY DEF IInv, TypeOK, UploadTickets, SlotsAgree, RecordStates, UploadState, After,
           LegalTransition, Successors, TransferTicket, OneSlotPerPage, FreeSlot,
           TicketId, VramSlot, QueueUpload, NewTicket, Legal, Take
  <1>9. LiveReadMatchesRecord'
    BY DEF IInv, TypeOK, LiveReadMatchesRecord, FreshTickets, IssuedTickets, InFlight,
           NoTicket, TransferTicket, After, LegalTransition, Successors, TicketId,
           QueueUpload, NewTicket, Legal, Take
  <1> QED
    BY <1>0, <1>1, <1>2, <1>3, <1>4, <1>5, <1>6, <1>7, <1>8, <1>9 DEF IInv

\* start_upload preserves the invariant. A Queued upload ticket belongs to the
\* slot that names it, or to no slot any more.
LEMMA StartUploadStep ==
    ASSUME IInv, NEW t \in TicketId, StartUpload(t), tickets[t].kind = "RamToVram"
    PROVE  IInv'
  <1>0. TypeOK'
    BY StartUploadType DEF IInv, IssuedTickets, StartUpload, Known
  <1>1. SlotsAgree'
    BY DEF IInv, TypeOK, SlotsAgree, RecordStates, FreeSlot, UploadState, Has, After,
           LegalTransition, Successors, SlotlessState, VramSlot, StartUpload, Mark,
           Known, Goto
  <1>2. OneSlotPerPage'
    BY DEF IInv, OneSlotPerPage, StartUpload
  <1>3. ReplicasAgree'
    BY DEF IInv, TypeOK, ReplicasAgree, Has, HasVram, VramState, NoGen, After,
           LegalTransition, Successors, Replica, StartUpload, Mark, Known, Goto
  <1>4. RamRetained'
    BY DEF IInv, TypeOK, RamRetained, SlotlessState, Has, HasVram, NoGen,
           ReplicasAgree, After, LegalTransition, Successors, Replica, StartUpload,
           Mark, Known, Goto
  <1>5. LeasesAgree'
    BY DEF IInv, TypeOK, LeasesAgree, Has, Lease, After, LegalTransition, Successors,
           StartUpload, compute, Mark, Known, Goto
  <1>6. FreshTickets'
    BY FreshFrame DEF IInv, TypeOK, StartUpload, Mark, Known
  <1>7. IssuedTickets'
    BY DEF IInv, TypeOK, IssuedTickets, StartUpload, Mark, Known, Goto
  <1>8. UploadTickets'
    BY DEF IInv, TypeOK, UploadTickets, SlotsAgree, RecordStates, UploadState, After,
           LegalTransition, Successors, TransferTicket, OneSlotPerPage, FreeSlot,
           TicketId, VramSlot, StartUpload, compute, bytes, depths, Mark, Known, Goto
  <1>9. LiveReadMatchesRecord'
    BY DEF IInv, TypeOK, LiveReadMatchesRecord, FreshTickets, IssuedTickets, InFlight,
           NoTicket, TransferTicket, After, LegalTransition, Successors, TicketId,
           StartUpload, Mark, Known, Goto
  <1> QED
    BY <1>0, <1>1, <1>2, <1>3, <1>4, <1>5, <1>6, <1>7, <1>8, <1>9 DEF IInv

\* complete_upload preserves the invariant. If the ticket runs, the record is
\* VramUploading and gets its replica with the slot; if it does not, the slot
\* is Uploaded without a replica and the record stays in the upload.
LEMMA CompleteUploadStep ==
    ASSUME IInv, NEW t \in TicketId, NEW s \in Slots, CompleteUpload(t, s),
           tickets[t].kind = "RamToVram"
    PROVE  IInv'
  <1>0. TypeOK'
    BY CompleteUploadType DEF IInv, IssuedTickets, CompleteUpload, Known, Current
  <1> DEFINE p == tickets[t].page
  <1>a. /\ p \in Pages /\ slots[s].page = p /\ slots[s].state = "Uploading"
        /\ tickets[t].gen = gen[p] /\ slots[s].ticket = t
        /\ slots' = [slots EXCEPT ![s].state = "Uploaded"]
        /\ UNCHANGED <<gen, pageable, pinned, leases, held, nextTicket>>
    BY DEF CompleteUpload, Known, compute, IInv, IssuedTickets, UploadTickets, Current
  <1>b. state[p] \in UploadState /\ ~Has(vram[p][s])
    BY <1>a, SlottedPage DEF RecordStates
  <1>c. \/ UNCHANGED <<state, vram, tickets>>
        \/ /\ state[p] = "VramUploading" /\ state' = [state EXCEPT ![p] = "Uploaded"]
           /\ vram' = [vram EXCEPT ![p][s] = gen[p]]
           /\ tickets' = [tickets EXCEPT ![t].status = "Completed"]
    BY <1>a DEF CompleteUpload, CanFirstByte, Legal, LegalTransition, Successors,
                IInv, UploadTickets, Current
  <1>d. \A q \in Pages : q # p => state'[q] = state[q] /\ vram'[q] = vram[q]
    BY <1>a, <1>c DEF IInv, TypeOK
  <1>1. SlotsAgree'
    <2>1. \A r \in Slots : r # s => slots'[r] = slots[r] /\ slots[r].page # p
      BY <1>a, PagesAssumption DEF IInv, TypeOK, OneSlotPerPage
    <2>2. slots'[s].state = "Uploaded" /\ slots'[s].page = p /\ slots'[s].gen = gen[p]
          /\ slots'[s].users = 0
      BY <1>a, SlottedPage DEF IInv, TypeOK, VramSlot
    <2>3. CASE UNCHANGED <<state, vram>>
      <3>1. state'[p] \in RecordStates("Uploaded", Has(vram'[p][s]))
        BY <1>b, <2>3 DEF RecordStates
      <3> QED
        BY <1>a, <1>d, <2>1, <2>2, <3>1 DEF IInv, SlotsAgree
    <2>4. CASE state' = [state EXCEPT ![p] = "Uploaded"] /\ vram' = [vram EXCEPT ![p][s] = gen[p]]
      <3>1. state'[p] = "Uploaded" /\ Has(vram'[p][s])
        BY <1>a, <2>4 DEF IInv, TypeOK, Has, NoGen, Generation
      <3>2. state'[p] \in RecordStates("Uploaded", Has(vram'[p][s]))
        BY <3>1 DEF RecordStates
      <3> QED
        BY <1>a, <1>d, <2>1, <2>2, <3>2 DEF IInv, SlotsAgree
    <2> QED
      BY <1>c, <2>3, <2>4
  <1>2. OneSlotPerPage'
    BY DEF IInv, OneSlotPerPage, CompleteUpload, Current
  <1>3. ReplicasAgree'
    <2>1. \A r \in Slots : slots'[r].page = slots[r].page
      BY <1>a DEF IInv, TypeOK, VramSlot
    <2>2. CASE UNCHANGED <<state, vram>>
      BY <1>a, <2>1, <2>2 DEF IInv, ReplicasAgree, HasVram
    <2>3. CASE state' = [state EXCEPT ![p] = "Uploaded"] /\ vram' = [vram EXCEPT ![p][s] = gen[p]]
      <3>1. vram'[p][s] = gen[p] /\ Has(vram'[p][s])
        BY <1>a, <2>3 DEF IInv, TypeOK, Has, NoGen, Generation
      <3>2. \A r \in Slots : r # s => vram'[p][r] = vram[p][r]
        BY <1>a, <2>3 DEF IInv, TypeOK
      <3> QED
        BY <1>a, <1>d, <2>1, <3>1, <3>2 DEF IInv, ReplicasAgree, HasVram
    <2> QED
      BY <1>c, <2>2, <2>3
  <1>4. RamRetained'
    BY SMTT(30) DEF IInv, TypeOK, RamRetained, SlotlessState, Has, HasVram, NoGen,
           ReplicasAgree, After, LegalTransition, Successors, Replica, CompleteUpload,
           Known, CanFirstByte, Legal, Current
  <1>5. LeasesAgree'
    BY DEF IInv, TypeOK, LeasesAgree, Has, Lease, After, LegalTransition, Successors,
           CompleteUpload, compute, Known, CanFirstByte, Legal, Current
  <1>6. FreshTickets'
    BY FreshFrame DEF IInv, TypeOK, CompleteUpload, Mark, Known, Current
  <1>7. IssuedTickets'
    BY DEF IInv, IssuedTickets, CompleteUpload, Current
  <1>8. UploadTickets'
    <2>1. \A r \in Slots : r # s => slots'[r] = slots[r] /\ slots[r].page # p
      BY <1>a, PagesAssumption DEF IInv, TypeOK, OneSlotPerPage
    <2>2. slots'[s].state = "Uploaded"
      BY <1>a DEF IInv, TypeOK, VramSlot
    <2>3. \A r \in Slots : slots[r].state = "Uploading" => slots[r].page \in Pages
      BY DEF IInv, SlotsAgree, FreeSlot
    <2>4. \A u \in TicketId : u # t => tickets'[u] = tickets[u]
      BY <1>c DEF IInv, TypeOK
    <2> QED
      BY <1>a, <1>d, <2>1, <2>2, <2>3, <2>4 DEF IInv, UploadTickets
  <1>9. LiveReadMatchesRecord'
    BY DEF IInv, TypeOK, LiveReadMatchesRecord, FreshTickets, IssuedTickets, InFlight,
           NoTicket, TransferTicket, After, LegalTransition, Successors, TicketId,
           CompleteUpload, Known, CanFirstByte, Legal, Current
  <1> QED
    BY <1>0, <1>1, <1>2, <1>3, <1>4, <1>5, <1>6, <1>7, <1>8, <1>9 DEF IInv

\* mark_compute_ready preserves the invariant. The record follows the slot to
\* ComputeReady, or stays in the upload that never completed.
LEMMA MarkReadyStep ==
    ASSUME IInv, NEW p \in Pages, NEW s \in Slots, MarkComputeReady(p, s)
    PROVE  IInv'
  <1>0. TypeOK'
    BY MarkReadyType DEF IInv, IssuedTickets, MarkComputeReady, Known
  <1>a. /\ slots[s].page = p /\ slots[s].state = "Uploaded"
        /\ slots' = [slots EXCEPT ![s].state = "ComputeReady"]
        /\ state' = [state EXCEPT ![p] = After(@, "ComputeReady")]
        /\ UNCHANGED <<gen, vram, leases, held>>
    BY DEF MarkComputeReady, Identifies, Goto, compute
  <1>b. \/ state[p] \in UploadState /\ state'[p] = state[p] /\ ~Has(vram[p][s])
        \/ state[p] = "Uploaded" /\ state'[p] = "ComputeReady" /\ Has(vram[p][s])
    BY <1>a, SlottedPage
    DEF RecordStates, UploadState, After, LegalTransition, Successors, IInv, TypeOK
  <1>1. SlotsAgree'
    <2>1. \A r \in Slots : r # s => slots'[r] = slots[r] /\ slots[r].page # p
      BY <1>a, PagesAssumption DEF IInv, TypeOK, OneSlotPerPage
    <2>2. \A q \in Pages : q # p => state'[q] = state[q]
      BY <1>a DEF IInv, TypeOK
    <2>3. /\ slots'[s].page = p /\ slots'[s].gen = gen'[p]
          /\ state'[p] \in RecordStates(slots'[s].state, Has(vram'[p][s]))
          /\ slots'[s].users = IF slots'[s].state = "InUse" THEN 1 ELSE 0
          /\ slots'[s].state = "InUse" => leases'[p] # {}
      BY <1>a, <1>b, SlottedPage DEF RecordStates, UploadState, IInv, TypeOK, VramSlot
    <2> QED
      BY <1>a, <2>1, <2>2, <2>3 DEF IInv, SlotsAgree
  <1>2. OneSlotPerPage'
    BY DEF IInv, OneSlotPerPage, MarkComputeReady
  <1>3. ReplicasAgree'
    BY DEF IInv, TypeOK, ReplicasAgree, Has, HasVram, VramState, NoGen, After,
           LegalTransition, Successors, Replica, MarkComputeReady, Goto, Identifies
  <1>4. RamRetained'
    BY DEF IInv, TypeOK, RamRetained, SlotlessState, Has, HasVram, NoGen,
           ReplicasAgree, After, LegalTransition, Successors, Replica,
           MarkComputeReady, Goto, Identifies
  <1>5. LeasesAgree'
    <2>1. \A q \in Pages : \A l \in leases[q] : l.slot # s
      BY <1>a DEF IInv, TypeOK, LeasesAgree, Lease
    <2>2. \A r \in Slots : r # s => slots'[r] = slots[r]
      BY <1>a DEF IInv, TypeOK
    <2>3. \A l \in held : l.page \in Pages /\ l.page # p
      BY <1>b DEF IInv, TypeOK, Lease, LeasesAgree, UploadState
    <2>4. \A q \in Pages : \A l \in leases[q] : l.slot \in Slots
      BY DEF IInv, TypeOK, Lease
    <2>5. \A q \in Pages : q # p => state'[q] = state[q]
      BY <1>a DEF IInv, TypeOK
    <2> QED
      BY <1>a, <2>1, <2>2, <2>3, <2>4, <2>5 DEF IInv, LeasesAgree
  <1>6. FreshTickets'
    BY DEF IInv, FreshTickets, MarkComputeReady, transfer
  <1>7. IssuedTickets'
    BY DEF IInv, IssuedTickets, MarkComputeReady, transfer
  <1>8. UploadTickets'
    BY DEF IInv, TypeOK, UploadTickets, SlotsAgree, RecordStates, UploadState, After,
           LegalTransition, Successors, TransferTicket, OneSlotPerPage, FreeSlot,
           TicketId, VramSlot, MarkComputeReady, transfer, Goto, Identifies
  <1>9. LiveReadMatchesRecord'
    BY DEF IInv, TypeOK, LiveReadMatchesRecord, FreshTickets, IssuedTickets, InFlight,
           NoTicket, TransferTicket, After, LegalTransition, Successors, TicketId,
           MarkComputeReady, transfer, Goto, Identifies
  <1> QED
    BY <1>0, <1>1, <1>2, <1>3, <1>4, <1>5, <1>6, <1>7, <1>8, <1>9 DEF IInv

\* acquire_compute preserves the invariant. A ComputeReady slot has no user and
\* its page no lease, so the new lease is the only one, returned or leaked.
LEMMA AcquireStep ==
    ASSUME IInv, NEW p \in Pages, NEW s \in Slots, AcquireCompute(p, s)
    PROVE  IInv'
  <1>0. TypeOK'
    BY AcquireType DEF IInv, IssuedTickets, AcquireCompute, Known
  <1> DEFINE lease == [id |-> nextLease, page |-> p, slot |-> s, gen |-> gen[p]]
  <1>a. /\ slots[s].page = p /\ slots[s].state = "ComputeReady"
        /\ slots' = [slots EXCEPT ![s].state = "InUse", ![s].users = @ + 1]
        /\ leases' = [leases EXCEPT ![p] = @ \cup {lease}]
        /\ UNCHANGED <<gen, vram>>
    BY DEF AcquireCompute, Identifies
  <1>b. \/ /\ state[p] = "ComputeReady" /\ Has(vram[p][s])
           /\ state' = [state EXCEPT ![p] = "InUse"] /\ held' = held \cup {lease}
        \/ /\ state[p] \in UploadState \cup {"Evicting"}
           /\ UNCHANGED <<state, held>>
    BY <1>a, SlottedPage
    DEF AcquireCompute, Goto, Legal, After, LegalTransition, Successors, RecordStates,
        UploadState, IInv, TypeOK, Take
  <1>c. leases[p] = {}
    <2>1. \A l \in leases[p] : l.slot \in Slots
      BY DEF IInv, TypeOK, Lease
    <2>2. \A l \in leases[p] : slots[l.slot].page = p /\ slots[l.slot].state = "InUse"
      BY DEF IInv, LeasesAgree
    <2>3. \A r \in Slots : slots[r].page = p => r = s
      BY <1>a, PagesAssumption DEF IInv, OneSlotPerPage
    <2> QED
      BY <1>a, <2>1, <2>2, <2>3
  <1>1. SlotsAgree'
    BY DEF IInv, TypeOK, SlotsAgree, RecordStates, FreeSlot, UploadState, Has, After,
           LegalTransition, Successors, SlotlessState, VramSlot, AcquireCompute, Take
  <1>2. OneSlotPerPage'
    BY DEF IInv, TypeOK, OneSlotPerPage, AcquireCompute, Goto, Identifies, Legal, Take
  <1>3. ReplicasAgree'
    BY DEF IInv, TypeOK, ReplicasAgree, Has, HasVram, VramState, NoGen, After,
           LegalTransition, Successors, Replica, AcquireCompute, Goto, Identifies,
           Legal, Take
  <1>4. RamRetained'
    BY DEF IInv, TypeOK, RamRetained, SlotlessState, Has, HasVram, NoGen,
           ReplicasAgree, After, LegalTransition, Successors, Replica, AcquireCompute,
           Goto, Identifies, Legal, Take
  <1>5. LeasesAgree'
    <2>1. leases'[p] = {lease} /\ \A q \in Pages : q # p => leases'[q] = leases[q]
      BY <1>a, <1>c DEF IInv, TypeOK
    <2>2. /\ slots'[s].page = p /\ slots'[s].state = "InUse"
          /\ \A r \in Slots : r # s => slots'[r] = slots[r]
      BY <1>a DEF IInv, TypeOK, VramSlot
    <2>3. \A q \in Pages : \A l \in leases[q] : l.slot \in Slots /\ l.slot # s
      BY <1>a DEF IInv, TypeOK, LeasesAgree, Lease
    <2>4. ASSUME NEW q \in Pages, NEW l \in leases'[q]
          PROVE  /\ l.page = q /\ l.gen = gen'[q]
                 /\ slots'[l.slot].page = q /\ slots'[l.slot].state = "InUse"
                 /\ \A m \in leases'[q] : l = m
      <3>0. lease.page = p /\ lease.slot = s /\ lease.gen = gen[p]
        OBVIOUS
      <3>1. CASE q = p
        <4>1. \A m \in leases'[q] : m = lease
          BY <2>1, <3>1
        <4>2. l = lease
          BY <2>4, <4>1
        <4> QED
          BY <1>a, <2>2, <3>0, <3>1, <4>1, <4>2
      <3>2. CASE q # p
        <4>1. leases'[q] = leases[q] /\ l \in leases[q]
          BY <2>1, <2>4, <3>2
        <4>2. slots'[l.slot] = slots[l.slot]
          BY <2>2, <2>3, <4>1
        <4> QED
          BY <1>a, <4>1, <4>2 DEF IInv, LeasesAgree
      <3> QED
        BY <3>1, <3>2
    <2>5. \A l \in held : l.page \in Pages /\ l.page # p
      BY <1>c DEF IInv, TypeOK, Lease, LeasesAgree
    <2>6. \A l \in held' : /\ l \in leases'[l.page]
                           /\ state'[l.page] = "InUse" /\ Has(vram'[l.page][l.slot])
      BY <1>a, <1>b, <2>1, <2>5 DEF IInv, TypeOK, LeasesAgree
    <2> QED
      BY <2>4, <2>6 DEF LeasesAgree
  <1>6. FreshTickets'
    BY DEF IInv, FreshTickets, AcquireCompute, transfer
  <1>7. IssuedTickets'
    BY DEF IInv, IssuedTickets, AcquireCompute, transfer
  <1>8. UploadTickets'
    BY DEF IInv, TypeOK, UploadTickets, SlotsAgree, RecordStates, UploadState, After,
           LegalTransition, Successors, TransferTicket, OneSlotPerPage, FreeSlot,
           TicketId, VramSlot, AcquireCompute, transfer, Goto, Identifies, Legal, Take
  <1>9. LiveReadMatchesRecord'
    BY DEF IInv, TypeOK, LiveReadMatchesRecord, FreshTickets, IssuedTickets, InFlight,
           NoTicket, TransferTicket, After, LegalTransition, Successors, TicketId,
           AcquireCompute, transfer, Goto, Identifies, Legal, Take
  <1> QED
    BY <1>0, <1>1, <1>2, <1>3, <1>4, <1>5, <1>6, <1>7, <1>8, <1>9 DEF IInv

\* release_compute preserves the invariant. The lease given back was the only
\* one of its page.
LEMMA ReleaseStep ==
    ASSUME IInv, NEW lease \in held, ReleaseCompute(lease)
    PROVE  IInv'
  <1>0. TypeOK'
    BY ReleaseType DEF IInv, IssuedTickets, ReleaseCompute, Known
  <1> DEFINE p == lease.page  s == lease.slot
  <1>a. /\ p \in Pages /\ s \in Slots
        /\ slots[s].page = p /\ slots[s].state = "InUse" /\ slots[s].users = 1
        /\ state[p] = "InUse" /\ Has(vram[p][s])
    BY SlottedPage DEF IInv, TypeOK, Lease, LeasesAgree, ReleaseCompute, Identifies
  <1>b. /\ slots' = [slots EXCEPT ![s].users = 0, ![s].state = "ComputeReady"]
        /\ state' = [state EXCEPT ![p] = "ComputeReady"]
        /\ UNCHANGED <<gen, vram>>
    BY <1>a DEF ReleaseCompute, Goto, After, LegalTransition, Successors, IInv, TypeOK
  <1>c. /\ slots'[s].page = p /\ slots'[s].gen = gen[p]
        /\ slots'[s].state = "ComputeReady" /\ slots'[s].users = 0
        /\ \A r \in Slots : r # s => slots'[r] = slots[r]
    BY <1>a, <1>b, SlottedPage DEF IInv, TypeOK, VramSlot
  <1>1. SlotsAgree'
    <2>1. \A r \in Slots : r # s => slots[r].page # p
      BY <1>a, PagesAssumption DEF IInv, OneSlotPerPage
    <2>2. state'[p] = "ComputeReady" /\ \A q \in Pages : q # p => state'[q] = state[q]
      BY <1>a, <1>b DEF IInv, TypeOK
    <2>3. \A q \in Pages : q # p => leases'[q] = leases[q]
      BY <1>a DEF ReleaseCompute, IInv, TypeOK
    <2>4. state'[p] \in RecordStates(slots'[s].state, Has(vram'[p][s]))
      BY <1>a, <1>b, <1>c, <2>2 DEF RecordStates
    <2>5. ASSUME NEW r \in Slots, r # s, slots[r] # FreeSlot
          PROVE  slots[r].page \in Pages /\ slots[r].page # p
      BY <2>1, <2>5 DEF IInv, SlotsAgree
    <2>6. ASSUME NEW r \in Slots, r # s, slots[r] # FreeSlot
          PROVE  /\ slots[r].gen = gen[slots[r].page]
                 /\ state[slots[r].page] \in RecordStates(slots[r].state, Has(vram[slots[r].page][r]))
                 /\ slots[r].users = IF slots[r].state = "InUse" THEN 1 ELSE 0
                 /\ slots[r].state = "InUse" => leases[slots[r].page] # {}
      BY <2>6 DEF IInv, SlotsAgree
    <2>7. ASSUME NEW r \in Slots
          PROVE  \/ slots'[r] = FreeSlot
                 \/ /\ slots'[r].page \in Pages /\ slots'[r].gen = gen'[slots'[r].page]
                    /\ state'[slots'[r].page] \in
                         RecordStates(slots'[r].state, Has(vram'[slots'[r].page][r]))
                    /\ slots'[r].users = IF slots'[r].state = "InUse" THEN 1 ELSE 0
                    /\ slots'[r].state = "InUse" => leases'[slots'[r].page] # {}
      <3>1. CASE r = s
        BY <1>a, <1>b, <1>c, <2>4, <3>1
      <3>2. CASE r # s
        <4>1. slots'[r] = slots[r]
          BY <1>c, <3>2
        <4>2. CASE slots[r] # FreeSlot
          <5> DEFINE q == slots[r].page
          <5>1. q \in Pages /\ q # p
            BY <2>5, <3>2, <4>2
          <5>2. state'[q] = state[q] /\ leases'[q] = leases[q] /\ gen' = gen /\ vram' = vram
            BY <1>b, <2>2, <2>3, <5>1
          <5> QED
            BY <2>6, <3>2, <4>1, <4>2, <5>1, <5>2
        <4> QED
          BY <4>1, <4>2
      <3> QED
        BY <3>1, <3>2
    <2> QED
      BY <2>7 DEF SlotsAgree
  <1>2. OneSlotPerPage'
    BY DEF IInv, TypeOK, OneSlotPerPage, ReleaseCompute, Goto, Identifies, Legal
  <1>3. ReplicasAgree'
    BY DEF IInv, TypeOK, ReplicasAgree, Has, HasVram, VramState, NoGen, After,
           LegalTransition, Successors, Replica, ReleaseCompute, Goto, Identifies,
           Legal
  <1>4. RamRetained'
    BY DEF IInv, TypeOK, RamRetained, SlotlessState, Has, HasVram, NoGen,
           ReplicasAgree, After, LegalTransition, Successors, Replica, ReleaseCompute,
           Goto, Identifies, Legal
  <1>5. LeasesAgree'
    BY DEF IInv, TypeOK, LeasesAgree, Has, Lease, After, LegalTransition, Successors,
           ReleaseCompute, Goto, Identifies, Legal
  <1>6. FreshTickets'
    BY DEF IInv, FreshTickets, ReleaseCompute, transfer
  <1>7. IssuedTickets'
    BY DEF IInv, IssuedTickets, ReleaseCompute, transfer
  <1>8. UploadTickets'
    <2>1. \A q \in Pages : q # p => state'[q] = state[q]
      BY <1>b DEF IInv, TypeOK
    <2> QED
      BY <1>a, <1>c, <2>1, UploadFrame DEF ReleaseCompute, transfer
  <1>9. LiveReadMatchesRecord'
    BY DEF IInv, TypeOK, LiveReadMatchesRecord, FreshTickets, IssuedTickets, InFlight,
           NoTicket, TransferTicket, After, LegalTransition, Successors, TicketId,
           ReleaseCompute, transfer, Goto, Identifies, Legal
  <1> QED
    BY <1>0, <1>1, <1>2, <1>3, <1>4, <1>5, <1>6, <1>7, <1>8, <1>9 DEF IInv

\* evict_vram preserves the invariant. Only a slot without users is freed, and
\* its page has no lease.
LEMMA EvictVramStep ==
    ASSUME IInv, NEW p \in Pages, NEW s \in Slots, EvictVram(p, s)
    PROVE  IInv'
  <1>0. TypeOK'
    BY EvictVramType DEF IInv, IssuedTickets, EvictVram, Known
  <1>a. /\ slots[s].page = p /\ state[p] \in {"ComputeReady", "Uploaded"}
        /\ Has(vram[p][s])
        /\ UNCHANGED <<gen, leases>>
    BY DEF EvictVram, IInv, ReplicasAgree
  <1>b. Identifies(s, p) /\ Evictable(s)
    BY <1>a, SlottedPage DEF RecordStates, UploadState, Identifies, Evictable
  <1>c. /\ slots' = [slots EXCEPT ![s] = FreeSlot]
        /\ state' = [state EXCEPT ![p] = "RamReady"]
        /\ vram' = [vram EXCEPT ![p][s] = NoGen]
    BY <1>b DEF EvictVram
  <1>1. SlotsAgree'
    <2>1. \A r \in Slots : r # s => slots'[r] = slots[r] /\ slots[r].page # p
      BY <1>a, <1>c, PagesAssumption DEF IInv, TypeOK, OneSlotPerPage
    <2>2. \A q \in Pages : q # p => state'[q] = state[q] /\ vram'[q] = vram[q]
      BY <1>c DEF IInv, TypeOK
    <2>3. slots'[s] = FreeSlot
      BY <1>c DEF IInv, TypeOK
    <2> QED
      BY <1>a, <2>1, <2>2, <2>3 DEF IInv, SlotsAgree
  <1>2. OneSlotPerPage'
    BY DEF IInv, TypeOK, OneSlotPerPage, SlotsAgree, FreeSlot, EvictVram
  <1>3. ReplicasAgree'
    BY DEF IInv, TypeOK, ReplicasAgree, Has, HasVram, VramState, NoGen, After,
           LegalTransition, Successors, Replica, EvictVram
  <1>4. RamRetained'
    BY DEF IInv, TypeOK, RamRetained, SlotlessState, Has, HasVram, NoGen,
           ReplicasAgree, After, LegalTransition, Successors, Replica, EvictVram
  <1>5. LeasesAgree'
    BY DEF IInv, TypeOK, LeasesAgree, EvictVram, compute, Identifies, Evictable
  <1>6. FreshTickets'
    BY DEF IInv, FreshTickets, EvictVram, transfer
  <1>7. IssuedTickets'
    BY DEF IInv, IssuedTickets, EvictVram, transfer
  <1>8. UploadTickets'
    BY DEF IInv, TypeOK, UploadTickets, SlotsAgree, RecordStates, UploadState, After,
           LegalTransition, Successors, TransferTicket, OneSlotPerPage, FreeSlot,
           TicketId, VramSlot, EvictVram, transfer
  <1>9. LiveReadMatchesRecord'
    BY DEF IInv, LiveReadMatchesRecord, EvictVram, transfer
  <1> QED
    BY <1>0, <1>1, <1>2, <1>3, <1>4, <1>5, <1>6, <1>7, <1>8, <1>9 DEF IInv

\* advance_generation preserves the invariant. Every stale slot is freed before
\* the record starts over; one busy slot stops the call after the slots before
\* it, of which there are none, the page having one slot.
LEMMA AdvanceStep ==
    ASSUME IInv, NEW p \in Pages, NEW g \in Generation, AdvanceGeneration(p, g)
    PROVE  IInv'
  <1>0. TypeOK'
    BY AdvanceType DEF IInv, IssuedTickets, AdvanceGeneration, Known
  <1>a. /\ UNCHANGED <<tickets, nextTicket, leases, held>>
        /\ g > gen[p]
        /\ \A s \in Slots : slots[s].page # p => slots'[s] = slots[s]
        /\ \/ /\ UNCHANGED <<gen, state, pageable, pinned, vram>>
              /\ \A s \in Slots : slots'[s] = slots[s]
           \/ /\ gen' = [gen EXCEPT ![p] = g]
              /\ state' = [state EXCEPT ![p] = "Indexed"]
              /\ pageable' = [pageable EXCEPT ![p] = NoGen]
              /\ pinned' = [pinned EXCEPT ![p] = NoGen]
              /\ vram' = [vram EXCEPT ![p] = [s \in Slots |-> NoGen]]
              /\ \A s \in Slots : slots[s].page = p => slots'[s] = FreeSlot
    <2> DEFINE stale == {s \in Slots : slots[s].page = p /\ slots[s].gen = gen[p]}
               busy  == {s \in stale : ~Evictable(s)}
               freed == {s \in stale : \A b \in busy : s < b}
    <2>1. /\ UNCHANGED <<tickets, nextTicket, leases, held>>
          /\ g > gen[p]
          /\ slots' = [s \in Slots |-> IF s \in freed THEN FreeSlot ELSE slots[s]]
      BY DEF AdvanceGeneration, transfer, compute
    <2>2. \A s \in Slots : slots[s].page # p => slots'[s] = slots[s]
      BY <2>1
    <2>3. CASE busy # {}
      <3>1. \A s, b \in stale : s = b
        BY PagesAssumption DEF IInv, OneSlotPerPage
      <3>2. \A b \in Slots : ~(b < b)
        BY DEF Slots
      <3>3. freed = {}
        BY <2>3, <3>1, <3>2
      <3>4. \A s \in Slots : slots'[s] = slots[s]
        BY <2>1, <3>3
      <3> QED
        BY <2>1, <2>2, <2>3, <3>4 DEF AdvanceGeneration
    <2>4. CASE busy = {}
      <3>1. \A s \in Slots : slots[s].page = p => s \in stale
        BY SlottedPage
      <3>2. \A s \in Slots : slots[s].page = p => slots'[s] = FreeSlot
        BY <2>1, <2>4, <3>1
      <3> QED
        BY <2>1, <2>2, <2>4, <3>2 DEF AdvanceGeneration
    <2> QED
      BY <2>3, <2>4
  <1>1. SlotsAgree'
    BY DEF IInv, SlotsAgree, AdvanceGeneration
  <1>2. OneSlotPerPage'
    BY DEF IInv, TypeOK, OneSlotPerPage, SlotsAgree, FreeSlot, AdvanceGeneration
  <1>3. ReplicasAgree'
    <2>1. CASE UNCHANGED <<gen, state, pageable, pinned, vram>> /\ \A s \in Slots : slots'[s] = slots[s]
      BY <2>1 DEF IInv, ReplicasAgree, HasVram
    <2>2. CASE /\ gen' = [gen EXCEPT ![p] = g]
               /\ state' = [state EXCEPT ![p] = "Indexed"]
               /\ pageable' = [pageable EXCEPT ![p] = NoGen]
               /\ pinned' = [pinned EXCEPT ![p] = NoGen]
               /\ vram' = [vram EXCEPT ![p] = [s \in Slots |-> NoGen]]
      <3>1. \A q \in Pages : q # p =>
               /\ gen'[q] = gen[q] /\ state'[q] = state[q] /\ pageable'[q] = pageable[q]
               /\ pinned'[q] = pinned[q] /\ vram'[q] = vram[q]
        BY <2>2 DEF IInv, TypeOK
      <3>2. /\ state'[p] = "Indexed" /\ pageable'[p] = NoGen /\ pinned'[p] = NoGen
            /\ \A s \in Slots : vram'[p][s] = NoGen
        BY <2>2 DEF IInv, TypeOK
      <3> QED
        BY <1>a, <3>1, <3>2 DEF IInv, ReplicasAgree, Has, HasVram, VramState
    <2> QED
      BY <1>a, <2>1, <2>2
  <1>4. RamRetained'
    BY DEF IInv, TypeOK, RamRetained, SlotlessState, Has, HasVram, NoGen,
           ReplicasAgree, After, LegalTransition, Successors, Replica,
           AdvanceGeneration
  <1>5. LeasesAgree'
    BY DEF IInv, TypeOK, LeasesAgree, Has, Lease, After, LegalTransition, Successors,
           AdvanceGeneration, compute
  <1>6. FreshTickets'
    BY DEF IInv, FreshTickets, AdvanceGeneration, transfer
  <1>7. IssuedTickets'
    <2>1. gen \in [Pages -> Int] /\ g \in Int
      BY DEF IInv, TypeOK, Generation
    <2>2. \A t \in TicketId : tickets[t].issued => tickets[t].gen \in Int
      BY DEF IInv, TypeOK, TransferTicket, Replica, Generation, NoGen
    <2> QED
      BY <1>a, <2>1, <2>2 DEF IInv, IssuedTickets
  <1>8. UploadTickets'
    BY DEF IInv, TypeOK, UploadTickets, SlotsAgree, RecordStates, UploadState, After,
           LegalTransition, Successors, TransferTicket, OneSlotPerPage, FreeSlot,
           TicketId, VramSlot, AdvanceGeneration, transfer
  <1>9. LiveReadMatchesRecord'
    <2>1. gen \in [Pages -> Int] /\ g \in Int
      BY DEF IInv, TypeOK, Generation
    <2>2. \A t \in TicketId : tickets[t].issued => tickets[t].gen \in Int
      BY DEF IInv, TypeOK, TransferTicket, Replica, Generation, NoGen
    <2>3. \A t \in TicketId : tickets[t].issued /\ tickets[t].page = p => tickets[t].gen # g
      BY <1>a, <2>1, <2>2 DEF IInv, IssuedTickets
    <2>4. CASE UNCHANGED <<gen, state>>
      BY <1>a, <2>4 DEF IInv, LiveReadMatchesRecord
    <2>5. CASE gen' = [gen EXCEPT ![p] = g] /\ state' = [state EXCEPT ![p] = "Indexed"]
      <3>1. \A q \in Pages : q # p => gen'[q] = gen[q] /\ state'[q] = state[q]
        BY <2>5 DEF IInv, TypeOK
      <3>2. gen'[p] = g
        BY <2>5 DEF IInv, TypeOK
      <3>3. \A t \in TicketId : tickets[t].issued => tickets[t].page \in Pages
        BY DEF IInv, IssuedTickets
      <3> QED
        BY <1>a, <2>3, <3>1, <3>2, <3>3 DEF IInv, LiveReadMatchesRecord
    <2> QED
      BY <1>a, <2>4, <2>5
  <1> QED
    BY <1>0, <1>1, <1>2, <1>3, <1>4, <1>5, <1>6, <1>7, <1>8, <1>9 DEF IInv

-----------------------------------------------------------------------------
(* The invariant                                                            *)

\* ResidencyManager::new starts in the invariant.
LEMMA InitInvariant == Init => IInv
  <1> SUFFICES ASSUME Init PROVE IInv
    OBVIOUS
  <1>1. /\ FreeSlot \in VramSlot /\ NoTicket \in TransferTicket
        /\ 1 \in 1 .. MaxTickets + 1 /\ 1 \in 1 .. MaxLeases + 1
        /\ 0 \in Generation /\ NoGen \in Replica
    BY BoundAssumption
    DEF FreeSlot, VramSlot, SlotState, NoTicket, TransferTicket, TransferKind,
        TransferStatus, Replica, Generation
  <1>2. TypeOK
    BY <1>1 DEF Init, TypeOK, PageState
  <1>3. SlotsAgree /\ OneSlotPerPage /\ UploadTickets
    BY DEF Init, SlotsAgree, OneSlotPerPage, UploadTickets, FreeSlot
  <1>4. ReplicasAgree /\ RamRetained /\ LeasesAgree
    BY DEF Init, ReplicasAgree, RamRetained, LeasesAgree, Has, NoGen, VramState,
           SlotlessState
  <1>5. FreshTickets /\ IssuedTickets /\ LiveReadMatchesRecord
    BY DEF Init, FreshTickets, IssuedTickets, LiveReadMatchesRecord, NoTicket
  <1> QED
    BY <1>2, <1>3, <1>4, <1>5 DEF IInv

\* The invariant speaks of the manager's variables only.
LEMMA StutterInvariant == IInv /\ UNCHANGED vars => IInv'
  <1> SUFFICES ASSUME IInv, UNCHANGED vars PROVE IInv'
    OBVIOUS
  <1> USE DEF vars, record, transfer, compute, bytes, depths
  <1>1. TypeOK'
    BY DEF IInv, TypeOK
  <1>2. SlotsAgree' /\ OneSlotPerPage' /\ UploadTickets'
    BY DEF IInv, SlotsAgree, OneSlotPerPage, UploadTickets
  <1>3. ReplicasAgree' /\ RamRetained' /\ LeasesAgree'
    BY DEF IInv, ReplicasAgree, RamRetained, LeasesAgree, HasVram
  <1>4. FreshTickets' /\ IssuedTickets' /\ LiveReadMatchesRecord'
    BY DEF IInv, FreshTickets, IssuedTickets, LiveReadMatchesRecord
  <1> QED
    BY <1>1, <1>2, <1>3, <1>4 DEF IInv

\* The calls of callers that queue an upload only into a slot their page holds and pass
\* a ticket only to the calls of its kind.
CarefulSlotStep(p, s) ==
    \/ QueueUpload(p, s) /\ slots[s].page = p
    \/ MarkComputeReady(p, s)
    \/ AcquireCompute(p, s)
    \/ EvictVram(p, s)

CarefulTicketStep(t) ==
    \/ tickets[t].kind = "NvmeRead" /\ (StartNvmeRead(t) \/ CompleteNvmeRead(t))
    \/ /\ tickets[t].kind = "RamToVram"
       /\ StartUpload(t) \/ \E s \in Slots : CompleteUpload(t, s)
    \/ RefuseNvmeRead(t)
    \/ CancelTicket(t)

CarefulNext ==
    \/ \E p \in Pages : PageStep(p)
    \/ \E p \in Pages, s \in Slots : CarefulSlotStep(p, s)
    \/ \E t \in TicketId : CarefulTicketStep(t)
    \/ \E lease \in held : ReleaseCompute(lease)

\* Keeping every clause of the contract is being careful.
LEMMA ContractIsCare == ASSUME Contract = Clauses, Next PROVE CarefulNext
  <1>1. ASSUME NEW p \in Pages, NEW s \in Slots, SlotStep(p, s) PROVE CarefulSlotStep(p, s)
    BY <1>1 DEF SlotStep, CarefulSlotStep, QueueUpload, Clauses
  <1>2. ASSUME NEW t \in TicketId, TicketStep(t) PROVE CarefulTicketStep(t)
    <2>1. "own kind" \in Contract
      BY DEF Clauses
    <2>2. StartNvmeRead(t) \/ CompleteNvmeRead(t) => tickets[t].kind = "NvmeRead"
      BY <2>1 DEF StartNvmeRead, CompleteNvmeRead, Known
    <2>3. StartUpload(t) \/ (\E s \in Slots : CompleteUpload(t, s)) =>
             tickets[t].kind = "RamToVram"
      BY <2>1 DEF StartUpload, CompleteUpload, Known
    <2> QED
      BY <1>2, <2>2, <2>3 DEF TicketStep, CarefulTicketStep
  <1> QED
    BY <1>1, <1>2 DEF Next, CarefulNext

\* Every careful call, in any order, late or repeated, preserves the invariant.
LEMMA CarefulInvariant == IInv /\ [CarefulNext]_vars => IInv'
  <1> SUFFICES ASSUME IInv, [CarefulNext]_vars PROVE IInv'
    OBVIOUS
  <1>1. ASSUME NEW p \in Pages, PageStep(p) PROVE IInv'
    BY <1>1, RegisterStep, PublishStep, PromoteStep, EvictPageableStep, EvictRamStep,
       QueueNvmeStep, ReserveStep, AdvanceStep
    DEF PageStep
  <1>2. ASSUME NEW p \in Pages, NEW s \in Slots, CarefulSlotStep(p, s) PROVE IInv'
    BY <1>2, QueueUploadStep, MarkReadyStep, AcquireStep, EvictVramStep
    DEF CarefulSlotStep
  <1>3. ASSUME NEW t \in TicketId, CarefulTicketStep(t) PROVE IInv'
    BY <1>3, StartNvmeStep, RefuseStep, CompleteNvmeStep, StartUploadStep,
       CompleteUploadStep, CancelStep
    DEF CarefulTicketStep
  <1>4. CASE \E lease \in held : ReleaseCompute(lease)
    BY <1>4, ReleaseStep
  <1> QED
    BY <1>1, <1>2, <1>3, <1>4, StutterInvariant DEF CarefulNext

\* The invariant holds in every state that callers who keep the contract can reach.
THEOREM Invariance == Contract = Clauses => (Spec => []IInv)
  <1> SUFFICES ASSUME Contract = Clauses PROVE Spec => []IInv
    OBVIOUS
  <1>1. IInv /\ [Next]_vars => IInv'
    BY ContractIsCare, CarefulInvariant
  <1> QED
    BY <1>1, InitInvariant, PTL DEF Spec

-----------------------------------------------------------------------------
(* Invariants that follow                                                   *)

\* A VRAM replica names the slot that holds the page at its generation, and
\* that slot has finished its upload.
LEMMA SlotOfReplica ==
    ASSUME IInv, NEW p \in Pages, NEW s \in Slots, Has(vram[p][s])
    PROVE  /\ slots[s].page = p /\ slots[s].gen = vram[p][s]
           /\ slots[s].state \in {"Uploaded", "ComputeReady", "InUse"}
  <1>1. slots[s].page = p /\ vram[p][s] = gen[p]
    BY DEF IInv, ReplicasAgree
  <1>2. state[p] \in RecordStates(slots[s].state, TRUE) /\ slots[s].gen = gen[p]
    BY <1>1, SlottedPage DEF Has
  <1> QED
    BY <1>1, <1>2, SlottedPage DEF RecordStates

\* A page that claims a VRAM replica owns the slot it names, and no page has
\* two slots: the promise of manager.rs:131-133, for any number of slots.
THEOREM ReplicasNameTheirSlots == Contract = Clauses => (Spec => []ReplicaNamesOwnSlot)
  <1> SUFFICES ASSUME Contract = Clauses PROVE Spec => []ReplicaNamesOwnSlot
    OBVIOUS
  <1>1. ASSUME IInv PROVE ReplicaNamesOwnSlot
    BY <1>1, SlotOfReplica DEF IInv, OneSlotPerPage, ReplicaNamesOwnSlot
  <1>2. Spec => []IInv
    BY Invariance
  <1> QED
    BY <1>1, <1>2, PTL

\* ResidencyRecord::validate holds of every record after every call, the calls
\* that return Err half way included.
THEOREM RecordsAreValid == Contract = Clauses => (Spec => []RecordsValidate)
  <1> SUFFICES ASSUME Contract = Clauses PROVE Spec => []RecordsValidate
    OBVIOUS
  <1>1. ASSUME IInv PROVE RecordsValidate
    <2> SUFFICES ASSUME NEW p \in Pages
                 PROVE  /\ pageable[p] \in {gen[p], NoGen} /\ pinned[p] \in {gen[p], NoGen}
                        /\ \A s \in Slots : vram[p][s] \in {gen[p], NoGen}
                        /\ state[p] = "RamReady" => Has(pageable[p]) \/ Has(pinned[p])
                        /\ state[p] \in {"Uploaded", "ComputeReady", "InUse"} => HasVram(p)
                        /\ state[p] = "InUse" => leases[p] # {}
      BY DEF RecordsValidate
    <2>1. /\ pageable[p] \in {gen[p], NoGen} /\ pinned[p] \in {gen[p], NoGen}
          /\ \A s \in Slots : vram[p][s] \in {gen[p], NoGen}
          /\ state[p] \in {"Uploaded", "ComputeReady", "InUse"} => HasVram(p)
      BY <1>1 DEF IInv, ReplicasAgree, Has, VramState
    <2>2. state[p] = "RamReady" => Has(pageable[p]) \/ Has(pinned[p])
      BY <1>1 DEF IInv, RamRetained, SlotlessState
    <2>3. ASSUME state[p] = "InUse" PROVE leases[p] # {}
      <3>1. PICK s \in Slots : Has(vram[p][s])
        BY <1>1, <2>3 DEF IInv, ReplicasAgree, HasVram, VramState
      <3>2. slots[s].page = p
        BY <1>1, <3>1, SlotOfReplica
      <3>3. state[p] \in RecordStates(slots[s].state, TRUE)
        BY <1>1, <3>1, <3>2, SlottedPage DEF Has
      <3> QED
        BY <1>1, <2>3, <3>2, <3>3, SlottedPage DEF RecordStates
    <2> QED
      BY <2>1, <2>2, <2>3
  <1>2. Spec => []IInv
    BY Invariance
  <1> QED
    BY <1>1, <1>2, PTL

\* release_compute accepts every lease that acquire_compute returned and nobody
\* has given back: with one slot whatever the callers do, since a replica can then be in
\* no other; with more, if each upload is queued for the page that holds the slot.
THEOREM HeldLeasesAreReleasable ==
    SlotCount = 1 \/ Contract = Clauses => (Spec => []HeldLeaseReleasable)
  <1>1. CASE SlotCount = 1
    <2>1. ASSUME CoreInv, NEW l \in held
          PROVE  /\ l \in leases[l.page]
                 /\ gen[l.page] = l.gen /\ vram[l.page][l.slot] = l.gen
                 /\ state[l.page] = "InUse"
      <3>1. l.page \in Pages /\ l.slot \in Slots /\ l \in leases[l.page]
            /\ state[l.page] = "InUse"
        BY <2>1, HeldLease
      <3>2. PICK s \in Slots : Has(vram[l.page][s])
        BY <2>1, <3>1 DEF CoreInv, CopiesCurrent, HasVram
      <3>3. s = l.slot
        BY <1>1, <3>1 DEF Slots
      <3>4. vram[l.page][l.slot] = gen[l.page]
        BY <2>1, <3>1, <3>2, <3>3 DEF CoreInv, CopiesCurrent
      <3> QED
        BY <2>1, <3>1, <3>4, OwnLease
    <2>2. CoreInv => HeldLeaseReleasable
      BY <2>1 DEF HeldLeaseReleasable
    <2> QED
      BY <2>2, CoreInvariance, PTL
  <1>2. CASE Contract = Clauses
    <2>1. ASSUME IInv, NEW l \in held
          PROVE  /\ l \in leases[l.page]
                 /\ gen[l.page] = l.gen /\ vram[l.page][l.slot] = l.gen
                 /\ state[l.page] = "InUse"
      <3>1. l.page \in Pages /\ l.slot \in Slots
        BY <2>1 DEF IInv, TypeOK, Lease
      <3>2. l \in leases[l.page] /\ state[l.page] = "InUse" /\ Has(vram[l.page][l.slot])
        BY <2>1 DEF IInv, LeasesAgree
      <3>3. l.gen = gen[l.page]
        BY <2>1, <3>1, <3>2 DEF IInv, LeasesAgree
      <3>4. vram[l.page][l.slot] = gen[l.page]
        BY <2>1, <3>1, <3>2 DEF IInv, ReplicasAgree
      <3> QED
        BY <3>2, <3>3, <3>4
    <2>2. IInv => HeldLeaseReleasable
      BY <2>1 DEF HeldLeaseReleasable
    <2>3. Spec => []IInv
      BY <1>2, Invariance
    <2> QED
      BY <2>2, <2>3, PTL
  <1> QED
    BY <1>1, <1>2

\* What one step leaves alone for a lease l that stays held.
Frozen(l) == /\ gen'[l.page] = gen[l.page]
             /\ vram'[l.page][l.slot] = vram[l.page][l.slot]
             /\ slots'[l.slot] = slots[l.slot]

-----------------------------------------------------------------------------
(* Leases freeze their pages                                                *)

\* No call on a page alone (publishing, evicting RAM, queueing a read,
\* reserving a slot, advancing a generation) moves a leased page.
LEMMA FrozenByPageStep ==
    ASSUME CoreInv, NEW p \in Pages, PageStep(p), NEW l \in held
    PROVE  Frozen(l)
  <1> USE HeldLease DEF Frozen
  <1>1. CASE ReserveVram(p)
    <2>1. \A s \in Slots : slots'[s] = slots[s] \/ slots[s].state = "Free"
      BY <1>1 DEF ReserveVram, FirstFree, CoreInv, TypeOK
    <2> QED
      BY <1>1, <2>1 DEF ReserveVram
  <1>2. ASSUME NEW g \in Generation, AdvanceGeneration(p, g) PROVE Frozen(l)
    <2>1. l.page # p
      BY <1>2 DEF AdvanceGeneration
    <2>2. slots'[l.slot] = slots[l.slot]
      BY <1>2, <2>1 DEF AdvanceGeneration
    <2> QED
      BY <1>2, <2>1, <2>2 DEF AdvanceGeneration, CoreInv, TypeOK
  <1>3. CASE Register(p) \/ PublishRamPageable(p) \/ PromotePageableToPinned(p)
             \/ EvictPageableRam(p) \/ EvictRam(p) \/ QueueNvmeRead(p)
    BY <1>3 DEF Register, PublishRamPageable, PromotePageableToPinned,
                EvictPageableRam, EvictRam, QueueNvmeRead
  <1> QED
    BY <1>1, <1>2, <1>3 DEF PageStep

\* No call on a slot (queue_upload, mark_compute_ready, acquire_compute,
\* evict_vram) moves a page leased in it or elsewhere.
LEMMA FrozenBySlotStep ==
    ASSUME CoreInv, NEW p \in Pages, NEW s \in Slots, SlotStep(p, s), NEW l \in held
    PROVE  Frozen(l)
  <1> USE HeldLease DEF Frozen
  <1>1. ASSUME slots[s].state # "InUse", UNCHANGED <<gen, vram>>,
               \A r \in Slots : r # s => slots'[r] = slots[r]
        PROVE  Frozen(l)
    BY <1>1
  <1>2. CASE QueueUpload(p, s)
    BY <1>1, <1>2 DEF QueueUpload, CoreInv, TypeOK, Take
  <1>3. CASE MarkComputeReady(p, s)
    BY <1>1, <1>3 DEF MarkComputeReady, CoreInv, TypeOK
  <1>4. CASE AcquireCompute(p, s)
    BY <1>1, <1>4 DEF AcquireCompute, CoreInv, TypeOK, Take
  <1>5. CASE EvictVram(p, s)
    <2>1. l.page # p
      BY <1>5 DEF EvictVram
    <2>2. slots'[l.slot] = slots[l.slot]
      BY <1>5, <2>1 DEF EvictVram, Identifies, CoreInv, TypeOK
    <2> QED
      BY <1>5, <2>1, <2>2 DEF EvictVram, CoreInv, TypeOK
  <1> QED
    BY <1>2, <1>3, <1>4, <1>5 DEF SlotStep

\* No transfer that starts, completes late or is cancelled moves a leased page.
LEMMA FrozenByTicketStep ==
    ASSUME CoreInv, NEW t \in TicketId, TicketStep(t), NEW l \in held
    PROVE  Frozen(l)
  <1> USE HeldLease DEF Frozen
  <1>1. ASSUME NEW s \in Slots, CompleteUpload(t, s) PROVE Frozen(l)
    <2>1. l.slot # s /\ UNCHANGED gen
      BY <1>1 DEF CompleteUpload, Current
    <2>2. slots'[l.slot] = slots[l.slot]
      BY <1>1, <2>1 DEF CompleteUpload, Current
    <2>3. vram'[l.page][l.slot] = vram[l.page][l.slot]
      BY <1>1, <2>1 DEF CompleteUpload, CoreInv, TypeOK, Current
    <2> QED
      BY <2>1, <2>2, <2>3
  <1>2. ASSUME UNCHANGED <<gen, vram, slots>> PROVE Frozen(l)
    BY <1>2
  <1>3. CASE StartNvmeRead(t) \/ CompleteNvmeRead(t) \/ StartUpload(t)
    BY <1>2, <1>3 DEF StartNvmeRead, CompleteNvmeRead, StartUpload, Current
  <1>4. CASE RefuseNvmeRead(t) \/ CancelTicket(t)
    BY <1>2, <1>4 DEF RefuseNvmeRead, CancelTicket, record
  <1> QED
    BY <1>1, <1>3, <1>4 DEF TicketStep

\* Releasing a lease moves no page that another lease protects.
LEMMA FrozenByRelease ==
    ASSUME CoreInv, NEW lease \in held, ReleaseCompute(lease), NEW l \in held, l \in held'
    PROVE  Frozen(l)
  <1>1. l # lease
    BY DEF ReleaseCompute
  <1>2. l.slot # lease.slot
    <2>1. l.page = lease.page => l = lease
      BY HeldLease DEF CoreInv, LeasesKept
    <2> QED
      BY <1>1, <2>1, HeldLease
  <1> QED
    BY <1>2, HeldLease DEF Frozen, ReleaseCompute, CoreInv, TypeOK

\* While a lease is held, no call of any other caller moves the record or its
\* generation, takes the replica or touches the slot.
THEOREM LeasesFreezePages == Spec => LeasedPageFrozen
  <1>1. ASSUME CoreInv, Next, NEW l \in held, l \in held' PROVE Frozen(l)
    BY <1>1, FrozenByPageStep, FrozenBySlotStep, FrozenByTicketStep, FrozenByRelease
    DEF Next
  <1>2. ASSUME CoreInv, Next, NEW l \in held, l \in held'
        PROVE  state'[l.page] = state[l.page]
    <2>1. state[l.page] = "InUse"
      BY <1>2 DEF CoreInv, LeasesKept
    <2>2. state'[l.page] = "InUse"
      BY <1>2, CoreNext DEF CoreInv, LeasesKept
    <2> QED
      BY <2>1, <2>2
  <1>3. CoreInv /\ [Next]_vars => [\A l \in held : l \in held' =>
            /\ state'[l.page] = state[l.page]
            /\ gen'[l.page] = gen[l.page]
            /\ vram'[l.page][l.slot] = vram[l.page][l.slot]
            /\ slots'[l.slot] = slots[l.slot]]_vars
    BY <1>1, <1>2 DEF Frozen
  <1> QED
    BY <1>3, CoreInvariance, PTL DEF Spec, LeasedPageFrozen

-----------------------------------------------------------------------------
(* The manager implements SlotOwnership                                     *)

\* A step that keeps the page, generation and users of every slot is a stutter
\* of SlotOwnership.
LEMMA OwnersKept ==
    ASSUME \A s \in Slots : /\ slots'[s].page = slots[s].page
                            /\ slots'[s].gen = slots[s].gen
                            /\ slots'[s].users = slots[s].users
    PROVE  UNCHANGED Ownership!svars
  BY DEF Ownership!svars, OwnerOf

\* VramSlotTable::new starts with every slot empty.
LEMMA InitRefines == Init => Ownership!Init
  BY PagesAssumption DEF Init, Ownership!Init, OwnerOf, FreeSlot

\* reserve_vram is a Claim of an empty slot by a page that has none.
LEMMA ClaimRefines ==
    ASSUME CoreInv, NEW p \in Pages, ReserveVram(p)
    PROVE  [Ownership!Next]_(Ownership!svars)
  <1>0. CASE UNCHANGED slots
    BY <1>0, OwnersKept
  <1> SUFFICES ASSUME slots' # slots PROVE [Ownership!Next]_(Ownership!svars)
    BY <1>0
  <1>1. \A r \in Slots : slots[r].page # p
    BY OwnedSlot DEF ReserveVram, SlotOf
  <1>2. PICK s \in Slots :
           /\ slots[s].state = "Free"
           /\ slots' = [slots EXCEPT ![s] = [FreeSlot EXCEPT
                          !.state = "Reserved", !.page = p, !.gen = gen[p]]]
    BY DEF ReserveVram, FirstFree
  <1>3. slots[s] = FreeSlot
    BY <1>2 DEF CoreInv, SlotsOwned
  <1> DEFINE c == [page |-> p, gen |-> gen[p]]
  <1>4. c \in Ownership!Claims
    BY DEF CoreInv, TypeOK, Ownership!Claims
  <1>5. OwnerOf(s) = {} /\ OwnerOf(s)' = {c}
    BY <1>2, <1>3, PagesAssumption DEF OwnerOf, FreeSlot, CoreInv, TypeOK
  <1>6. \A r \in Slots : r # s => OwnerOf(r)' = OwnerOf(r)
    BY <1>2 DEF OwnerOf, CoreInv, TypeOK
  <1>7. \A r \in Slots : \A d \in OwnerOf(r) : d.page # p
    BY <1>1 DEF OwnerOf
  <1>8. {r \in Slots : slots[r].users > 0}' = {r \in Slots : slots[r].users > 0}
    BY <1>2, <1>3 DEF FreeSlot, CoreInv, TypeOK
  <1>9. Ownership!Claim(s, c)
    BY <1>5, <1>6, <1>7, <1>8 DEF Ownership!Claim
  <1> QED
    BY <1>4, <1>9 DEF Ownership!Next

\* Freeing an evictable slot is a Release of a slot not in use.
LEMMA ReleaseRefines ==
    ASSUME CoreInv, NEW p \in Pages, NEW s \in Slots, slots[s].page = p, Evictable(s),
           slots'[s] = FreeSlot, \A r \in Slots : r # s => slots'[r] = slots[r]
    PROVE  Ownership!Release(s)
  <1>1. OwnerOf(s) # {}
    BY DEF OwnerOf
  <1>2. OwnerOf(s)' = {}
    BY PagesAssumption DEF OwnerOf, FreeSlot
  <1>3. \A r \in Slots : r # s => OwnerOf(r)' = OwnerOf(r)
    BY DEF OwnerOf
  <1>4. slots[s].users = 0 /\ slots'[s].users = 0
    BY DEF Evictable, FreeSlot
  <1>5. s \notin {r \in Slots : slots[r].users > 0}
    BY <1>4
  <1>6. {r \in Slots : slots[r].users > 0}' = {r \in Slots : slots[r].users > 0}
    BY <1>4
  <1>7. [r \in Slots |-> OwnerOf(r)]' = [[r \in Slots |-> OwnerOf(r)] EXCEPT ![s] = {}]
    BY <1>2, <1>3
  <1> QED
    BY <1>1, <1>5, <1>6, <1>7 DEF Ownership!Release

\* Of the calls on a page alone, reserve_vram claims a slot, advance_generation
\* releases at most one, the others hand nothing over.
LEMMA PageRefines ==
    ASSUME CoreInv, NEW p \in Pages, PageStep(p)
    PROVE  [Ownership!Next]_(Ownership!svars)
  <1>1. CASE Register(p) \/ PublishRamPageable(p) \/ PromotePageableToPinned(p)
             \/ EvictPageableRam(p) \/ EvictRam(p) \/ QueueNvmeRead(p)
    <2>1. UNCHANGED slots
      BY <1>1 DEF Register, PublishRamPageable, PromotePageableToPinned,
                  EvictPageableRam, EvictRam, QueueNvmeRead
    <2> QED
      BY <2>1, OwnersKept
  <1>2. ASSUME NEW g \in Generation, AdvanceGeneration(p, g)
        PROVE  [Ownership!Next]_(Ownership!svars)
    <2>1. CASE UNCHANGED slots
      BY <2>1, OwnersKept
    <2>2. CASE slots' # slots
      <3>0. PICK s \in Slots : slots'[s] # slots[s]
        BY <1>2, <2>2 DEF AdvanceGeneration, CoreInv, TypeOK
      <3>a. ~(s < s)
        BY SlotsAssumption DEF Slots
      <3>b. Evictable(s)
        BY <1>2, <3>0, <3>a DEF AdvanceGeneration
      <3>c. slots[s].page = p /\ slots'[s] = FreeSlot
        BY <1>2, <3>0 DEF AdvanceGeneration
      <3>1. slots[s].page = p /\ Evictable(s) /\ slots'[s] = FreeSlot
        BY <3>b, <3>c
      <3>2. \A r \in Slots : r # s => slots[r].page # p
        BY <3>1, PagesAssumption DEF CoreInv, OneSlotPerPage
      <3>3. \A r \in Slots : r # s => slots'[r] = slots[r]
        BY <1>2, <3>2 DEF AdvanceGeneration
      <3>4. Ownership!Release(s)
        BY <3>1, <3>3, ReleaseRefines
      <3> QED
        BY <3>4 DEF Ownership!Next
    <2> QED
      BY <2>1, <2>2
  <1> QED
    BY <1>1, <1>2, ClaimRefines DEF PageStep

\* acquire_compute is a Use, evict_vram a Release or nothing; queue_upload and
\* mark_compute_ready keep the owner.
LEMMA SlotRefines ==
    ASSUME CoreInv, NEW p \in Pages, NEW s \in Slots, SlotStep(p, s)
    PROVE  [Ownership!Next]_(Ownership!svars)
  <1>1. CASE QueueUpload(p, s)
    <2>1. \A r \in Slots : /\ slots'[r].page = slots[r].page
                           /\ slots'[r].gen = slots[r].gen
                           /\ slots'[r].users = slots[r].users
      BY <1>1 DEF QueueUpload, CoreInv, TypeOK, VramSlot, Take
    <2> QED
      BY <2>1, OwnersKept
  <1>2. CASE MarkComputeReady(p, s)
    <2>1. \A r \in Slots : /\ slots'[r].page = slots[r].page
                           /\ slots'[r].gen = slots[r].gen
                           /\ slots'[r].users = slots[r].users
      BY <1>2 DEF MarkComputeReady, CoreInv, TypeOK, VramSlot
    <2> QED
      BY <2>1, OwnersKept
  <1>3. CASE AcquireCompute(p, s)
    <2>1. slots[s].page = p /\ slots[s].state = "ComputeReady" /\ slots[s].users = 0
      BY <1>3, OwnedSlot DEF AcquireCompute, Identifies
    <2>2. /\ slots'[s].page = p /\ slots'[s].gen = slots[s].gen /\ slots'[s].users = 1
          /\ \A r \in Slots : r # s => slots'[r] = slots[r]
      BY <1>3, <2>1 DEF AcquireCompute, CoreInv, TypeOK, VramSlot, Take
    <2>3. \A r \in Slots : OwnerOf(r)' = OwnerOf(r)
      BY <2>1, <2>2 DEF OwnerOf
    <2>4. {r \in Slots : slots[r].users > 0}' = {r \in Slots : slots[r].users > 0} \cup {s}
      BY <2>1, <2>2
    <2>a. OwnerOf(s) = {[page |-> slots[s].page, gen |-> slots[s].gen]}
      BY <2>1 DEF OwnerOf
    <2>b. s \notin {r \in Slots : slots[r].users > 0}
      BY <2>1
    <2>5. OwnerOf(s) # {} /\ s \notin {r \in Slots : slots[r].users > 0}
      BY <2>a, <2>b
    <2>6. [r \in Slots |-> OwnerOf(r)]' = [r \in Slots |-> OwnerOf(r)]
      BY <2>3
    <2>7. Ownership!Use(s)
      BY <2>4, <2>5, <2>6 DEF Ownership!Use
    <2> QED
      BY <2>7 DEF Ownership!Next
  <1>4. CASE EvictVram(p, s)
    <2>1. CASE Identifies(s, p) /\ Evictable(s)
      <3>1. /\ slots[s].page = p /\ slots'[s] = FreeSlot
            /\ \A r \in Slots : r # s => slots'[r] = slots[r]
        BY <1>4, <2>1 DEF EvictVram, Identifies, CoreInv, TypeOK
      <3>2. Ownership!Release(s)
        BY <2>1, <3>1, ReleaseRefines
      <3> QED
        BY <3>2 DEF Ownership!Next
    <2>2. CASE ~(Identifies(s, p) /\ Evictable(s))
      <3>1. UNCHANGED slots
        BY <1>4, <2>2 DEF EvictVram
      <3> QED
        BY <3>1, OwnersKept
    <2> QED
      BY <2>1, <2>2
  <1> QED
    BY <1>1, <1>2, <1>3, <1>4 DEF SlotStep

\* Transfers never change who owns a slot.
LEMMA TicketRefines ==
    ASSUME CoreInv, NEW t \in TicketId, TicketStep(t)
    PROVE  [Ownership!Next]_(Ownership!svars)
  <1>1. ASSUME NEW s \in Slots, CompleteUpload(t, s)
        PROVE  [Ownership!Next]_(Ownership!svars)
    <2>1. slots' = [slots EXCEPT ![s].state = "Uploaded"]
      BY <1>1 DEF CompleteUpload, Current
    <2>2. \A r \in Slots : /\ slots'[r].page = slots[r].page
                           /\ slots'[r].gen = slots[r].gen
                           /\ slots'[r].users = slots[r].users
      BY <2>1 DEF CoreInv, TypeOK, VramSlot
    <2> QED
      BY <2>2, OwnersKept
  <1>2. CASE UNCHANGED slots
    BY <1>2, OwnersKept
  <1> QED
    BY <1>1, <1>2
    DEF TicketStep, StartNvmeRead, RefuseNvmeRead, CompleteNvmeRead, StartUpload,
        CancelTicket, Current

\* release_compute ends the use of the slot its lease names.
LEMMA EndUseRefines ==
    ASSUME CoreInv, NEW lease \in held, ReleaseCompute(lease)
    PROVE  [Ownership!Next]_(Ownership!svars)
  <1> DEFINE s == lease.slot
  <1>1. s \in Slots /\ lease.page \in Pages /\ slots[s].page = lease.page /\ slots[s].state = "InUse"
    BY HeldLease
  <1>2. slots[s].users = 1
    BY <1>1, OwnedSlot
  <1>3. slots' = [slots EXCEPT ![s].users = @ - 1,
                               ![s].state = IF slots[s].users = 1 THEN "ComputeReady" ELSE @]
    BY DEF ReleaseCompute
  <1>4. /\ slots'[s].page = slots[s].page /\ slots'[s].gen = slots[s].gen
        /\ slots'[s].users = 0
        /\ \A r \in Slots : r # s => slots'[r] = slots[r]
    BY <1>1, <1>2, <1>3 DEF CoreInv, TypeOK, VramSlot
  <1>5. \A r \in Slots : OwnerOf(r)' = OwnerOf(r)
    BY <1>4 DEF OwnerOf
  <1>6. {r \in Slots : slots[r].users > 0}' = {r \in Slots : slots[r].users > 0} \ {s}
    BY <1>1, <1>4
  <1>7. Ownership!EndUse(s)
    BY <1>1, <1>2, <1>5, <1>6 DEF Ownership!EndUse
  <1> QED
    BY <1>1, <1>7 DEF Ownership!Next

\* Every step of the manager is a step of SlotOwnership or a stutter.
LEMMA StepRefines == CoreInv /\ [Next]_vars => [Ownership!Next]_(Ownership!svars)
  <1>1. CASE UNCHANGED vars
    <2>1. UNCHANGED slots
      BY <1>1 DEF vars
    <2> QED
      BY <2>1, OwnersKept
  <1> QED
    BY <1>1, PageRefines, SlotRefines, TicketRefines, EndUseRefines DEF Next

\* The manager implements SlotOwnership: through reservations, uploads,
\* evictions, leases, generation changes and failed calls a slot changes hands
\* only through empty, and never while in use.
THEOREM ManagerImplementsOwnership == Spec => ImplementsOwnership
  BY InitRefines, StepRefines, CoreInvariance, PTL
  DEF Spec, ImplementsOwnership, Ownership!Spec

\* The body of StaleAnswerChangesNothing for one ticket.
StaleAnswerIgnored(t) ==
    tickets[t].status = "Running" /\ tickets'[t].status = "Completed" =>
        \/ tickets[t].gen = gen[tickets[t].page]
        \/ UNCHANGED <<record, slots, bytes>>

-----------------------------------------------------------------------------
(* Late answers                                                             *)

\* A ticket goes from Running to Completed only in complete_nvme_read or
\* complete_upload for that ticket.
LEMMA OnlyAnswersComplete ==
    ASSUME CoreInv, Next, NEW t \in TicketId,
           tickets[t].status = "Running", tickets'[t].status = "Completed"
    PROVE  CompleteNvmeRead(t) \/ \E s \in Slots : CompleteUpload(t, s)
  <1>1. ASSUME NEW u \in TicketId, NEW status \in TransferStatus \ {"Completed"}, Mark(u, status)
        PROVE  FALSE
    BY <1>1 DEF Mark, CoreInv, TypeOK, TransferTicket
  <1>2. ASSUME NEW p \in Pages, NEW kind \in TransferKind, NEW ok \in BOOLEAN,
               NewTicket(p, kind, ok)
        PROVE  FALSE
    BY <1>2 DEF NewTicket, CoreInv, TypeOK, FreshTickets, NoTicket
  <1>3. ASSUME UNCHANGED tickets PROVE FALSE
    BY <1>3
  <1>4. ASSUME NEW p \in Pages, PageStep(p) PROVE FALSE
    <2>0. "NvmeRead" \in TransferKind /\ Legal(p, "NvmeReadQueued") \in BOOLEAN
      BY DEF TransferKind, Legal, LegalTransition
    <2>1. CASE QueueNvmeRead(p)
      BY <1>2, <2>0, <2>1 DEF QueueNvmeRead
    <2>2. CASE \E g \in Generation : AdvanceGeneration(p, g)
      BY <1>3, <2>2 DEF AdvanceGeneration, transfer
    <2>3. CASE ReserveVram(p)
      BY <1>3, <2>3 DEF ReserveVram, transfer
    <2>4. CASE Register(p) \/ PublishRamPageable(p) \/ PromotePageableToPinned(p)
               \/ EvictPageableRam(p) \/ EvictRam(p)
      BY <1>3, <2>4 DEF Register, PublishRamPageable, PromotePageableToPinned,
                        EvictPageableRam, EvictRam, transfer
    <2> QED
      BY <1>4, <2>1, <2>2, <2>3, <2>4 DEF PageStep
  <1>5. ASSUME NEW p \in Pages, NEW s \in Slots, SlotStep(p, s) PROVE FALSE
    <2>1. CASE QueueUpload(p, s)
      BY <1>2, <2>1 DEF QueueUpload, TransferKind, Legal, LegalTransition
    <2> QED
      BY <1>3, <1>5, <2>1
      DEF SlotStep, MarkComputeReady, AcquireCompute, EvictVram, transfer
  <1>6. CASE \E lease \in held : ReleaseCompute(lease)
    BY <1>3, <1>6 DEF ReleaseCompute, transfer
  <1>7. ASSUME NEW u \in TicketId, TicketStep(u)
        PROVE  CompleteNvmeRead(t) \/ \E s \in Slots : CompleteUpload(t, s)
    <2>1. ~StartNvmeRead(u) /\ ~RefuseNvmeRead(u) /\ ~StartUpload(u) /\ ~CancelTicket(u)
      BY <1>1
      DEF StartNvmeRead, RefuseNvmeRead, StartUpload, CancelTicket, TransferStatus,
          Current
    <2>2. ASSUME CompleteNvmeRead(u) \/ \E s \in Slots : CompleteUpload(u, s) PROVE u = t
      BY <2>2 DEF CompleteNvmeRead, CompleteUpload, Mark, CoreInv, TypeOK, Current
    <2> QED
      BY <1>7, <2>1, <2>2 DEF TicketStep
  <1> QED
    BY <1>4, <1>5, <1>6, <1>7 DEF Next

\* An answer for an older generation than the page has now changes no record,
\* slot or byte counter.
THEOREM StaleAnswersChangeNothing == Spec => StaleAnswerChangesNothing
  <1>1. ASSUME CoreInv, Next, NEW t \in TicketId PROVE StaleAnswerIgnored(t)
    <2> SUFFICES ASSUME tickets[t].status = "Running", tickets'[t].status = "Completed",
                        tickets[t].gen # gen[tickets[t].page]
                 PROVE  UNCHANGED <<record, slots, bytes>>
      BY DEF StaleAnswerIgnored
    <2>1. CompleteNvmeRead(t)
      BY <1>1, OnlyAnswersComplete DEF CompleteUpload, Current
    <2> QED
      BY <2>1 DEF CompleteNvmeRead, record, bytes, Current
  <1>2. ASSUME UNCHANGED vars, NEW t \in TicketId PROVE StaleAnswerIgnored(t)
    BY <1>2 DEF StaleAnswerIgnored, vars, transfer
  <1>3. CoreInv /\ [Next]_vars => [\A t \in TicketId :
           tickets[t].status = "Running" /\ tickets'[t].status = "Completed" =>
               \/ tickets[t].gen = gen[tickets[t].page]
               \/ UNCHANGED <<record, slots, bytes>>]_vars
    BY <1>1, <1>2 DEF StaleAnswerIgnored
  <1> QED
    BY <1>3, CoreInvariance, PTL DEF Spec, StaleAnswerChangesNothing

-----------------------------------------------------------------------------
(* Budgets: sums over the pages held                                        *)

\* The bytes of any set of pages are a sum of counts over a finite set.
LEMMA BytesFinite ==
    ASSUME NEW S \in SUBSET Pages
    PROVE  IsFiniteSet(S) /\ Counts(PageBytes, S) /\ BytesOf(S) \in Nat
  <1>1. IsFiniteSet(S)
    BY FinitePages, FS_Subset
  <1>2. Counts(PageBytes, S)
    BY PageBytesType DEF Counts
  <1> QED
    BY <1>1, <1>2, SumType DEF BytesOf

\* A page more or less is its bytes more or less.
LEMMA BytesOfOne ==
    ASSUME NEW S \in SUBSET Pages, NEW p \in Pages
    PROVE  /\ BytesOf(S \cup {p}) = BytesOf(S) + (IF p \in S THEN 0 ELSE PageBytes[p])
           /\ BytesOf(S \ {p}) = BytesOf(S) - (IF p \in S THEN PageBytes[p] ELSE 0)
  <1>1. CASE p \in S
    <2>1. S \cup {p} = S
      BY <1>1
    <2>2. SumFunctionOnSet(PageBytes, S) = PageBytes[p] + SumFunctionOnSet(PageBytes, S \ {p})
      BY <1>1, BytesFinite, SumSplit
    <2>3. BytesOf(S) = PageBytes[p] + BytesOf(S \ {p})
      BY <2>2 DEF BytesOf
    <2>4. BytesOf(S) \in Nat /\ BytesOf(S \ {p}) \in Nat /\ PageBytes[p] \in Nat
      BY BytesFinite, PageBytesType
    <2>5. BytesOf(S \ {p}) = BytesOf(S) - PageBytes[p] /\ BytesOf(S) + 0 = BytesOf(S)
      BY <2>3, <2>4
    <2> QED
      BY <1>1, <2>1, <2>5
  <1>2. CASE p \notin S
    <2>1. S \ {p} = S
      BY <1>2
    <2>2. Counts(PageBytes, S \cup {p}) /\ IsFiniteSet(S)
      BY BytesFinite
    <2>3. SumFunctionOnSet(PageBytes, S \cup {p}) = SumFunctionOnSet(PageBytes, S) + PageBytes[p]
      BY <1>2, <2>2, SumAdd
    <2>4. BytesOf(S) \in Nat /\ BytesOf(S \cup {p}) = BytesOf(S) + PageBytes[p]
      BY <2>3, BytesFinite DEF BytesOf
    <2>5. BytesOf(S) - 0 = BytesOf(S)
      BY <2>4
    <2> QED
      BY <1>2, <2>1, <2>4, <2>5
  <1> QED
    BY <1>1, <1>2

\* Parts that do not overlap sum to no more than the whole.
LEMMA BytesOfParts ==
    ASSUME NEW S \in SUBSET Pages, NEW T \in SUBSET S
    PROVE  /\ BytesOf(T) <= BytesOf(S)
           /\ BytesOf(S) = BytesOf(T) + BytesOf(S \ T)
  BY BytesFinite, SumMonotone, SumUnion DEF BytesOf

-----------------------------------------------------------------------------
(* The invariant of the budgets, on top of CoreInv                             *)

InPageable == {p \in Pages : Has(pageable[p])}
InVram     == {p \in Pages : HasVram(p)}

QueuesWithinCapacity == nvmeDepth <= NvmeCap /\ transferDepth <= TransferCap
LeasesCounted == ComputeDepthCountsLeases /\ IsFiniteSet(held)

\* What needs nothing of the callers, and what needs CoreInv.
CounterInv == PageableWithinBudget /\ LeasesCounted /\ QueuesWithinCapacity
BudgetInv  == CounterInv /\ VramUsageNotUnderstated

\* publish_ram_pageable, promote, evict_pageable_ram and advance_generation
\* move the counter of pageable RAM with the replicas, or leave it too high.
LEMMA PageableStep ==
    ASSUME CoreInv, PageableWithinBudget, Next
    PROVE  PageableWithinBudget'
  <1> DEFINE used == BytesOf(InPageable)
  <1>0. /\ used \in Nat /\ used <= pageableUsed /\ pageableUsed <= PageableBudget
        /\ pageableUsed \in Nat /\ PageableBudget \in Nat
        /\ pageable \in [Pages -> Replica]
    <2>1. InPageable \in SUBSET Pages
      BY DEF InPageable
    <2> QED
      BY <2>1, BytesFinite, BudgetAssumption DEF PageableWithinBudget, CoreInv, TypeOK, InPageable
  <1> SUFFICES BytesOf(InPageable') <= pageableUsed' /\ pageableUsed' <= PageableBudget
    BY DEF PageableWithinBudget, InPageable
  <1>1. CASE UNCHANGED <<pageable, pageableUsed>>
    BY <1>0, <1>1 DEF InPageable
  <1>2. ASSUME NEW p \in Pages, InPageable' = InPageable \ {p},
               pageableUsed' \in {pageableUsed, Monus(pageableUsed, PageBytes[p])},
               pageableUsed' = pageableUsed \/ p \in InPageable
        PROVE  BytesOf(InPageable') <= pageableUsed' /\ pageableUsed' <= PageableBudget
    <2>1. InPageable \in SUBSET Pages /\ PageBytes[p] \in Nat
      BY PageBytesType DEF InPageable
    <2>2. BytesOf(InPageable \ {p}) = used - (IF p \in InPageable THEN PageBytes[p] ELSE 0)
      BY <2>1, BytesOfOne
    <2>3. BytesOf(InPageable \ {p}) \in Nat
      BY <2>1, BytesFinite
    <2> HIDE DEF used
    <2> QED
      BY <1>0, <1>2, <2>1, <2>2, <2>3 DEF Monus
  <1>3. ASSUME NEW p \in Pages, PublishRamPageable(p)
        PROVE  BytesOf(InPageable') <= pageableUsed' /\ pageableUsed' <= PageableBudget
    <2>1. CASE Has(pageable[p])
      BY <1>1, <1>3, <2>1 DEF PublishRamPageable
    <2>2. CASE ~Has(pageable[p])
      <3>1. InPageable' = InPageable \cup {p}
        BY <1>0, <1>3, <2>2 DEF PublishRamPageable, InPageable, Has, NoGen, CoreInv, TypeOK, Generation
      <3>2. InPageable \in SUBSET Pages /\ PageBytes[p] \in Nat /\ p \notin InPageable
        BY <2>2, PageBytesType DEF InPageable
      <3>3. BytesOf(InPageable \cup {p}) = used + PageBytes[p]
        BY <3>2, BytesOfOne
      <3>4. pageableUsed' = pageableUsed + PageBytes[p] /\ pageableUsed' <= PageableBudget
        BY <1>3, <2>2 DEF PublishRamPageable, Fits
      <3> HIDE DEF used
      <3> QED
        BY <1>0, <3>1, <3>2, <3>3, <3>4
    <2> QED
      BY <2>1, <2>2
  <1>4. ASSUME NEW p \in Pages, PromotePageableToPinned(p)
        PROVE  BytesOf(InPageable') <= pageableUsed' /\ pageableUsed' <= PageableBudget
    <2>1. InPageable' = InPageable \ {p} /\ p \in InPageable
      BY <1>0, <1>4 DEF PromotePageableToPinned, InPageable, Has, NoGen
    <2>2. pageableUsed' = Monus(pageableUsed, PageBytes[p])
      BY <1>4 DEF PromotePageableToPinned
    <2> QED
      BY <1>2, <2>1, <2>2
  <1>5. ASSUME NEW p \in Pages, EvictPageableRam(p)
        PROVE  BytesOf(InPageable') <= pageableUsed' /\ pageableUsed' <= PageableBudget
    <2>1. InPageable' = InPageable \ {p} /\ p \in InPageable
      BY <1>0, <1>5 DEF EvictPageableRam, InPageable, Has, NoGen
    <2>2. pageableUsed' \in {pageableUsed, Monus(pageableUsed, PageBytes[p])}
      BY <1>5 DEF EvictPageableRam
    <2> QED
      BY <1>2, <2>1, <2>2
  <1>6. ASSUME NEW p \in Pages, NEW g \in Generation, AdvanceGeneration(p, g)
        PROVE  BytesOf(InPageable') <= pageableUsed' /\ pageableUsed' <= PageableBudget
    <2>1. \/ UNCHANGED <<pageable, pageableUsed>>
          \/ /\ pageable' = [pageable EXCEPT ![p] = NoGen]
             /\ pageableUsed' = IF Has(pageable[p]) THEN Monus(pageableUsed, PageBytes[p])
                                ELSE pageableUsed
      BY <1>6 DEF AdvanceGeneration
    <2>2. ASSUME pageable' = [pageable EXCEPT ![p] = NoGen]
          PROVE  InPageable' = InPageable \ {p}
      BY <1>0, <2>2 DEF InPageable, Has, NoGen
    <2>3. p \in InPageable <=> Has(pageable[p])
      BY DEF InPageable
    <2> QED
      BY <1>1, <1>2, <2>1, <2>2, <2>3
  <1>7. ASSUME NEW p \in Pages, PageStep(p)
        PROVE  BytesOf(InPageable') <= pageableUsed' /\ pageableUsed' <= PageableBudget
    <2>1. CASE Register(p) \/ EvictRam(p) \/ QueueNvmeRead(p) \/ ReserveVram(p)
      BY <1>1, <2>1 DEF Register, EvictRam, QueueNvmeRead, ReserveVram, bytes
    <2> QED
      BY <1>3, <1>4, <1>5, <1>6, <1>7, <2>1 DEF PageStep
  <1>8. ASSUME NEW p \in Pages, NEW s \in Slots, SlotStep(p, s)
        PROVE  UNCHANGED <<pageable, pageableUsed>>
    BY <1>8 DEF SlotStep, QueueUpload, MarkComputeReady, AcquireCompute, EvictVram, bytes
  <1>9. ASSUME NEW t \in TicketId, TicketStep(t)
        PROVE  UNCHANGED <<pageable, pageableUsed>>
    BY <1>9 DEF TicketStep, StartNvmeRead, RefuseNvmeRead, CompleteNvmeRead, StartUpload,
                CompleteUpload, CancelTicket, bytes, record
  <1>10. ASSUME NEW l \in held, ReleaseCompute(l)
         PROVE  UNCHANGED <<pageable, pageableUsed>>
    BY <1>10 DEF ReleaseCompute, bytes
  <1> QED
    BY <1>1, <1>7, <1>8, <1>9, <1>10 DEF Next

\* The generation counter of vram_slot_used: an upload that completes and an
\* eviction from VRAM move it with the replica; a generation change leaves it
\* too high.
LEMMA VramStep ==
    ASSUME IInv, VramUsageNotUnderstated, Next
    PROVE  VramUsageNotUnderstated'
  <1> DEFINE used == BytesOf(InVram)
  <1>0. /\ used \in Nat /\ used <= vramUsed /\ vramUsed \in Nat
        /\ vram \in [Pages -> [Slots -> Replica]] /\ InVram \in SUBSET Pages
    <2>1. InVram \in SUBSET Pages
      BY DEF InVram
    <2> QED
      BY <2>1, BytesFinite DEF VramUsageNotUnderstated, IInv, TypeOK, InVram
  <1> SUFFICES BytesOf(InVram') <= vramUsed'
    BY DEF VramUsageNotUnderstated, InVram
  <1>1. CASE UNCHANGED <<vram, vramUsed>>
    BY <1>0, <1>1 DEF InVram, HasVram
  <1>2. ASSUME NEW p \in Pages, NEW g \in Generation, AdvanceGeneration(p, g)
        PROVE  BytesOf(InVram') <= vramUsed'
    <2>1. vramUsed' = vramUsed
      BY <1>2 DEF AdvanceGeneration
    <2>2. UNCHANGED vram \/ vram' = [vram EXCEPT ![p] = [s \in Slots |-> NoGen]]
      BY <1>2 DEF AdvanceGeneration
    <2>3. InVram' \subseteq InVram
      BY <1>0, <2>2 DEF InVram, HasVram, Has
    <2>4. BytesOf(InVram') <= used /\ BytesOf(InVram') \in Nat
      BY <1>0, <2>3, BytesFinite, BytesOfParts
    <2> HIDE DEF used
    <2> QED
      BY <1>0, <2>1, <2>4
  <1>3. ASSUME NEW p \in Pages, NEW s \in Slots, EvictVram(p, s)
        PROVE  BytesOf(InVram') <= vramUsed'
    <2>1. CASE ~(Identifies(s, p) /\ Evictable(s))
      BY <1>1, <1>3, <2>1 DEF EvictVram
    <2>2. CASE Identifies(s, p) /\ Evictable(s)
      <3>1. /\ vram' = [vram EXCEPT ![p][s] = NoGen]
            /\ vramUsed' = Monus(vramUsed, PageBytes[p])
            /\ Has(vram[p][s])
        BY <1>3, <2>2 DEF EvictVram
      <3>2. \A r \in Slots : r # s => ~Has(vram[p][r])
        BY <2>2, PagesAssumption DEF IInv, ReplicasAgree, OneSlotPerPage, Identifies
      <3>3. InVram' = InVram \ {p} /\ p \in InVram
        BY <1>0, <3>1, <3>2 DEF InVram, HasVram, Has
      <3>4. BytesOf(InVram \ {p}) = used - PageBytes[p] /\ BytesOf(InVram \ {p}) \in Nat
        BY <1>0, <3>3, BytesOfOne, BytesFinite
      <3>5. PageBytes[p] \in Nat
        BY PageBytesType
      <3> HIDE DEF used
      <3> QED
        BY <1>0, <3>1, <3>3, <3>4, <3>5 DEF Monus
    <2> QED
      BY <2>1, <2>2
  <1>4. ASSUME NEW t \in TicketId, NEW s \in Slots, CompleteUpload(t, s)
        PROVE  BytesOf(InVram') <= vramUsed'
    <2> DEFINE p == tickets[t].page
    <2>1. CASE ~CanFirstByte(tickets[t].status)
      BY <1>1, <1>4, <2>1 DEF CompleteUpload
    <2>2. CASE CanFirstByte(tickets[t].status)
      <3>1. p \in Pages /\ tickets[t].gen \in Generation /\ gen[p] \in Generation
        BY <1>4 DEF CompleteUpload, Known, Current, IInv, TypeOK, TransferTicket, IssuedTickets
      <3>2. slots[s].state = "Uploading" /\ slots[s].ticket = t
        BY <1>4 DEF CompleteUpload
      <3>3. state[p] = "VramUploading"
        BY <2>2, <3>2 DEF IInv, UploadTickets, CanFirstByte
      <3>4. Legal(p, "Uploaded")
        BY <3>3 DEF Legal, LegalTransition, Successors
      <3>5. /\ vram' = [vram EXCEPT ![p][s] = tickets[t].gen]
            /\ vramUsed' = vramUsed + PageBytes[p]
        BY <1>4, <2>2, <3>4 DEF CompleteUpload
      <3>6. InVram' = InVram \cup {p}
        BY <1>0, <3>1, <3>5 DEF InVram, HasVram, Has, NoGen, Generation
      <3>7. /\ BytesOf(InVram \cup {p}) \in {used, used + PageBytes[p]}
            /\ PageBytes[p] \in Nat
        <4>1. BytesOf(InVram \cup {p}) = used + (IF p \in InVram THEN 0 ELSE PageBytes[p])
          BY <1>0, <3>1, BytesOfOne
        <4>2. PageBytes[p] \in Nat
          BY <3>1, PageBytesType
        <4> HIDE DEF used
        <4> QED
          BY <1>0, <4>1, <4>2
      <3> HIDE DEF used, p
      <3> QED
        BY <1>0, <3>5, <3>6, <3>7
    <2> QED
      BY <2>1, <2>2
  <1>5. ASSUME NEW p \in Pages, PageStep(p)
        PROVE  BytesOf(InVram') <= vramUsed'
    <2>1. ASSUME Register(p) \/ PublishRamPageable(p) \/ PromotePageableToPinned(p)
                 \/ EvictPageableRam(p) \/ EvictRam(p) \/ QueueNvmeRead(p) \/ ReserveVram(p)
          PROVE  UNCHANGED <<vram, vramUsed>>
      BY <2>1 DEF Register, PublishRamPageable, PromotePageableToPinned, EvictPageableRam,
                  EvictRam, QueueNvmeRead, ReserveVram, bytes
    <2> QED
      BY <1>1, <1>2, <1>5, <2>1 DEF PageStep
  <1>6. ASSUME NEW p \in Pages, NEW s \in Slots, SlotStep(p, s)
        PROVE  BytesOf(InVram') <= vramUsed'
    <2>1. ASSUME QueueUpload(p, s) \/ MarkComputeReady(p, s) \/ AcquireCompute(p, s)
          PROVE  UNCHANGED <<vram, vramUsed>>
      BY <2>1 DEF QueueUpload, MarkComputeReady, AcquireCompute, bytes
    <2> QED
      BY <1>1, <1>3, <1>6, <2>1 DEF SlotStep
  <1>7. ASSUME NEW t \in TicketId, TicketStep(t)
        PROVE  BytesOf(InVram') <= vramUsed'
    <2>1. ASSUME StartNvmeRead(t) \/ RefuseNvmeRead(t) \/ CompleteNvmeRead(t) \/ StartUpload(t)
                 \/ CancelTicket(t)
          PROVE  UNCHANGED <<vram, vramUsed>>
      BY <2>1 DEF StartNvmeRead, RefuseNvmeRead, CompleteNvmeRead, StartUpload, CancelTicket,
                  bytes, record
    <2> QED
      BY <1>1, <1>4, <1>7, <2>1 DEF TicketStep
  <1>8. ASSUME NEW l \in held, ReleaseCompute(l)
        PROVE  UNCHANGED <<vram, vramUsed>>
    BY <1>8 DEF ReleaseCompute, bytes
  <1> QED
    BY <1>1, <1>5, <1>6, <1>7, <1>8 DEF Next

\* acquire_compute counts the lease it returns, release_compute the one it
\* takes back, and nothing else moves the compute queue.
LEMMA LeasesCountedStep ==
    ASSUME CoreInv, LeasesCounted, Next
    PROVE  LeasesCounted'
  <1> USE DEF LeasesCounted, ComputeDepthCountsLeases
  <1>0. /\ computeDepth = Cardinality(held) /\ IsFiniteSet(held)
        /\ computeDepth <= ComputeCap /\ computeDepth \in Nat /\ ComputeCap \in Nat
    BY BudgetAssumption DEF CoreInv, TypeOK
  <1>1. CASE UNCHANGED <<held, computeDepth>>
    BY <1>0, <1>1
  <1>2. ASSUME NEW p \in Pages, NEW s \in Slots, AcquireCompute(p, s)
        PROVE  LeasesCounted'
    <2> DEFINE lease == [id |-> nextLease, page |-> p, slot |-> s, gen |-> gen[p]]
    <2>1. CASE ~Legal(p, "InUse")
      BY <1>1, <1>2, <2>1 DEF AcquireCompute, Take
    <2>2. CASE Legal(p, "InUse")
      <3>1. /\ held' = held \cup {lease} /\ computeDepth' = computeDepth + 1
            /\ computeDepth < ComputeCap /\ slots[s].state = "ComputeReady"
        BY <1>2, <2>2 DEF AcquireCompute, Take
      <3>2. lease \notin held
        <4>1. ASSUME lease \in held PROVE FALSE
          <5>1. lease \in leases[lease.page]
            BY <4>1 DEF CoreInv, LeasesKept
          <5>2. lease.page = p /\ lease.slot = s
            OBVIOUS
          <5> HIDE DEF lease
          <5>3. lease \in leases[p]
            BY <5>1, <5>2
          <5>4. slots[lease.slot].state = "InUse"
            BY <5>3 DEF CoreInv, LeasesKept
          <5> QED
            BY <3>1, <5>2, <5>4
        <4> QED
          BY <4>1
      <3> HIDE DEF lease
      <3>3. IsFiniteSet(held') /\ Cardinality(held') = Cardinality(held) + 1
        BY <1>0, <3>1, <3>2, FS_AddElement
      <3> QED
        BY <1>0, <3>1, <3>3
    <2> QED
      BY <2>1, <2>2
  <1>3. ASSUME NEW l \in held, ReleaseCompute(l)
        PROVE  LeasesCounted'
    <2>1. state[l.page] = "InUse"
      BY <1>3 DEF CoreInv, LeasesKept
    <2>2. Legal(l.page, "ComputeReady")
      BY <2>1 DEF Legal, LegalTransition, Successors
    <2>3. held' = held \ {l} /\ computeDepth' = Monus(computeDepth, 1)
      BY <1>3, <2>2 DEF ReleaseCompute
    <2>4. IsFiniteSet(held') /\ Cardinality(held') = Cardinality(held) - 1
      BY <1>0, <1>3, <2>3, FS_RemoveElement
    <2>5. held # {}
      BY <1>3
    <2>6. computeDepth # 0
      BY <1>0, <2>5, FS_EmptySet
    <2> QED
      BY <1>0, <2>3, <2>4, <2>6 DEF Monus
  <1>4. ASSUME NEW p \in Pages, PageStep(p)
        PROVE  UNCHANGED <<held, computeDepth>>
    BY <1>4 DEF PageStep, Register, PublishRamPageable, PromotePageableToPinned,
                EvictPageableRam, EvictRam, QueueNvmeRead, ReserveVram, AdvanceGeneration,
                compute, depths
  <1>5. ASSUME NEW p \in Pages, NEW s \in Slots, SlotStep(p, s)
        PROVE  LeasesCounted'
    <2>1. ASSUME QueueUpload(p, s) \/ MarkComputeReady(p, s) \/ EvictVram(p, s)
          PROVE  UNCHANGED <<held, computeDepth>>
      BY <2>1 DEF QueueUpload, MarkComputeReady, EvictVram, compute, depths
    <2> QED
      BY <1>1, <1>2, <1>5, <2>1 DEF SlotStep
  <1>6. ASSUME NEW t \in TicketId, TicketStep(t)
        PROVE  UNCHANGED <<held, computeDepth>>
    BY <1>6 DEF TicketStep, StartNvmeRead, RefuseNvmeRead, CompleteNvmeRead, StartUpload,
                CompleteUpload, CancelTicket, compute, depths
  <1> QED
    BY <1>1, <1>3, <1>4, <1>5, <1>6 DEF Next

\* A queue takes a position only below its capacity.
LEMMA QueuesStep ==
    ASSUME CoreInv, QueuesWithinCapacity, Next
    PROVE  QueuesWithinCapacity'
  <1> DEFINE Moves(depth, next, cap) ==
               \/ next \in {depth, Monus(depth, 1)}
               \/ next = depth + 1 /\ depth < cap
  <1>0. /\ nvmeDepth \in Nat /\ transferDepth \in Nat
        /\ NvmeCap \in Nat /\ TransferCap \in Nat
    BY BudgetAssumption DEF CoreInv, TypeOK
  <1>1. ASSUME NEW p \in Pages, PageStep(p)
        PROVE  Moves(nvmeDepth, nvmeDepth', NvmeCap) /\ transferDepth' = transferDepth
    <2>1. CASE QueueNvmeRead(p)
      BY <2>1 DEF QueueNvmeRead, Take
    <2>2. CASE \E g \in Generation : AdvanceGeneration(p, g)
      BY <2>2 DEF AdvanceGeneration, depths
    <2>3. CASE \/ Register(p) \/ PublishRamPageable(p) \/ PromotePageableToPinned(p)
               \/ EvictPageableRam(p) \/ EvictRam(p) \/ ReserveVram(p)
      BY <2>3 DEF Register, PublishRamPageable, PromotePageableToPinned, EvictPageableRam,
                  EvictRam, ReserveVram, depths
    <2> QED
      BY <1>1, <2>1, <2>2, <2>3 DEF PageStep
  <1>2. ASSUME NEW p \in Pages, NEW s \in Slots, SlotStep(p, s)
        PROVE  nvmeDepth' = nvmeDepth /\ Moves(transferDepth, transferDepth', TransferCap)
    <2>1. CASE QueueUpload(p, s)
      BY <2>1 DEF QueueUpload, Take
    <2>2. CASE MarkComputeReady(p, s) \/ AcquireCompute(p, s) \/ EvictVram(p, s)
      BY <2>2 DEF MarkComputeReady, AcquireCompute, EvictVram, depths
    <2> QED
      BY <1>2, <2>1, <2>2 DEF SlotStep
  <1>3. ASSUME NEW t \in TicketId, TicketStep(t)
        PROVE  /\ Moves(nvmeDepth, nvmeDepth', NvmeCap)
               /\ Moves(transferDepth, transferDepth', TransferCap)
    <2>1. CASE CompleteNvmeRead(t)
      BY <2>1 DEF CompleteNvmeRead, depths
    <2>2. CASE \E s \in Slots : CompleteUpload(t, s)
      BY <2>2 DEF CompleteUpload, depths
    <2>3. CASE CancelTicket(t)
      BY <2>3 DEF CancelTicket, depths
    <2>4. CASE StartNvmeRead(t) \/ RefuseNvmeRead(t) \/ StartUpload(t)
      BY <2>4 DEF StartNvmeRead, RefuseNvmeRead, StartUpload, depths
    <2> QED
      BY <1>3, <2>1, <2>2, <2>3, <2>4 DEF TicketStep
  <1>4. ASSUME NEW l \in held, ReleaseCompute(l)
        PROVE  UNCHANGED <<nvmeDepth, transferDepth>>
    BY <1>4 DEF ReleaseCompute
  <1>5. /\ Moves(nvmeDepth, nvmeDepth', NvmeCap)
        /\ Moves(transferDepth, transferDepth', TransferCap)
    BY <1>1, <1>2, <1>3, <1>4 DEF Next
  <1> QED
    BY <1>0, <1>5 DEF QueuesWithinCapacity, Monus

LEMMA BudgetInit == Init => BudgetInv
  <1> SUFFICES ASSUME Init PROVE BudgetInv
    OBVIOUS
  <1>1. {p \in Pages : Has(pageable[p])} = {} /\ {p \in Pages : HasVram(p)} = {}
    BY DEF Init, Has, HasVram
  <1>2. BytesOf({}) = 0
    BY SumEmpty DEF BytesOf
  <1>3. PageableWithinBudget /\ VramUsageNotUnderstated
    BY <1>1, <1>2, BudgetAssumption DEF Init, PageableWithinBudget, VramUsageNotUnderstated
  <1>4. LeasesCounted
    BY FS_EmptySet, BudgetAssumption DEF Init, LeasesCounted, ComputeDepthCountsLeases
  <1>5. QueuesWithinCapacity
    BY BudgetAssumption DEF Init, QueuesWithinCapacity
  <1> QED
    BY <1>3, <1>4, <1>5 DEF BudgetInv, CounterInv

LEMMA CounterStep == CoreInv /\ CounterInv /\ [Next]_vars => CounterInv'
  <1>1. ASSUME CounterInv, UNCHANGED vars PROVE CounterInv'
    <2>1. UNCHANGED <<pageable, pageableUsed, held, computeDepth, nvmeDepth, transferDepth>>
      BY <1>1 DEF vars, record, compute, bytes, depths
    <2> QED
      BY <1>1, <2>1 DEF CounterInv, PageableWithinBudget, LeasesCounted,
                        ComputeDepthCountsLeases, QueuesWithinCapacity
  <1> QED
    BY <1>1, PageableStep, LeasesCountedStep, QueuesStep DEF CounterInv

LEMMA BudgetStep == CoreInv /\ IInv /\ BudgetInv /\ [Next]_vars => BudgetInv'
  <1>1. ASSUME BudgetInv, UNCHANGED vars PROVE VramUsageNotUnderstated'
    BY <1>1 DEF vars, record, bytes, BudgetInv, VramUsageNotUnderstated, HasVram
  <1> QED
    BY <1>1, CounterStep, VramStep DEF BudgetInv

\* Whatever the callers do, the counter of pageable RAM covers what is there and stays in
\* its budget, the compute queue counts the leases held, and no queue outgrows its capacity.
THEOREM CountersAreKept ==
    Spec => [](/\ PageableWithinBudget /\ ComputeDepthCountsLeases
               /\ nvmeDepth <= NvmeCap /\ transferDepth <= TransferCap)
  <1>1. CounterInv => /\ PageableWithinBudget /\ ComputeDepthCountsLeases
                      /\ nvmeDepth <= NvmeCap /\ transferDepth <= TransferCap
    BY DEF CounterInv, LeasesCounted, QueuesWithinCapacity
  <1>2. Init => CounterInv
    BY BudgetInit DEF BudgetInv
  <1> QED
    BY <1>1, <1>2, CoreInvariance, CounterStep, PTL DEF Spec

\* What mtp.rs estimates for a union of experts is honest in every state the
\* invariants allow.
LEMMA EstimatesFollow == ASSUME IInv, BudgetInv PROVE EstimatesHonest
  <1> SUFFICES ASSUME NEW S \in SUBSET Pages
               PROVE
                 LET e == ExpertUnionEstimate(S) IN
                 /\ \A p \in e.ready : \E s \in Slots :
                       /\ slots[s].page = p /\ slots[s].gen = gen[p]
                       /\ slots[s].state \in {"Uploaded", "ComputeReady", "InUse"}
                 /\ \A p \in e.resident \ e.ready : gen[p] \in {pageable[p], pinned[p]}
                 /\ e.nvme <= e.pcie /\ e.pcie <= e.requested
                 /\ BytesOf(e.ready) <= vramUsed
                 /\ ResourceSlack.vram + BytesOf(e.ready)
                      <= IF vramUsed < SlotCount * SlotBytes
                         THEN SlotCount * SlotBytes ELSE vramUsed
    BY DEF EstimatesHonest
  <1> DEFINE e == ExpertUnionEstimate(S)
             at(l) == {p \in S : ProjectionLocation(p) = l}
             ready == at("VRAM_SLOT")
             ram   == at("RAM_PINNED")
             cold  == at("NVME_COLD")
  <1>1. /\ e.ready = ready /\ e.resident = ready \cup ram
        /\ e.nvme = BytesOf(cold) /\ e.pcie = BytesOf(cold \cup ram)
        /\ e.requested = BytesOf(S)
    BY DEF ExpertUnionEstimate
  <1>2. /\ \A p \in ready : Ready(p)
        /\ \A p \in ram : RamReplica(p)
    BY DEF ProjectionLocation
  <1>3. ready \in SUBSET Pages /\ ram \in SUBSET Pages /\ cold \cup ram \in SUBSET S
        /\ cold \in SUBSET (cold \cup ram) /\ cold \cup ram \in SUBSET Pages
    OBVIOUS
  <1> HIDE DEF e, at
  <1>4. ASSUME NEW p \in ready
        PROVE  \E s \in Slots : /\ slots[s].page = p /\ slots[s].gen = gen[p]
                                /\ slots[s].state \in {"Uploaded", "ComputeReady", "InUse"}
    <2>1. PICK s \in Slots : Has(vram[p][s])
      BY <1>2, <1>4 DEF Ready, HasVram
    <2>2. p \in Pages
      BY <1>3, <1>4
    <2>3. vram[p][s] = gen[p]
      BY <2>1, <2>2 DEF IInv, ReplicasAgree
    <2> QED
      BY <2>1, <2>2, <2>3, SlotOfReplica
  <1>5. ASSUME NEW p \in ram PROVE gen[p] \in {pageable[p], pinned[p]}
    BY <1>2, <1>3, <1>5 DEF RamReplica, Has, IInv, ReplicasAgree
  <1>6. e.nvme <= e.pcie /\ e.pcie <= e.requested
    BY <1>1, <1>3, BytesOfParts
  <1>7. BytesOf(ready) <= vramUsed /\ BytesOf(ready) \in Nat
    <2>1. ready \in SUBSET InVram /\ InVram \in SUBSET Pages
      BY <1>2, <1>3 DEF InVram, Ready
    <2>2. BytesOf(ready) <= BytesOf(InVram)
      BY <2>1, BytesOfParts
    <2>3. BytesOf(InVram) <= vramUsed
      BY DEF BudgetInv, VramUsageNotUnderstated, InVram
    <2>4. BytesOf(ready) \in Nat /\ BytesOf(InVram) \in Nat /\ vramUsed \in Nat
      BY <1>3, <2>1, BytesFinite DEF IInv, TypeOK
    <2> QED
      BY <2>2, <2>3, <2>4
  <1>8. ResourceSlack.vram + BytesOf(ready)
          <= IF vramUsed < SlotCount * SlotBytes THEN SlotCount * SlotBytes ELSE vramUsed
    <2> DEFINE cap == SlotCount * SlotBytes
    <2>1. cap \in Nat /\ vramUsed \in Nat
      BY SlotsAssumption DEF IInv, TypeOK
    <2>2. ResourceSlack.vram = IF cap > vramUsed THEN cap - vramUsed ELSE 0
      <3>1. ResourceSlack.vram = Spare(cap, vramUsed)
        BY DEF ResourceSlack
      <3> QED
        BY <2>1, <3>1 DEF Spare, Monus
    <2> DEFINE slack == ResourceSlack.vram
               own == BytesOf(ready)
    <2>3. slack = (IF cap > vramUsed THEN cap - vramUsed ELSE 0)
      BY <2>2
    <2>4. own \in Nat /\ own <= vramUsed
      BY <1>7
    <2> HIDE DEF cap, slack, own
    <2>5. slack + own <= IF vramUsed < cap THEN cap ELSE vramUsed
      <3>1. CASE cap > vramUsed
        <4>1. slack + own <= cap /\ vramUsed < cap
          BY <2>1, <2>3, <2>4, <3>1
        <4> QED
          BY <4>1
      <3>2. CASE ~(cap > vramUsed)
        <4>1. slack + own <= vramUsed /\ ~(vramUsed < cap)
          BY <2>1, <2>3, <2>4, <3>2
        <4> QED
          BY <4>1
      <3> QED
        BY <3>1, <3>2
    <2> QED
      BY <2>5 DEF cap, slack, own
  <1> QED
    BY <1>1, <1>4, <1>5, <1>6, <1>7, <1>8 DEF e

\* The views of mtp.rs are honest in the same states.
LEMMA ViewsFollow == ASSUME IInv, BudgetInv PROVE ViewsHonest
  <1>1. ASSUME NEW p \in Pages, Registered(p),
               NEW view, view = [gen |-> gen[p], state |-> state[p],
                                 locations |-> Locations(p), bytes |-> PageBytes[p]]
        PROVE  /\ \A s \in Slots : <<"VRAM_SLOT", s>> \in view.locations =>
                     slots[s].page = p /\ slots[s].gen = view.gen
               /\ <<"RAM_PAGEABLE">> \in view.locations => pageable[p] = view.gen
               /\ <<"RAM_PINNED">> \in view.locations => pinned[p] = view.gen
               /\ view.state = "RamReady" =>
                     view.locations \cap {<<"RAM_PAGEABLE">>, <<"RAM_PINNED">>} # {}
               /\ view.state \in {"Uploaded", "ComputeReady", "InUse"} =>
                     \E s \in Slots : <<"VRAM_SLOT", s>> \in view.locations
    <2>0. view.gen = gen[p] /\ view.state = state[p] /\ view.locations = Locations(p)
      BY <1>1
    <2>1. \A s \in Slots : <<"VRAM_SLOT", s>> \in Locations(p) <=> Has(vram[p][s])
      BY DEF Locations
    <2>2. /\ <<"RAM_PAGEABLE">> \in Locations(p) <=> Has(pageable[p])
          /\ <<"RAM_PINNED">> \in Locations(p) <=> Has(pinned[p])
      BY DEF Locations
    <2>3. \A s \in Slots : Has(vram[p][s]) => slots[s].page = p /\ slots[s].gen = gen[p]
      BY SlotOfReplica DEF IInv, ReplicasAgree
    <2>4. /\ Has(pageable[p]) => pageable[p] = gen[p]
          /\ Has(pinned[p]) => pinned[p] = gen[p]
          /\ state[p] = "RamReady" => Has(pageable[p]) \/ Has(pinned[p])
          /\ state[p] \in {"Uploaded", "ComputeReady", "InUse"} =>
                \E s \in Slots : Has(vram[p][s])
      BY DEF IInv, ReplicasAgree, RamRetained, SlotlessState, VramState, Has, HasVram
    <2> QED
      BY <2>0, <2>1, <2>2, <2>3, <2>4
  <1>2. \A p \in DOMAIN ResidencySnapshot :
           /\ p \in Pages /\ Registered(p)
           /\ ResidencySnapshot[p] = [gen |-> gen[p], state |-> state[p],
                                      locations |-> Locations(p), bytes |-> PageBytes[p]]
    BY DEF ResidencySnapshot
  <1>3. ASSUME NEW cap \in Nat, NEW depth \in Nat, depth <= cap PROVE depth + Spare(cap, depth) = cap
    BY <1>3 DEF Spare, Monus
  <1>4. /\ nvmeDepth \in Nat /\ transferDepth \in Nat /\ computeDepth \in Nat
        /\ NvmeCap \in Nat /\ TransferCap \in Nat /\ ComputeCap \in Nat
        /\ nvmeDepth <= NvmeCap /\ transferDepth <= TransferCap /\ computeDepth <= ComputeCap
    BY BudgetAssumption
    DEF IInv, TypeOK, BudgetInv, CounterInv, QueuesWithinCapacity, LeasesCounted,
        ComputeDepthCountsLeases
  <1>5. /\ QueueBacklog[1] + ResourceSlack.nvme = NvmeCap
        /\ QueueBacklog[2] + ResourceSlack.transfer = TransferCap
        /\ QueueBacklog[3] + ResourceSlack.compute = ComputeCap
    <2>1. /\ QueueBacklog[1] = nvmeDepth /\ ResourceSlack.nvme = Spare(NvmeCap, nvmeDepth)
          /\ QueueBacklog[2] = transferDepth /\ ResourceSlack.transfer = Spare(TransferCap, transferDepth)
          /\ QueueBacklog[3] = computeDepth /\ ResourceSlack.compute = Spare(ComputeCap, computeDepth)
      BY DEF QueueBacklog, ResourceSlack
    <2> QED
      BY <1>3, <1>4, <2>1
  <1> QED
    BY <1>1, <1>2, <1>5 DEF ViewsHonest

\* When callers keep the contract, no call, failed ones included, lets the counter of
\* pageable RAM, of VRAM or of compute leases fall below what is held, and what mtp.rs
\* reads of them is honest, for any number of pages of any sizes.
THEOREM BudgetsAreHonest == Contract = Clauses => (Spec => []BudgetsHold)
  <1> SUFFICES ASSUME Contract = Clauses PROVE Spec => []BudgetsHold
    OBVIOUS
  <1>1. IInv /\ BudgetInv => BudgetsHold
    BY EstimatesFollow, ViewsFollow DEF BudgetInv, CounterInv, BudgetsHold, LeasesCounted
  <1>2. Spec => []IInv
    BY Invariance
  <1> QED
    BY <1>1, <1>2, CoreInvariance, BudgetInit, BudgetStep, PTL DEF Spec
=============================================================================
