---------------------------- MODULE MtpResources ----------------------------
(***************************************************************************)
(* har-residency/src/mtp.rs: what the importer of a plan may read of the   *)
(* residency manager when it chooses a horizon for speculative decoding.   *)
(* The interface borrows the manager and changes nothing, so it is a set   *)
(* of expressions over the manager's state: a view of every record, the    *)
(* queues' backlog and slack, and what a set of expert pages would still   *)
(* cost to bring into VRAM.                                                *)
(*                                                                         *)
(* A caller reads it between two calls of the manager, in any state a      *)
(* sequence of calls, failed ones included, leaves behind.                 *)
(*                                                                         *)
(* Abstracted: the slices of the union name each page once (the code drops *)
(* repeated ordinals), and which expert of which layer a page belongs to.  *)
(***************************************************************************)
EXTENDS ResidencyManager

RamReplica(p) == Has(pageable[p]) \/ Has(pinned[p])

\* fn locations of a record: where a valid copy is, the authority included.
Locations(p) ==
    {<<"NVME_COLD">>} \cup {l \in {<<"RAM_PAGEABLE">>} : Has(pageable[p])}
                      \cup {l \in {<<"RAM_PINNED">>} : Has(pinned[p])}
                      \cup {<<"VRAM_SLOT", s>> : s \in {r \in Slots : Has(vram[p][r])}}

\* current_residency_snapshot: one view per record.
ResidencySnapshot ==
    [p \in {q \in Pages : Registered(q)} |->
        [gen |-> gen[p], state |-> state[p], locations |-> Locations(p),
         bytes |-> PageBytes[p]]]

QueueBacklog == <<nvmeDepth, transferDepth, computeDepth>>

\* The five *_slack methods of ResourceSnapshot, all saturating.
Spare(capacity, used) == Monus(capacity, used)

ResourceSlack ==
    [pinned   |-> Spare(PinnedBudget, pinnedUsed),
     vram     |-> Spare(SlotCount * SlotBytes, vramUsed),
     nvme     |-> Spare(NvmeCap, nvmeDepth),
     transfer |-> Spare(TransferCap, transferDepth),
     compute  |-> Spare(ComputeCap, computeDepth)]

\* Whether expert_union_incremental_cost counts the page as ready.  The variant
\* believes the replica and does not look at the record's state.
ReadyAnyState(p) == HasVram(p)
Ready(p) == HasVram(p) /\ state[p] \in {"Uploaded", "ComputeReady", "InUse"}

ProjectionLocation(p) ==
    CASE Ready(p)                     -> "VRAM_SLOT"
      [] ~Ready(p) /\ RamReplica(p)   -> "RAM_PINNED"
      [] OTHER                        -> "NVME_COLD"

\* expert_union_incremental_cost: pages that are not ready cross PCIe, and
\* those with no copy in RAM are read from NVMe first.
ExpertUnionEstimate(S) ==
    LET at(l) == {p \in S : ProjectionLocation(p) = l} IN
    [requested |-> BytesOf(S),
     ready     |-> at("VRAM_SLOT"),
     resident  |-> at("VRAM_SLOT") \cup at("RAM_PINNED"),
     nvme      |-> BytesOf(at("NVME_COLD")),
     pcie      |-> BytesOf(at("NVME_COLD") \cup at("RAM_PINNED"))]

\* What the estimate promises is there when it is read, whatever calls failed
\* before: a page it charges nothing for can be computed on or is one step
\* from it, in a slot that holds it at its generation; a page it charges no
\* read for has a copy of its generation in RAM or is ready; and the bytes it
\* does not charge are counted in vram_slot_used, so that what it calls ready
\* and the slack together never exceed the slots or what is used.
EstimatesHonest == \A S \in SUBSET Pages :
    LET e == ExpertUnionEstimate(S) IN
    /\ \A p \in e.ready : \E s \in Slots :
          /\ slots[s].page = p /\ slots[s].gen = gen[p]
          /\ slots[s].state \in {"Uploaded", "ComputeReady", "InUse"}
    /\ \A p \in e.resident \ e.ready : gen[p] \in {pageable[p], pinned[p]}
    /\ e.nvme <= e.pcie /\ e.pcie <= e.requested
    /\ BytesOf(e.ready) <= vramUsed
    /\ ResourceSlack.vram + BytesOf(e.ready) <= IF vramUsed < SlotCount * SlotBytes
                                               THEN SlotCount * SlotBytes ELSE vramUsed

\* What the views promise: every location is a copy of the view's generation,
\* in the slot it names, and a view that can be uploaded or computed on has
\* the copy for it; and backlog and slack of a queue make up its capacity.
ViewsHonest ==
    /\ \A p \in DOMAIN ResidencySnapshot :
          LET view == ResidencySnapshot[p] IN
          /\ \A s \in Slots : <<"VRAM_SLOT", s>> \in view.locations =>
                slots[s].page = p /\ slots[s].gen = view.gen
          /\ <<"RAM_PAGEABLE">> \in view.locations => pageable[p] = view.gen
          /\ <<"RAM_PINNED">> \in view.locations => pinned[p] = view.gen
          /\ view.state = "RamReady" =>
                view.locations \cap {<<"RAM_PAGEABLE">>, <<"RAM_PINNED">>} # {}
          /\ view.state \in {"Uploaded", "ComputeReady", "InUse"} =>
                \E s \in Slots : <<"VRAM_SLOT", s>> \in view.locations
    /\ QueueBacklog[1] + ResourceSlack.nvme = NvmeCap
    /\ QueueBacklog[2] + ResourceSlack.transfer = TransferCap
    /\ QueueBacklog[3] + ResourceSlack.compute = ComputeCap
=============================================================================
