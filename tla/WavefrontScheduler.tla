-------------------------- MODULE WavefrontScheduler --------------------------
(***************************************************************************)
(* har-residency/src/scheduler.rs: the client that takes one page at a     *)
(* time through the manager, NVMe -> pinned RAM -> VRAM -> compute.        *)
(*                                                                         *)
(* run_one is a straight line of manager calls, each followed by `?`: an   *)
(* Err returns at once and leaves the work, the record and the counters as *)
(* the calls so far left them.  Each call is a step here (run.pc); the     *)
(* scheduler is borrowed mutably for the whole run, so only when no run is *)
(* under way can its owner add works, cancel the speculative ones, start   *)
(* another run, or call the public `manager` directly.                     *)
(*                                                                         *)
(* Abstracted: the order of select (any waiting work may be run, run_one   *)
(* being public), events, digests, and the speculative byte statistics.    *)
(***************************************************************************)
EXTENDS ResidencyManager

\* enum WorkStage (Failed is never assigned) and "None" before `add`.
WorkStage == {"None", "Waiting", "NvmeRead", "RamToVram", "GpuCompute", "Done",
              "Cancelled"}
\* The flags of `add`: mandatory and speculative exclude each other.
Class == {"Mandatory", "Speculative", "Optional"}

VARIABLES
    class, stage,   \* flags and stage of the work of each page
    run,            \* the run_one under way: its next call, page, ticket, slot
    measured        \* mandatory_bytes_measured

work  == <<class, stage>>
wvars == <<vars, work, run, measured>>

Idle     == run.pc = "Idle"
NoRun    == [pc |-> "Idle", page |-> NoPage, ticket |-> 0, slot |-> 0]
At(pc)   == run.pc = pc
Cur      == run.page
Continue(pc) == run' = [run EXCEPT !.pc = pc]
Stop     == run' = NoRun
Stage(s) == stage' = [stage EXCEPT ![Cur] = s]

WInit ==
    /\ Init
    /\ class = [p \in Pages |-> "Optional"] /\ stage = [p \in Pages |-> "None"]
    /\ run = NoRun /\ measured = 0

Add(p, c) ==
    /\ Idle
    /\ Register(p)
    /\ class' = [class EXCEPT ![p] = c] /\ stage' = [stage EXCEPT ![p] = "Waiting"]
    /\ UNCHANGED <<run, measured>>

CancelSpeculative ==
    /\ Idle
    /\ stage' = [p \in Pages |-> IF class[p] = "Speculative" /\ stage[p] = "Waiting"
                                 THEN "Cancelled" ELSE stage[p]]
    /\ UNCHANGED <<vars, class, run, measured>>

\* SlackPolicy::allow under the default policy.  The variant does not wait
\* for a measured mandatory byte.
QueueSlack   == Monus(NvmeCap, nvmeDepth) >= 1 /\ Monus(TransferCap, transferDepth) >= 1
PinnedSlack(p) == Monus(PinnedBudget, pinnedUsed) >= PageBytes[p]
VramSlack(p)   == Monus(SlotCount * SlotBytes, vramUsed) >= PageBytes[p]
Slack(p)     == QueueSlack /\ PinnedSlack(p) /\ VramSlack(p)

AllowUnmeasured(p) == class[p] = "Mandatory" \/ Slack(p)
Allow(p) == class[p] = "Mandatory" \/ (measured > 0 /\ Slack(p))

\* The head of run_one: a work without slack is Cancelled for good.
Begin(p) ==
    /\ Idle /\ stage[p] = "Waiting"
    /\ IF Allow(p)
       THEN /\ run' = [NoRun EXCEPT !.pc = "QueueRead", !.page = p]
            /\ UNCHANGED stage
       ELSE /\ stage' = [stage EXCEPT ![p] = "Cancelled"]
            /\ UNCHANGED run
    /\ UNCHANGED <<vars, class, measured>>

\* queue_nvme_read(..)?
QueueRead ==
    /\ At("QueueRead")
    /\ IF nvmeDepth >= NvmeCap THEN Stop /\ UNCHANGED vars
       ELSE /\ QueueNvmeRead(Cur)
            /\ IF Legal(Cur, "NvmeReadQueued")
               THEN run' = [run EXCEPT !.pc = "StartRead", !.ticket = nextTicket]
               ELSE Stop
    /\ UNCHANGED <<work, measured>>

\* start_nvme_read(..)?
StartRead ==
    /\ At("StartRead")
    /\ StartNvmeRead(run.ticket)
    /\ Continue("Read") /\ Stage("NvmeRead")
    /\ UNCHANGED <<class, measured>>

\* The worker thread returns the bytes, or an I/O error, a short slice or one
\* with another checksum; nothing tells the manager of a failure.
\* The variant retries a failed read by starting its ticket again.
ReadRetrying(ok) ==
    /\ At("Read")
    /\ IF ok THEN Continue("CompleteRead") ELSE Continue("StartRead")
    /\ UNCHANGED <<vars, work, measured>>

Read(ok) ==
    /\ At("Read")
    /\ IF ok THEN Continue("CompleteRead") ELSE Stop
    /\ UNCHANGED <<vars, work, measured>>

\* complete_nvme_read(..)?
CompleteRead ==
    /\ At("CompleteRead")
    /\ \/ RefuseNvmeRead(run.ticket) /\ Stop /\ UNCHANGED measured
       \/ /\ CompleteNvmeRead(run.ticket)
          /\ Continue("Reserve")
          /\ measured' = measured + IF class[Cur] = "Mandatory" THEN PageBytes[Cur] ELSE 0
    /\ UNCHANGED work

\* reserve_vram(..)?: refused when every slot is taken or the page is too big.
NoRoom(p) == (\A s \in Slots : slots[s].state # "Free") \/ PageBytes[p] > SlotBytes
Reserve ==
    /\ At("Reserve")
    /\ IF NoRoom(Cur) \/ pinnedUsed > PinnedBudget THEN Stop /\ UNCHANGED vars
       ELSE /\ ReserveVram(Cur)
            /\ \E s \in Slots : /\ slots'[s].page = Cur
                                /\ run' = [run EXCEPT !.pc = "QueueUpload", !.slot = s]
    /\ UNCHANGED <<work, measured>>

\* queue_upload(..)? and start_upload(..)?
QueueUp ==
    /\ At("QueueUpload")
    /\ IF transferDepth >= TransferCap THEN Stop /\ UNCHANGED vars
       ELSE /\ QueueUpload(Cur, run.slot)
            /\ run' = [run EXCEPT !.pc = "StartUpload", !.ticket = nextTicket]
    /\ UNCHANGED <<work, measured>>

StartUp ==
    /\ At("StartUpload")
    /\ StartUpload(run.ticket)
    /\ Continue("CompleteUpload") /\ Stage("RamToVram")
    /\ UNCHANGED <<class, measured>>

\* complete_upload(..)? and mark_compute_ready(..)?
CompleteUp ==
    /\ At("CompleteUpload")
    /\ CompleteUpload(run.ticket, run.slot)
    /\ Continue("MarkReady")
    /\ UNCHANGED <<work, measured>>

MarkReady ==
    /\ At("MarkReady")
    /\ MarkComputeReady(Cur, run.slot)
    /\ Continue("Acquire")
    /\ UNCHANGED <<work, measured>>

\* acquire_compute(..)?
Acquire ==
    /\ At("Acquire")
    /\ IF computeDepth >= ComputeCap THEN Stop /\ UNCHANGED <<vars, stage>>
       ELSE AcquireCompute(Cur, run.slot) /\ Continue("Release") /\ Stage("GpuCompute")
    /\ UNCHANGED <<class, measured>>

\* release_compute(lease)?  The variant lets the lease go out of scope instead.
ReleaseForgotten ==
    /\ At("Release")
    /\ Stop /\ Stage("Done")
    /\ UNCHANGED <<vars, class, measured>>

Release ==
    /\ At("Release")
    /\ \E lease \in held : lease.page = Cur /\ ReleaseCompute(lease)
    /\ Stop /\ Stage("Done")
    /\ UNCHANGED <<class, measured>>

\* The owner of the scheduler makes room through the public `manager`.
Maintain ==
    /\ Idle
    /\ \/ \E p \in Pages, s \in Slots : EvictVram(p, s)
       \/ \E p \in Pages : EvictRam(p)
       \/ \E p \in Pages, g \in Generation : AdvanceGeneration(p, g)
    /\ UNCHANGED <<work, run, measured>>

RunStep == \/ QueueRead \/ StartRead \/ (\E ok \in BOOLEAN : Read(ok)) \/ CompleteRead
           \/ Reserve \/ QueueUp \/ StartUp \/ CompleteUp \/ MarkReady \/ Acquire
           \/ Release

WNext == \/ \E p \in Pages, c \in Class : Add(p, c)
         \/ CancelSpeculative
         \/ \E p \in Pages : Begin(p)
         \/ RunStep
         \/ Maintain

WSpec == WInit /\ [][WNext]_wvars

\* run_one is a sequential function and joins its worker: it keeps going.
WFairSpec == WSpec /\ WF_wvars(RunStep)

-----------------------------------------------------------------------------
\* The types of what the scheduler adds to the manager.
RunTyped ==
    /\ class \in [Pages -> Class] /\ stage \in [Pages -> WorkStage]
    /\ run \in [pc : {"Idle", "QueueRead", "StartRead", "Read", "CompleteRead",
                      "Reserve", "QueueUpload", "StartUpload", "CompleteUpload",
                      "MarkReady", "Acquire", "Release"},
                page : Pages \cup {NoPage}, ticket : 0 .. MaxTickets,
                slot : Slots]
    /\ measured \in Nat

\* Every variable of manager and scheduler stays in its type.
WTypeOK == TypeOK /\ RunTyped

\* require_measured_mandatory_bytes: no byte is read for a work that is not
\* mandatory before some mandatory payload has arrived.
SpeculationBehindMandatory == \A p \in Pages :
    class[p] # "Mandatory" /\ stage[p] \notin {"None", "Waiting", "Cancelled"} =>
        \E t \in TicketId : /\ tickets[t].kind = "NvmeRead"
                            /\ tickets[t].status = "Completed"
                            /\ class[tickets[t].page] = "Mandatory"

\* A work admitted on slack is never refused by the pinned budget later in the
\* same run: what was measured is still there when the payload arrives.
AdmittedSpeculationFits ==
    At("CompleteRead") /\ class[Cur] # "Mandatory"
        => Fits(pinnedUsed, Cur, PinnedBudget)

\* Work that is not mandatory waits for measured mandatory bytes, and once admitted on
\* slack is not refused for want of it.
SpeculationSound == SpeculationBehindMandatory /\ AdmittedSpeculationFits

\* Whatever call a run stops at, it leaves no compute lease behind, so VRAM is
\* evictable and generations can advance between runs.
IdleHoldsNoLease ==
    Idle => held = {} /\ computeDepth = 0 /\ \A p \in Pages : leases[p] = {}

\* Between runs no slot is Uploading: a run that stops at the transfer queue
\* leaves its slot Reserved, and once the slot took the ticket the completion
\* follows in the same run, so no slot waits for one nobody will send.
IdleUploadsNothing == Idle => \A s \in Slots : slots[s].state # "Uploading"

\* Both: whatever call a run stops at, nothing it holds is left for no one to end.
IdleHoldsNothing == IdleHoldsNoLease /\ IdleUploadsNothing

\* A ticket the run was given, of the kind the call is for.
OwnTicket(kind) == tickets[run.ticket].issued /\ tickets[run.ticket].kind = kind

\* What a call of run_one needs beside room it still finds when the run gets to it:
\* the ticket it was given, unmoved; the slot it was given, in the state its last call
\* left it in; the lease, releasable.  So the only refusals are those for room, and a
\* run that has queued its upload goes through to acquire_compute.  A slot of its own
\* page and tickets of the right kind are what the manager does not check: the run
\* keeps both clauses of its Contract, which nothing here assumes.
CallsAccepted ==
    /\ At("StartRead") => /\ OwnTicket("NvmeRead") /\ Current(run.ticket)
                          /\ CanStart(tickets[run.ticket].status)
    /\ At("CompleteRead") => /\ OwnTicket("NvmeRead") /\ Current(run.ticket)
                             /\ CanFirstByte(tickets[run.ticket].status)
                             /\ Legal(Cur, "RamReady")
    /\ At("Reserve") => state[Cur] = "RamReady" /\ Has(pinned[Cur])
    /\ At("QueueUpload") => /\ slots[run.slot].page = Cur
                            /\ slots[run.slot].state = "Reserved"
                            /\ Legal(Cur, "UploadQueued")
    /\ At("StartUpload") => /\ OwnTicket("RamToVram")
                            /\ CanStart(tickets[run.ticket].status)
                            /\ Legal(Cur, "VramUploading")
    /\ At("CompleteUpload") => /\ OwnTicket("RamToVram") /\ Current(run.ticket)
                               /\ CanFirstByte(tickets[run.ticket].status)
                               /\ slots[run.slot].state = "Uploading"
                               /\ slots[run.slot].ticket = run.ticket
                               /\ Legal(Cur, "Uploaded")
    /\ At("MarkReady") => /\ Identifies(run.slot, Cur)
                          /\ slots[run.slot].state = "Uploaded"
    /\ At("Acquire") => /\ Identifies(run.slot, Cur)
                        /\ slots[run.slot].state = "ComputeReady" /\ Legal(Cur, "InUse")
    /\ At("Release") => \E l \in held :
          /\ l.page = Cur /\ l.gen = gen[Cur] /\ Has(vram[Cur][l.slot])
          /\ Identifies(l.slot, Cur)
          /\ slots[l.slot].state = "InUse" /\ slots[l.slot].users > 0

\* Every run_one that starts returns, by Done or by an Err.
RunEnds == ~Idle ~> Idle
-----------------------------------------------------------------------------
(* The inductive invariant                                                  *)

\* A run has its page, and from its first answers on the ticket and slot it got.
RunNamed ==
    /\ ~Idle => Cur \in Pages
    /\ run.pc \in {"StartRead", "Read", "CompleteRead", "StartUpload",
                   "CompleteUpload"} => run.ticket \in TicketId

\* The ticket the run was given, as it must be now.
RunTicket(kind, status) ==
    LET k == tickets[run.ticket] IN
    k.page = Cur /\ k.gen = gen[Cur] /\ k.kind = kind /\ k.status = status /\ k.issued
SlotOfRun == slots[run.slot].page = Cur
RunUploads == /\ SlotOfRun
              /\ slots[run.slot].state = "Uploading" /\ slots[run.slot].ticket = run.ticket

\* What the manager has done for the run so far; once it has a ticket, nothing but
\* the run itself moves the record, the ticket or the slot.
RunPlace ==
    /\ At("StartRead") => RunTicket("NvmeRead", "Queued")
    /\ run.pc \in {"Read", "CompleteRead"} => RunTicket("NvmeRead", "Running")
    /\ At("Reserve") => state[Cur] = "RamReady" /\ Has(pinned[Cur])
    /\ At("QueueUpload") => state[Cur] = "VramReserved" /\ SlotOfRun
    /\ At("StartUpload") => /\ state[Cur] = "UploadQueued"
                            /\ RunTicket("RamToVram", "Queued") /\ RunUploads
    /\ At("CompleteUpload") => /\ state[Cur] = "VramUploading"
                               /\ RunTicket("RamToVram", "Running") /\ RunUploads
    /\ At("MarkReady") => state[Cur] = "Uploaded" /\ SlotOfRun
    /\ At("Acquire")   => state[Cur] = "ComputeReady" /\ SlotOfRun

\* The one lease there can be is the run's, on its way from acquire to release.
LeaseInRun ==
    IF At("Release")
    THEN \E l \in Lease : /\ l.page = Cur /\ state[Cur] = "InUse"
                          /\ held = {l} /\ computeDepth = 1
                          /\ \A p \in Pages : leases[p] = IF p = Cur THEN {l} ELSE {}
    ELSE held = {} /\ computeDepth = 0 /\ \A p \in Pages : leases[p] = {}

\* The one slot that can be Uploading is the run's, between its two upload calls.
UploadInRun == \A s \in Slots : slots[s].state = "Uploading" =>
    run.pc \in {"StartUpload", "CompleteUpload"} /\ s = run.slot

WIInv == IInv /\ RunTyped /\ RunNamed /\ RunPlace /\ LeaseInRun /\ UploadInRun
=============================================================================
