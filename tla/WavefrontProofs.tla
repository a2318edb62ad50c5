---------------------------- MODULE WavefrontProofs ----------------------------
(***************************************************************************)
(* Every step of the wavefront scheduler is a step of the manager or       *)
(* leaves it alone, so what is proved of the manager holds under the       *)
(* scheduler; and whatever call a run stops at, no lease and no uploading  *)
(* slot outlives it; and work that is not mandatory waits for mandatory    *)
(* bytes and finds the room it was admitted on.  All for any number of     *)
(* pages, slots and tickets.                                               *)
(***************************************************************************)
EXTENDS WavefrontScheduler, ResidencyManagerProofs

\* What is proved of the run, beside the manager's own invariant.
RunInv == RunTyped /\ RunNamed /\ RunPlace /\ LeaseInRun /\ UploadInRun

\* The fields of a ticket a queue call returned.
IsTicket(k, p, g, kind, status) ==
    k.page = p /\ k.gen = g /\ k.kind = kind /\ k.status = status /\ k.issued

-----------------------------------------------------------------------------
(* The manager under the scheduler                                          *)

\* run_one passes the manager the page, ticket and slot that earlier calls
\* returned, so its calls are the manager's; its owner's are too.
LEMMA StepOfManager == TypeOK /\ RunTyped /\ RunNamed /\ [WNext]_wvars => [Next]_vars
  <1> SUFFICES ASSUME TypeOK, RunTyped, RunNamed, [WNext]_wvars PROVE [Next]_vars
    OBVIOUS
  <1>1. CASE UNCHANGED wvars
    BY <1>1 DEF wvars
  <1>2. CASE \E p \in Pages, c \in Class : Add(p, c)
    BY <1>2 DEF Add, Next, PageStep
  <1>3. CASE CancelSpeculative
    BY <1>3 DEF CancelSpeculative
  <1>4. CASE \E p \in Pages : Begin(p)
    BY <1>4 DEF Begin
  <1>5. CASE RunStep
    <2>0. run.slot \in Slots
      BY DEF RunTyped
    <2>1. CASE QueueRead
      BY <2>1 DEF QueueRead, At, Idle, Cur, RunNamed, Next, PageStep
    <2>2. CASE StartRead
      BY <2>2 DEF StartRead, At, RunNamed, Next, TicketStep
    <2>3. CASE \E ok \in BOOLEAN : Read(ok)
      BY <2>3 DEF Read
    <2>4. CASE CompleteRead
      BY <2>4 DEF CompleteRead, At, RunNamed, Next, TicketStep
    <2>5. CASE Reserve
      BY <2>5 DEF Reserve, At, Idle, Cur, RunNamed, Next, PageStep
    <2>6. CASE QueueUp
      BY <2>0, <2>6 DEF QueueUp, At, Idle, Cur, RunNamed, Next, SlotStep
    <2>7. CASE StartUp
      BY <2>7 DEF StartUp, At, RunNamed, Next, TicketStep
    <2>8. CASE CompleteUp
      BY <2>0, <2>8 DEF CompleteUp, At, RunNamed, Next, TicketStep
    <2>9. CASE MarkReady
      BY <2>0, <2>9 DEF MarkReady, At, Idle, Cur, RunNamed, Next, SlotStep
    <2>10. CASE Acquire
      BY <2>0, <2>10 DEF Acquire, At, Idle, Cur, RunNamed, Next, SlotStep
    <2>11. CASE Release
      BY <2>11 DEF Release, Next
    <2> QED
      BY <1>5, <2>1, <2>2, <2>3, <2>4, <2>5, <2>6, <2>7, <2>8, <2>9, <2>10, <2>11
      DEF RunStep
  <1>6. CASE Maintain
    BY <1>6 DEF Maintain, Next, PageStep, SlotStep
  <1> QED
    BY <1>1, <1>2, <1>3, <1>4, <1>5, <1>6 DEF WNext

\* What queue_upload does, whatever the contract.
LEMMA UploadQueued ==
    ASSUME NEW p \in Pages, NEW s \in Slots, QueueUpload(p, s)
    PROVE  /\ nextTicket <= MaxTickets
           /\ NewTicket(p, "RamToVram", slots[s].state = "Reserved" /\ Legal(p, "UploadQueued"))
           /\ slots' = IF slots[s].state = "Reserved"
                       THEN [slots EXCEPT ![s].state = "Uploading", ![s].ticket = nextTicket]
                       ELSE slots
           /\ state' = IF slots[s].state = "Reserved" /\ Legal(p, "UploadQueued")
                       THEN [state EXCEPT ![p] = "UploadQueued"] ELSE state
  BY DEF QueueUpload, NewTicket

-----------------------------------------------------------------------------
(* What a run leaves behind                                                 *)

\* A run that stops is typed; slot 0 is a slot.
LEMMA NoRunTyped == NoRun \in [pc : {"Idle"}, page : {NoPage}, ticket : {0}, slot : Slots]
  BY SlotsAssumption DEF NoRun, Slots

\* No lease comes or goes between steps other than acquire and release.
LEMMA NoLeaseMoves ==
    ASSUME LeaseInRun, ~At("Release"), run'.pc # "Release",
           UNCHANGED <<held, computeDepth, leases>>
    PROVE  LeaseInRun'
  BY DEF LeaseInRun, At

\* Slots that are emptied, reserved or left alone are not uploading.
LEMMA NoUploadBegins ==
    ASSUME UploadInRun, run.pc \notin {"StartUpload", "CompleteUpload"},
           \A s \in Slots : slots'[s] = slots[s] \/ slots'[s].state # "Uploading"
    PROVE  UploadInRun'
  BY DEF UploadInRun

\* add registers a page, between runs.
LEMMA AddKeeps ==
    ASSUME WIInv, NEW p \in Pages, NEW c \in Class, Add(p, c) PROVE RunInv'
  <1> USE DEF WIInv
  <1>1. Idle /\ UNCHANGED <<run, measured, held, computeDepth, leases, slots>>
    BY DEF Add, Register, compute, depths
  <1>2. RunTyped'
    BY <1>1 DEF Add, RunTyped, WorkStage
  <1>3. RunNamed' /\ RunPlace' /\ UploadInRun'
    BY <1>1 DEF RunNamed, RunPlace, UploadInRun, Idle, At
  <1>4. LeaseInRun'
    BY <1>1, NoLeaseMoves DEF Idle, At
  <1> QED
    BY <1>2, <1>3, <1>4 DEF RunInv

\* cancel_speculative touches stages only.
LEMMA CancelSpeculativeKeeps == ASSUME WIInv, CancelSpeculative PROVE RunInv'
  <1> USE DEF WIInv
  <1>1. Idle /\ UNCHANGED <<run, measured, class, held, computeDepth, leases, slots>>
    BY DEF CancelSpeculative, vars, record, compute, depths
  <1>2. RunTyped'
    BY <1>1 DEF CancelSpeculative, RunTyped, WorkStage
  <1>3. RunNamed' /\ RunPlace' /\ UploadInRun'
    BY <1>1 DEF RunNamed, RunPlace, UploadInRun, Idle, At
  <1>4. LeaseInRun'
    BY <1>1, NoLeaseMoves DEF Idle, At
  <1> QED
    BY <1>2, <1>3, <1>4 DEF RunInv

\* run_one starts with the work's page, or cancels the work for want of slack.
LEMMA BeginKeeps == ASSUME WIInv, NEW p \in Pages, Begin(p) PROVE RunInv'
  <1> USE DEF WIInv
  <1>1. /\ Idle /\ UNCHANGED <<measured, class, held, computeDepth, leases, slots>>
        /\ run' = run \/ run' = [NoRun EXCEPT !.pc = "QueueRead", !.page = p]
    BY DEF Begin, vars, record, compute, depths
  <1>2. run'.pc \in {"Idle", "QueueRead"} /\ (run'.pc = "QueueRead" => run'.page = p)
    BY <1>1 DEF Idle, NoRun
  <1>3. RunTyped'
    <2>1. 0 \in 0 .. MaxTickets /\ 0 \in Slots
      BY BoundAssumption, SlotsAssumption DEF Slots
    <2>2. CASE run' = run
      BY <1>1, <2>2 DEF Begin, RunTyped, WorkStage
    <2>3. CASE run' = [NoRun EXCEPT !.pc = "QueueRead", !.page = p]
      <3>1. run' = [pc |-> "QueueRead", page |-> p, ticket |-> 0, slot |-> 0]
        BY <2>3 DEF NoRun
      <3>2. stage' \in [Pages -> WorkStage]
        BY DEF Begin, RunTyped, WorkStage
      <3> QED
        BY <1>1, <2>1, <3>1, <3>2 DEF RunTyped
    <2> QED
      BY <1>1, <2>2, <2>3
  <1>4. RunNamed' /\ RunPlace'
    BY <1>2 DEF RunNamed, RunPlace, Idle, At, Cur
  <1>5. UploadInRun'
    BY <1>1, NoUploadBegins DEF Idle
  <1>6. LeaseInRun'
    BY <1>1, <1>2, NoLeaseMoves DEF Idle, At
  <1> QED
    BY <1>3, <1>4, <1>5, <1>6 DEF RunInv

\* A run that stops at a refused call before its upload leaves nothing behind.
LEMMA StopKeeps ==
    ASSUME WIInv, Stop, run.pc \notin {"Release", "StartUpload", "CompleteUpload"},
           UNCHANGED <<work, held, computeDepth, leases>>, measured' \in Nat,
           \A s \in Slots : slots'[s] = slots[s] \/ slots'[s].state # "Uploading"
    PROVE  RunInv'
  <1> USE DEF WIInv
  <1>1. run'.pc = "Idle"
    BY DEF Stop, NoRun
  <1>2. RunTyped'
    <2>1. 0 \in 0 .. MaxTickets /\ 0 \in Slots
      BY BoundAssumption, SlotsAssumption DEF Slots
    <2> QED
      BY <2>1 DEF Stop, NoRun, RunTyped, work
  <1>3. RunNamed' /\ RunPlace'
    BY <1>1 DEF RunNamed, RunPlace, Idle, At
  <1>4. UploadInRun'
    BY NoUploadBegins
  <1>5. LeaseInRun'
    BY <1>1, NoLeaseMoves DEF At
  <1> QED
    BY <1>2, <1>3, <1>4, <1>5 DEF RunInv

\* The places a run can be at.
Place == {"QueueRead", "StartRead", "Read", "CompleteRead", "Reserve", "QueueUpload",
          "StartUpload", "CompleteUpload", "MarkReady", "Acquire", "Release"}

\* A run that goes on keeps its types.
LEMMA GoOnTyped ==
    ASSUME RunTyped, NEW pc \in Place, NEW t \in TicketId, NEW s \in Slots,
           \/ run' = [run EXCEPT !.pc = pc]
           \/ run' = [run EXCEPT !.pc = pc, !.ticket = t]
           \/ run' = [run EXCEPT !.pc = pc, !.slot = s],
           measured' \in Nat, class' = class, stage' \in [Pages -> WorkStage]
    PROVE  /\ RunTyped' /\ run'.pc = pc /\ run'.page = run.page
           /\ run'.ticket = run.ticket \/ run'.ticket = t
           /\ run'.slot = run.slot \/ run'.slot = s
  <1>1. t \in 0 .. MaxTickets
    BY BoundAssumption DEF TicketId
  <1> QED
    BY <1>1 DEF RunTyped, Place

\* Stages are those of the enum.
LEMMA StageTyped ==
    ASSUME RunTyped, NEW s \in WorkStage, Stage(s)
    PROVE  stage' \in [Pages -> WorkStage]
  BY DEF RunTyped, Stage

\* queue_nvme_read: a refusal stops the run, a ticket lets it go on.
LEMMA QueueReadKeeps == ASSUME WIInv, QueueRead PROVE RunInv'
  <1> USE DEF WIInv
  <1>1. /\ run.pc = "QueueRead"
        /\ UNCHANGED <<work, measured, held, computeDepth, leases, slots>>
    BY DEF QueueRead, QueueNvmeRead, At, vars, record, compute, depths
  <1>2. CASE Stop
    BY <1>1, <1>2, StopKeeps DEF RunTyped
  <1>3. CASE ~Stop
    <2>1. run' = [run EXCEPT !.pc = "StartRead", !.ticket = nextTicket]
          /\ nextTicket \in TicketId
      BY <1>3, BoundAssumption
      DEF QueueRead, QueueNvmeRead, NewTicket, IInv, TypeOK, TicketId
    <2>2. RunTyped' /\ run'.pc = "StartRead" /\ run'.page = run.page
          /\ run'.ticket = nextTicket
      BY <1>1, <2>1, GoOnTyped, SlotsAssumption DEF RunTyped, Place, work
    <2>3. IsTicket(tickets'[nextTicket], run.page, gen'[run.page], "NvmeRead", "Queued")
      BY <1>3, <2>1 DEF IsTicket, QueueRead, QueueNvmeRead, NewTicket, IInv, TypeOK, Cur
    <2>4. RunNamed' /\ RunPlace'
      BY <1>1, <2>1, <2>2, <2>3 DEF RunNamed, RunPlace, RunTicket, IsTicket, Idle, At, Cur
    <2>5. UploadInRun' /\ LeaseInRun'
      BY <1>1, <2>2, NoUploadBegins, NoLeaseMoves DEF At
    <2> QED
      BY <2>2, <2>4, <2>5 DEF RunInv
  <1> QED
    BY <1>2, <1>3

\* A ticket that starts changes in nothing but its status.
LEMMA StartedTicket ==
    ASSUME TypeOK, NEW t \in TicketId,
           tickets' = [tickets EXCEPT ![t].status = "Running"]
    PROVE  /\ tickets'[t].page = tickets[t].page /\ tickets'[t].gen = tickets[t].gen
           /\ tickets'[t].kind = tickets[t].kind /\ tickets'[t].issued = tickets[t].issued
           /\ tickets'[t].status = "Running"
  BY DEF TypeOK, TransferTicket

\* start_nvme_read starts the run's ticket.
LEMMA StartReadKeeps == ASSUME WIInv, StartRead PROVE RunInv'
  <1> USE DEF WIInv
  <1>1. /\ run.pc = "StartRead" /\ run' = [run EXCEPT !.pc = "Read"]
        /\ UNCHANGED <<class, measured, held, computeDepth, leases, slots>>
    BY DEF StartRead, StartNvmeRead, At, Continue, compute, depths
  <1>2. stage' \in [Pages -> WorkStage]
    BY StageTyped DEF StartRead, WorkStage
  <1>3. run.ticket \in TicketId /\ run.slot \in Slots
    BY <1>1 DEF RunNamed, RunTyped
  <1>4. RunTyped' /\ run'.pc = "Read" /\ run'.page = run.page /\ run'.ticket = run.ticket
    BY <1>1, <1>2, <1>3, GoOnTyped DEF RunTyped, Place
  <1>5. IsTicket(tickets'[run.ticket], run.page, gen'[run.page], "NvmeRead", "Running")
    <2>1. IsTicket(tickets[run.ticket], run.page, gen[run.page], "NvmeRead", "Queued")
      BY <1>1 DEF RunPlace, RunTicket, IsTicket, At, Cur
    <2>2. tickets' = [tickets EXCEPT ![run.ticket].status = "Running"] /\ gen' = gen
      BY DEF StartRead, StartNvmeRead, Mark
    <2> QED
      BY <1>3, <2>1, <2>2, StartedTicket DEF IsTicket, IInv
  <1>6. RunNamed' /\ RunPlace'
    BY <1>1, <1>3, <1>4, <1>5 DEF RunNamed, RunPlace, RunTicket, IsTicket, Idle, At, Cur
  <1>7. UploadInRun' /\ LeaseInRun'
    BY <1>1, <1>4, NoUploadBegins, NoLeaseMoves DEF At
  <1> QED
    BY <1>4, <1>6, <1>7 DEF RunInv

\* The worker's answer: the bytes, or an error that stops the run.
LEMMA ReadKeeps == ASSUME WIInv, NEW ok \in BOOLEAN, Read(ok) PROVE RunInv'
  <1> USE DEF WIInv
  <1>1. /\ run.pc = "Read"
        /\ UNCHANGED <<work, measured, held, computeDepth, leases, slots>>
    BY DEF Read, At, vars, record, compute, depths
  <1>2. CASE ~ok
    BY <1>1, <1>2, StopKeeps DEF Read, RunTyped
  <1>3. CASE ok
    <2>1. run' = [run EXCEPT !.pc = "CompleteRead"]
      BY <1>3 DEF Read, Continue
    <2>2. run.ticket \in TicketId /\ run.slot \in Slots
      BY <1>1 DEF RunNamed, RunTyped
    <2>3. RunTyped' /\ run'.pc = "CompleteRead" /\ run'.page = run.page
          /\ run'.ticket = run.ticket
      BY <1>1, <2>1, <2>2, GoOnTyped DEF RunTyped, Place, work
    <2>4. RunNamed' /\ RunPlace'
      BY <1>1, <2>2, <2>3
      DEF RunNamed, RunPlace, RunTicket, IsTicket, Idle, At, Cur, Read, vars, record, transfer
    <2>5. UploadInRun' /\ LeaseInRun'
      BY <1>1, <2>3, NoUploadBegins, NoLeaseMoves DEF At
    <2> QED
      BY <2>3, <2>4, <2>5 DEF RunInv
  <1> QED
    BY <1>2, <1>3

\* The record of a read that runs is NvmeReading, and the read is current.
LEMMA RunReadLegal ==
    ASSUME WIInv, run.pc \in {"Read", "CompleteRead"}
    PROVE  /\ Current(run.ticket) /\ Legal(run.page, "RamReady")
           /\ tickets[run.ticket].page = run.page /\ tickets[run.ticket].kind = "NvmeRead"
  <1>1. run.page \in Pages /\ run.ticket \in TicketId
    BY DEF WIInv, RunNamed, Idle, Cur
  <1>2. IsTicket(tickets[run.ticket], run.page, gen[run.page], "NvmeRead", "Running")
    BY DEF WIInv, RunPlace, RunTicket, IsTicket, Cur
  <1>3. state[run.page] = "NvmeReading"
    BY <1>1, <1>2 DEF IsTicket, WIInv, IInv, LiveReadMatchesRecord, InFlight
  <1> QED
    BY <1>2, <1>3 DEF IsTicket, Current, Legal, LegalTransition, Successors

\* complete_nvme_read refused by the pinned budget, or done.
LEMMA CompleteReadKeeps == ASSUME WIInv, CompleteRead PROVE RunInv'
  <1> USE DEF WIInv
  <1>1. /\ run.pc = "CompleteRead" /\ run.ticket \in TicketId /\ run.page \in Pages
        /\ run.slot \in Slots
        /\ UNCHANGED <<work, held, computeDepth, leases, slots>>
    BY DEF CompleteRead, RefuseNvmeRead, CompleteNvmeRead, At, Idle, Cur, record,
           compute, depths, RunNamed, RunTyped
  <1>2. measured' \in Nat
    BY <1>1, PageBytesType DEF CompleteRead, RunTyped, Cur
  <1>3. CASE Stop
    BY <1>1, <1>2, <1>3, StopKeeps
  <1>4. CASE ~Stop
    <2>1. run' = [run EXCEPT !.pc = "Reserve"]
      BY <1>4 DEF CompleteRead, Continue
    <2>2. RunTyped' /\ run'.pc = "Reserve" /\ run'.page = run.page
      BY <1>1, <1>2, <2>1, GoOnTyped DEF RunTyped, Place, work
    <2>3. state'[run.page] = "RamReady" /\ Has(pinned'[run.page])
      <3>1. Current(run.ticket) /\ Legal(run.page, "RamReady")
            /\ tickets[run.ticket].page = run.page
        BY <1>1, RunReadLegal
      <3>2. tickets[run.ticket].gen # NoGen
        BY <1>1, <3>1 DEF Current, IInv, TypeOK, Generation, NoGen
      <3> QED
        BY <1>1, <1>4, <3>1, <3>2 DEF CompleteRead, CompleteNvmeRead, Has, IInv, TypeOK
    <2>4. RunNamed' /\ RunPlace'
      BY <1>1, <2>2, <2>3 DEF RunNamed, RunPlace, Idle, At, Cur
    <2>5. UploadInRun' /\ LeaseInRun'
      BY <1>1, <2>2, NoUploadBegins, NoLeaseMoves DEF At
    <2> QED
      BY <2>2, <2>4, <2>5 DEF RunInv
  <1> QED
    BY <1>3, <1>4

\* reserve_vram: no slot, or a slot of the run's own and the record VramReserved.
LEMMA ReserveKeeps == ASSUME WIInv, Reserve PROVE RunInv'
  <1> USE DEF WIInv
  <1>1. /\ run.pc = "Reserve" /\ run.page \in Pages
        /\ UNCHANGED <<work, measured, held, computeDepth, leases>>
    BY DEF Reserve, ReserveVram, At, Idle, Cur, vars, record, compute, depths, RunNamed
  <1>2. CASE Stop /\ UNCHANGED vars
    BY <1>1, <1>2, StopKeeps DEF RunTyped, vars
  <1>3. CASE ~(Stop /\ UNCHANGED vars)
    <2>1. ReserveVram(Cur)
      BY <1>3 DEF Reserve
    <2>2. PICK s \in Slots : /\ run' = [run EXCEPT !.pc = "QueueUpload", !.slot = s]
                             /\ slots'[s].page = Cur
      BY <1>3 DEF Reserve
    <2>3. RunTyped' /\ run'.pc = "QueueUpload" /\ run'.page = run.page /\ run'.slot = s
      <3>1. run' = [[run EXCEPT !.pc = "QueueUpload"] EXCEPT !.slot = s]
        BY <2>2 DEF RunTyped
      <3> QED
        BY <1>1, <2>2, <3>1 DEF RunTyped, work
    <2>4. state'[Cur] = "VramReserved"
      BY <1>1, <2>1 DEF ReserveVram, Cur, IInv, TypeOK
    <2>5. \A r \in Slots : slots'[r] = slots[r] \/ slots'[r].state # "Uploading"
      BY <2>1 DEF ReserveVram, IInv, TypeOK, FreeSlot
    <2>6. RunNamed' /\ RunPlace'
      BY <1>1, <2>2, <2>3, <2>4 DEF RunNamed, RunPlace, SlotOfRun, Idle, At, Cur
    <2>7. UploadInRun' /\ LeaseInRun'
      BY <1>1, <2>3, <2>5, NoUploadBegins, NoLeaseMoves DEF At
    <2> QED
      BY <2>3, <2>6, <2>7 DEF RunInv
  <1> QED
    BY <1>2, <1>3

\* queue_upload: the slot of a VramReserved record is Reserved, so it takes the ticket
\* and the record follows.
LEMMA QueueUpKeeps == ASSUME WIInv, QueueUp PROVE RunInv'
  <1> USE DEF WIInv
  <1>1. /\ run.pc = "QueueUpload" /\ run.page \in Pages /\ run.slot \in Slots
        /\ state[Cur] = "VramReserved" /\ slots[run.slot].page = run.page
        /\ UNCHANGED <<work, measured, held, computeDepth, leases>>
    BY DEF QueueUp, QueueUpload, At, Idle, Cur, vars, record, compute, depths, RunNamed,
           RunTyped, RunPlace, SlotOfRun
  <1>2. CASE Stop /\ UNCHANGED vars
    BY <1>1, <1>2, StopKeeps DEF RunTyped, vars
  <1>3. CASE ~(Stop /\ UNCHANGED vars)
    <2>1. QueueUpload(Cur, run.slot)
          /\ run' = [run EXCEPT !.pc = "StartUpload", !.ticket = nextTicket]
      BY <1>3 DEF QueueUp
    <2>2. nextTicket \in TicketId
      <3>1. nextTicket <= MaxTickets
        BY <1>1, <2>1, UploadQueued DEF Cur
      <3> QED
        BY <3>1, BoundAssumption DEF IInv, TypeOK, TicketId
    <2>3. RunTyped' /\ run'.pc = "StartUpload" /\ run'.page = run.page
          /\ run'.ticket = nextTicket /\ run'.slot = run.slot
      <3>1. nextTicket \in 0 .. MaxTickets
        BY <2>2, BoundAssumption DEF TicketId
      <3> QED
        BY <1>1, <2>1, <3>1 DEF RunTyped, work
    <2>4. slots[run.slot].state = "Reserved"
      <3>1. /\ state[Cur] \in RecordStates(slots[run.slot].state, Has(vram[Cur][run.slot]))
            /\ slots[run.slot].state \in
                 {"Reserved", "Uploading", "Uploaded", "ComputeReady", "InUse"}
        BY <1>1, SlottedPage DEF Cur
      <3> QED
        BY <1>1, <3>1 DEF RecordStates, UploadState, Cur
    <2>5. /\ state'[run.page] = "UploadQueued"
          /\ IsTicket(tickets'[nextTicket], run.page, gen'[run.page], "RamToVram", "Queued")
      <3>1. Legal(run.page, "UploadQueued")
        BY <1>1 DEF Legal, LegalTransition, Successors, Cur
      <3> QED
        BY <1>1, <2>1, <2>2, <2>4, <3>1
        DEF IsTicket, QueueUpload, NewTicket, IInv, TypeOK, Cur
    <2>6. /\ slots'[run.slot].page = run.page /\ slots'[run.slot].state = "Uploading"
          /\ slots'[run.slot].ticket = nextTicket
      <3>1. slots' = [slots EXCEPT ![run.slot].state = "Uploading", ![run.slot].ticket = nextTicket]
        BY <1>1, <2>1, <2>4, UploadQueued DEF Cur
      <3> QED
        BY <1>1, <3>1 DEF IInv, TypeOK, VramSlot
    <2>7. RunNamed' /\ RunPlace'
      BY <1>1, <2>2, <2>3, <2>5, <2>6
      DEF RunNamed, RunPlace, RunTicket, IsTicket, RunUploads, SlotOfRun, Idle, At, Cur
    <2>8. UploadInRun'
      BY <1>1, <2>1, <2>3 DEF UploadInRun, QueueUpload, IInv, TypeOK
    <2>9. LeaseInRun'
      BY <1>1, <2>3, NoLeaseMoves DEF At
    <2> QED
      BY <2>3, <2>7, <2>8, <2>9 DEF RunInv
  <1> QED
    BY <1>2, <1>3

\* start_upload: the ticket of the run starts and its record follows.
LEMMA StartUpKeeps == ASSUME WIInv, StartUp PROVE RunInv'
  <1> USE DEF WIInv
  <1>1. /\ run.pc = "StartUpload" /\ run.page \in Pages /\ run.slot \in Slots
        /\ run.ticket \in TicketId
        /\ state[run.page] = "UploadQueued"
        /\ IsTicket(tickets[run.ticket], run.page, gen[run.page], "RamToVram", "Queued")
        /\ RunUploads
        /\ run' = [run EXCEPT !.pc = "CompleteUpload"]
        /\ UNCHANGED <<class, measured, held, computeDepth, leases, slots>>
    BY DEF StartUp, StartUpload, At, Idle, Cur, Continue, compute, depths, RunNamed,
           RunTyped, RunPlace, RunTicket, IsTicket
  <1>2. stage' \in [Pages -> WorkStage]
    BY StageTyped DEF StartUp, WorkStage
  <1>3. RunTyped' /\ run'.pc = "CompleteUpload" /\ run'.page = run.page
        /\ run'.ticket = run.ticket /\ run'.slot = run.slot
    BY <1>1, <1>2, GoOnTyped DEF RunTyped, Place
  <1>4. /\ state'[run.page] = "VramUploading"
        /\ IsTicket(tickets'[run.ticket], run.page, gen'[run.page], "RamToVram", "Running")
    <2>1. /\ tickets' = [tickets EXCEPT ![run.ticket].status = "Running"] /\ gen' = gen
          /\ Goto(tickets[run.ticket].page, "VramUploading")
      BY DEF StartUp, StartUpload, Mark
    <2>2. IsTicket(tickets'[run.ticket], run.page, gen'[run.page], "RamToVram", "Running")
      BY <1>1, <2>1, StartedTicket DEF IsTicket, IInv
    <2>3. state'[run.page] = "VramUploading"
      BY <1>1, <2>1 DEF IsTicket, Goto, After, LegalTransition, Successors, IInv, TypeOK
    <2> QED
      BY <2>2, <2>3
  <1>5. RunNamed' /\ RunPlace'
    BY <1>1, <1>3, <1>4
    DEF RunNamed, RunPlace, RunTicket, IsTicket, RunUploads, SlotOfRun, Idle, At, Cur
  <1>6. UploadInRun'
    BY <1>1, <1>3 DEF UploadInRun
  <1>7. LeaseInRun'
    BY <1>1, <1>3, NoLeaseMoves DEF At
  <1> QED
    BY <1>3, <1>5, <1>6, <1>7 DEF RunInv

\* complete_upload: the run's slot is Uploaded and, its ticket Running, the record too.
LEMMA CompleteUpKeeps == ASSUME WIInv, CompleteUp PROVE RunInv'
  <1> USE DEF WIInv
  <1>1. /\ run.pc = "CompleteUpload" /\ run.page \in Pages /\ run.slot \in Slots
        /\ run.ticket \in TicketId /\ SlotOfRun
        /\ IsTicket(tickets[run.ticket], run.page, gen[run.page], "RamToVram", "Running")
        /\ state[run.page] = "VramUploading"
        /\ run' = [run EXCEPT !.pc = "MarkReady"]
        /\ UNCHANGED <<work, measured, held, computeDepth, leases>>
    BY DEF CompleteUp, CompleteUpload, At, Idle, Cur, Continue, compute, RunNamed,
           RunTyped, RunPlace, RunTicket, IsTicket, RunUploads
  <1>2. /\ RunTyped' /\ run'.pc = "MarkReady"
        /\ run'.page = run.page /\ run'.slot = run.slot
    BY <1>1, GoOnTyped DEF RunTyped, Place, work
  <1>3. state'[run.page] = "Uploaded"
    BY <1>1 DEF IsTicket, CompleteUp, CompleteUpload, CanFirstByte, Legal, LegalTransition,
                Successors, IInv, TypeOK
  <1>4. slots' = [slots EXCEPT ![run.slot].state = "Uploaded"]
    BY DEF CompleteUp, CompleteUpload
  <1>5. RunNamed' /\ RunPlace'
    <2>1. slots'[run.slot].page = run.page
      BY <1>1, <1>4 DEF SlotOfRun, Cur, IInv, TypeOK, VramSlot
    <2> QED
      BY <1>1, <1>2, <1>3, <2>1 DEF RunNamed, RunPlace, SlotOfRun, Idle, At, Cur
  <1>6. \A s \in Slots : slots'[s].state # "Uploading"
    BY <1>1, <1>4 DEF UploadInRun, IInv, TypeOK, VramSlot
  <1>7. UploadInRun'
    BY <1>6 DEF UploadInRun
  <1>8. LeaseInRun'
    BY <1>1, <1>2, NoLeaseMoves DEF At
  <1> QED
    BY <1>2, <1>5, <1>7, <1>8 DEF RunInv

\* mark_compute_ready moves slot and record together.
LEMMA MarkReadyKeeps == ASSUME WIInv, MarkReady PROVE RunInv'
  <1> USE DEF WIInv
  <1>1. /\ run.pc = "MarkReady" /\ run.page \in Pages /\ run.slot \in Slots
        /\ state[run.page] = "Uploaded" /\ SlotOfRun /\ run' = [run EXCEPT !.pc = "Acquire"]
        /\ UNCHANGED <<work, measured, held, computeDepth, leases>>
    BY DEF MarkReady, MarkComputeReady, At, Idle, Cur, Continue, compute, depths, RunNamed,
           RunTyped, RunPlace
  <1>2. /\ RunTyped' /\ run'.pc = "Acquire"
        /\ run'.page = run.page /\ run'.slot = run.slot
    BY <1>1, GoOnTyped DEF RunTyped, Place, work
  <1>3. state'[run.page] = "ComputeReady"
    BY <1>1 DEF MarkReady, MarkComputeReady, Goto, After, LegalTransition, Successors,
                IInv, TypeOK, Cur
  <1>4. slots' = [slots EXCEPT ![run.slot].state = "ComputeReady"]
    BY DEF MarkReady, MarkComputeReady
  <1>5. RunNamed' /\ RunPlace'
    <2>1. slots'[run.slot].page = run.page
      BY <1>1, <1>4 DEF SlotOfRun, Cur, IInv, TypeOK, VramSlot
    <2> QED
      BY <1>1, <1>2, <1>3, <2>1 DEF RunNamed, RunPlace, SlotOfRun, Idle, At, Cur
  <1>6. \A s \in Slots : slots'[s] = slots[s] \/ slots'[s].state # "Uploading"
    BY <1>1, <1>4 DEF IInv, TypeOK, VramSlot
  <1>7. UploadInRun'
    BY <1>1, <1>6, NoUploadBegins
  <1>8. LeaseInRun'
    BY <1>1, <1>2, NoLeaseMoves DEF At
  <1> QED
    BY <1>2, <1>5, <1>7, <1>8 DEF RunInv

\* acquire_compute: refused, or the one lease there is.
LEMMA AcquireKeeps == ASSUME WIInv, Acquire PROVE RunInv'
  <1> USE DEF WIInv
  <1>1. /\ run.pc = "Acquire" /\ run.page \in Pages /\ run.slot \in Slots
        /\ state[run.page] = "ComputeReady"
        /\ held = {} /\ computeDepth = 0 /\ \A p \in Pages : leases[p] = {}
        /\ UNCHANGED <<class, measured>>
    BY DEF Acquire, At, Idle, Cur, RunNamed, RunTyped, RunPlace, LeaseInRun
  <1>2. CASE Stop /\ UNCHANGED <<vars, stage>>
    BY <1>1, <1>2, StopKeeps DEF RunTyped, vars, record, compute, depths, work
  <1>3. CASE ~(Stop /\ UNCHANGED <<vars, stage>>)
    <2> DEFINE lease == [id |-> nextLease, page |-> run.page, slot |-> run.slot,
                         gen |-> gen[run.page]]
    <2>1. AcquireCompute(run.page, run.slot) /\ Stage("GpuCompute")
          /\ run' = [run EXCEPT !.pc = "Release"]
      BY <1>3 DEF Acquire, Continue, Cur
    <2>2. stage' \in [Pages -> WorkStage]
      BY <2>1, StageTyped DEF WorkStage
    <2>3. RunTyped' /\ run'.pc = "Release" /\ run'.page = run.page
      BY <1>1, <2>1, <2>2, GoOnTyped DEF RunTyped, Place
    <2>4. RunNamed' /\ RunPlace'
      BY <1>1, <2>3 DEF RunNamed, RunPlace, Idle, At, Cur
    <2>5. UploadInRun'
      <3>1. \A s \in Slots : slots'[s] = slots[s] \/ slots'[s].state = "InUse"
        BY <1>1, <2>1 DEF AcquireCompute, IInv, TypeOK, VramSlot
      <3> QED
        BY <1>1, <3>1, NoUploadBegins
    <2>6. lease \in Lease
      BY <1>1, <2>1 DEF AcquireCompute, IInv, TypeOK, Lease
    <2>7. state'[run.page] = "InUse" /\ Legal(run.page, "InUse")
      BY <1>1, <2>1 DEF AcquireCompute, Goto, After, Legal, LegalTransition, Successors,
                        IInv, TypeOK
    <2>8. held' = {lease} /\ computeDepth' = 1
      BY <1>1, <2>1, <2>7 DEF AcquireCompute, Take
    <2>9. \A p \in Pages : leases'[p] = IF p = run.page THEN {lease} ELSE {}
      BY <1>1, <2>1 DEF AcquireCompute, IInv, TypeOK
    <2>10. LeaseInRun'
      <3>1. lease.page = run.page
        OBVIOUS
      <3> HIDE DEF lease
      <3> QED
        BY <2>3, <2>6, <2>7, <2>8, <2>9, <3>1 DEF LeaseInRun, At, Cur
    <2> QED
      BY <2>3, <2>4, <2>5, <2>10 DEF RunInv
  <1> QED
    BY <1>2, <1>3

\* release_compute gives back the one lease; its record and its position go with it.
LEMMA ReleaseKeeps == ASSUME WIInv, Release PROVE RunInv'
  <1> USE DEF WIInv
  <1>1. /\ run.pc = "Release" /\ run.page \in Pages
        /\ run' = NoRun /\ UNCHANGED <<class, measured>>
    BY DEF Release, At, Idle, Cur, Stop, RunNamed
  <1>2. PICK l \in Lease : /\ l.page = run.page /\ state[run.page] = "InUse"
                           /\ held = {l} /\ computeDepth = 1
                           /\ \A p \in Pages : leases[p] = IF p = run.page THEN {l} ELSE {}
    BY <1>1 DEF LeaseInRun, At, Cur
  <1>3. ReleaseCompute(l)
    BY <1>2 DEF Release
  <1>4. RunTyped'
    <2>1. 0 \in 0 .. MaxTickets /\ 0 \in Slots
      BY BoundAssumption, SlotsAssumption DEF Slots
    <2>2. stage' \in [Pages -> WorkStage]
      BY StageTyped DEF Release, WorkStage
    <2> QED
      BY <1>1, <2>1, <2>2 DEF NoRun, RunTyped
  <1>5. run'.pc = "Idle"
    BY <1>1 DEF NoRun
  <1>6. RunNamed' /\ RunPlace'
    BY <1>5 DEF RunNamed, RunPlace, Idle, At
  <1>7. UploadInRun'
    <2>1. \A s \in Slots : slots'[s] = slots[s] \/ slots'[s].state \in {"ComputeReady", "InUse"}
      BY <1>3 DEF ReleaseCompute, IInv, TypeOK, VramSlot
    <2> QED
      BY <1>1, <2>1, NoUploadBegins
  <1>8. held' = {} /\ computeDepth' = 0
    BY <1>2, <1>3 DEF ReleaseCompute, Legal, LegalTransition, Successors, Monus
  <1>9. \A p \in Pages : leases'[p] = {}
    BY <1>2, <1>3 DEF ReleaseCompute, IInv, TypeOK
  <1>10. LeaseInRun'
    BY <1>5, <1>8, <1>9 DEF LeaseInRun, At
  <1> QED
    BY <1>4, <1>6, <1>7, <1>10 DEF RunInv

\* The owner's own evictions and generation changes, between runs.
LEMMA MaintainKeeps == ASSUME WIInv, Maintain PROVE RunInv'
  <1> USE DEF WIInv
  <1>1. /\ run.pc = "Idle"
        /\ UNCHANGED <<work, run, measured, held, computeDepth, leases>>
    BY DEF Maintain, EvictVram, EvictRam, AdvanceGeneration, Idle, compute, depths
  <1>2. \A s \in Slots : slots'[s] = slots[s] \/ slots'[s].state # "Uploading"
    <2>1. CASE \E p \in Pages, s \in Slots : EvictVram(p, s)
      BY <2>1 DEF EvictVram, FreeSlot, IInv, TypeOK
    <2>2. CASE \E p \in Pages : EvictRam(p)
      BY <2>2 DEF EvictRam
    <2>3. CASE \E p \in Pages, g \in Generation : AdvanceGeneration(p, g)
      BY <2>3 DEF AdvanceGeneration, FreeSlot
    <2> QED
      BY <2>1, <2>2, <2>3 DEF Maintain
  <1>3. RunTyped'
    BY <1>1 DEF RunTyped, work
  <1>4. RunNamed' /\ RunPlace'
    BY <1>1 DEF RunNamed, RunPlace, Idle, At
  <1>5. UploadInRun' /\ LeaseInRun'
    BY <1>1, <1>2, NoUploadBegins, NoLeaseMoves DEF At
  <1> QED
    BY <1>3, <1>4, <1>5 DEF RunInv

-----------------------------------------------------------------------------
(* The invariant and what follows from it                                   *)

\* run_one queues its upload into the slot that reserve_vram returned for its page, and
\* passes each ticket to the calls of its kind: its steps are careful ones, whatever the
\* contract of the manager's other callers.
LEMMA StepIsCareful == WIInv /\ [WNext]_wvars => [CarefulNext]_vars
  <1> SUFFICES ASSUME WIInv, [WNext]_wvars PROVE [CarefulNext]_vars
    OBVIOUS
  <1> USE DEF WIInv
  <1>0. run.slot \in Slots
    BY DEF RunTyped
  <1>1. CASE UNCHANGED wvars
    BY <1>1 DEF wvars
  <1>2. CASE \E p \in Pages, c \in Class : Add(p, c)
    BY <1>2 DEF Add, CarefulNext, PageStep
  <1>3. CASE CancelSpeculative \/ \E p \in Pages : Begin(p)
    BY <1>3 DEF CancelSpeculative, Begin
  <1>4. CASE QueueRead \/ Reserve
    BY <1>4 DEF QueueRead, Reserve, At, Idle, Cur, RunNamed, CarefulNext, PageStep
  <1>5. CASE StartRead \/ CompleteRead
    <2>1. run.ticket \in TicketId /\ tickets[run.ticket].kind = "NvmeRead"
      BY <1>5 DEF StartRead, CompleteRead, At, RunNamed, RunPlace, RunTicket
    <2> QED
      BY <1>5, <2>1 DEF StartRead, CompleteRead, CarefulNext, CarefulTicketStep
  <1>6. CASE \E ok \in BOOLEAN : Read(ok)
    BY <1>6 DEF Read
  <1>7. CASE QueueUp
    <2>1. Cur \in Pages /\ slots[run.slot].page = Cur
      BY <1>7 DEF QueueUp, At, Idle, Cur, RunNamed, RunPlace, SlotOfRun
    <2> QED
      BY <1>0, <1>7, <2>1 DEF QueueUp, CarefulNext, CarefulSlotStep
  <1>8. CASE StartUp \/ CompleteUp
    <2>1. run.ticket \in TicketId /\ tickets[run.ticket].kind = "RamToVram"
      BY <1>8 DEF StartUp, CompleteUp, At, RunNamed, RunPlace, RunTicket
    <2> QED
      BY <1>0, <1>8, <2>1 DEF StartUp, CompleteUp, CarefulNext, CarefulTicketStep
  <1>9. CASE MarkReady \/ Acquire
    BY <1>0, <1>9 DEF MarkReady, Acquire, At, Idle, Cur, RunNamed, CarefulNext,
                      CarefulSlotStep
  <1>10. CASE Release
    BY <1>10 DEF Release, CarefulNext
  <1>11. CASE Maintain
    BY <1>11 DEF Maintain, CarefulNext, PageStep, CarefulSlotStep
  <1> QED
    BY <1>1, <1>2, <1>3, <1>4, <1>5, <1>6, <1>7, <1>8, <1>9, <1>10, <1>11
    DEF WNext, RunStep

LEMMA WInitInvariant == WInit => WIInv
  <1> SUFFICES ASSUME WInit PROVE WIInv
    OBVIOUS
  <1>1. IInv
    BY InitInvariant DEF WInit
  <1>2. NoRun \in [pc : {"Idle"}, page : {NoPage}, ticket : {0}, slot : Slots]
    BY NoRunTyped
  <1>3. RunTyped /\ run.pc = "Idle"
    BY <1>2, BoundAssumption DEF WInit, RunTyped, NoRun, Class, WorkStage
  <1>4. RunNamed /\ RunPlace
    BY <1>3 DEF RunNamed, RunPlace, Idle, At
  <1>5. LeaseInRun /\ UploadInRun
    BY <1>3 DEF WInit, Init, LeaseInRun, UploadInRun, At, FreeSlot
  <1> QED
    BY <1>1, <1>3, <1>4, <1>5 DEF WIInv

LEMMA WNextInvariant == WIInv /\ [WNext]_wvars => WIInv'
  <1> SUFFICES ASSUME WIInv, [WNext]_wvars PROVE WIInv'
    OBVIOUS
  <1>1. IInv'
    BY StepIsCareful, CarefulInvariant DEF WIInv
  <1>2. RunInv'
    <2>1. CASE UNCHANGED wvars
      BY <2>1 DEF wvars, vars, record, transfer, compute, depths, work, WIInv, RunInv,
         RunTyped, RunNamed, RunPlace, RunTicket, IsTicket, RunUploads, SlotOfRun, LeaseInRun,
         UploadInRun, Idle, At, Cur
    <2>2. CASE RunStep
      BY <2>2, QueueReadKeeps, StartReadKeeps, ReadKeeps, CompleteReadKeeps, ReserveKeeps,
         QueueUpKeeps, StartUpKeeps, CompleteUpKeeps, MarkReadyKeeps, AcquireKeeps,
         ReleaseKeeps DEF RunStep
    <2> QED
      BY <2>1, <2>2, AddKeeps, CancelSpeculativeKeeps, BeginKeeps, MaintainKeeps DEF WNext
  <1> QED
    BY <1>1, <1>2 DEF WIInv, RunInv

\* Each call's conditions, from the run's place and the manager's invariant.
LEMMA RunCallsAccepted == WIInv => CallsAccepted
  <1> SUFFICES ASSUME WIInv PROVE CallsAccepted
    OBVIOUS
  <1> USE DEF WIInv
  <1>1. /\ run.pc \in {"StartRead", "Read", "CompleteRead", "StartUpload", "CompleteUpload"}
           => run.ticket \in TicketId
        /\ run.pc # "Idle" => run.page \in Pages
        /\ run.slot \in Slots
    BY DEF RunNamed, RunTyped, Idle, Cur
  <1>2. At("StartRead") => /\ OwnTicket("NvmeRead") /\ Current(run.ticket)
                           /\ CanStart(tickets[run.ticket].status)
    BY DEF RunPlace, RunTicket, IsTicket, At, Cur, OwnTicket, Current, CanStart
  <1>3. At("CompleteRead") => /\ OwnTicket("NvmeRead") /\ Current(run.ticket)
                              /\ CanFirstByte(tickets[run.ticket].status)
                              /\ Legal(Cur, "RamReady")
    BY RunReadLegal DEF RunPlace, RunTicket, IsTicket, At, Cur, OwnTicket, CanFirstByte
  <1>4. At("Reserve") => state[Cur] = "RamReady" /\ Has(pinned[Cur])
    BY DEF RunPlace
  <1>5. At("QueueUpload") => /\ slots[run.slot].page = Cur
                             /\ slots[run.slot].state = "Reserved"
                             /\ Legal(Cur, "UploadQueued")
    <2> SUFFICES ASSUME At("QueueUpload") PROVE <1>5!2
      OBVIOUS
    <2>1. state[run.page] = "VramReserved" /\ slots[run.slot].page = run.page
      BY DEF RunPlace, SlotOfRun, Cur
    <2>2. state[run.page] \in RecordStates(slots[run.slot].state, Has(vram[run.page][run.slot]))
      BY <1>1, <2>1, SlottedPage DEF At
    <2>3. slots[run.slot].state = "Reserved"
      BY <2>1, <2>2 DEF RecordStates, UploadState
    <2> QED
      BY <2>1, <2>3 DEF Legal, LegalTransition, Successors, Cur
  <1>6. At("StartUpload") => /\ OwnTicket("RamToVram")
                             /\ CanStart(tickets[run.ticket].status)
                             /\ Legal(Cur, "VramUploading")
    BY DEF RunPlace, RunTicket, IsTicket, At, Cur, OwnTicket, CanStart, Legal, LegalTransition,
           Successors
  <1>7. At("CompleteUpload") => /\ OwnTicket("RamToVram") /\ Current(run.ticket)
                                /\ CanFirstByte(tickets[run.ticket].status)
                                /\ slots[run.slot].state = "Uploading"
                                /\ slots[run.slot].ticket = run.ticket
                                /\ Legal(Cur, "Uploaded")
    BY DEF RunPlace, RunTicket, IsTicket, RunUploads, At, Cur, OwnTicket, Current,
           CanFirstByte, Legal, LegalTransition, Successors
  <1>8. At("MarkReady") => /\ Identifies(run.slot, Cur)
                           /\ slots[run.slot].state = "Uploaded"
    <2> SUFFICES ASSUME At("MarkReady") PROVE <1>8!2
      OBVIOUS
    <2>1. state[run.page] = "Uploaded" /\ slots[run.slot].page = run.page
      BY DEF RunPlace, SlotOfRun, Cur
    <2>2. /\ state[run.page] \in RecordStates(slots[run.slot].state, Has(vram[run.page][run.slot]))
          /\ slots[run.slot].gen = gen[run.page]
      BY <1>1, <2>1, SlottedPage DEF At
    <2> QED
      BY <2>1, <2>2 DEF RecordStates, UploadState, Identifies, Cur
  <1>9. At("Acquire") => /\ Identifies(run.slot, Cur)
                         /\ slots[run.slot].state = "ComputeReady" /\ Legal(Cur, "InUse")
    <2> SUFFICES ASSUME At("Acquire") PROVE <1>9!2
      OBVIOUS
    <2>1. state[run.page] = "ComputeReady" /\ slots[run.slot].page = run.page
      BY DEF RunPlace, SlotOfRun, Cur
    <2>2. /\ state[run.page] \in RecordStates(slots[run.slot].state, Has(vram[run.page][run.slot]))
          /\ slots[run.slot].gen = gen[run.page]
      BY <1>1, <2>1, SlottedPage DEF At
    <2>3. slots[run.slot].state = "ComputeReady"
      BY <2>1, <2>2 DEF RecordStates, UploadState
    <2> QED
      BY <2>1, <2>2, <2>3 DEF Identifies, Cur, Legal, LegalTransition, Successors
  <1>10. At("Release") => \E l \in held :
            /\ l.page = Cur /\ l.gen = gen[Cur] /\ Has(vram[Cur][l.slot])
            /\ Identifies(l.slot, Cur)
            /\ slots[l.slot].state = "InUse" /\ slots[l.slot].users > 0
    <2> SUFFICES ASSUME At("Release") PROVE <1>10!2
      OBVIOUS
    <2>1. PICK l \in Lease : l.page = run.page /\ held = {l}
      BY DEF LeaseInRun, Cur
    <2>2. /\ run.page \in Pages /\ l.slot \in Slots /\ l \in leases[run.page]
          /\ Has(vram[run.page][l.slot])
      BY <1>1, <2>1 DEF Lease, At, IInv, LeasesAgree
    <2>3. /\ l.gen = gen[run.page] /\ slots[l.slot].page = run.page
          /\ slots[l.slot].state = "InUse"
      BY <2>2 DEF IInv, LeasesAgree
    <2>4. slots[l.slot].gen = gen[run.page] /\ slots[l.slot].users = 1
      BY <2>2, <2>3, SlottedPage
    <2> QED
      BY <2>1, <2>2, <2>3, <2>4 DEF Identifies, Cur
  <1> QED
    BY <1>2, <1>3, <1>4, <1>5, <1>6, <1>7, <1>8, <1>9, <1>10 DEF CallsAccepted

\* Whatever works are added, run, refused or cancelled, and whatever the reads answer,
\* manager and run stay in step: the invariant of every other theorem here.
THEOREM SchedulerInvariance == WSpec => []WIInv
  <1> QED
    BY WInitInvariant, WNextInvariant, PTL DEF WSpec

\* Manager and scheduler variables keep the types of their Rust fields.
THEOREM SchedulerTypes == WSpec => []WTypeOK
  <1>1. WIInv => WTypeOK
    BY DEF WIInv, IInv, WTypeOK
  <1> QED
    BY <1>1, SchedulerInvariance, PTL

\* Every behaviour of WavefrontScheduler is one of ResidencyManager: run_one passes the
\* manager only what earlier calls returned.  Nothing here assumes the Contract of the
\* manager's callers: run_one keeps both clauses (StepIsCareful), so that IInv holds under
\* the scheduler too.
THEOREM SchedulerUsesManager == WSpec => Spec
  <1>1. WInit => Init
    BY DEF WInit
  <1>2. WIInv /\ [WNext]_wvars => [Next]_vars
    BY StepOfManager DEF WIInv, IInv
  <1> QED
    BY <1>1, <1>2, SchedulerInvariance, PTL DEF WSpec, Spec

\* Whatever call run_one returns at, no lease survives it: acquire_compute cannot leak
\* one, and no `?` stands between it and release_compute.
THEOREM RunsLeaveNoLease == WSpec => []IdleHoldsNoLease
  <1>1. WIInv => IdleHoldsNoLease
    BY DEF WIInv, LeaseInRun, IdleHoldsNoLease, Idle, At
  <1> QED
    BY <1>1, SchedulerInvariance, PTL

\* What each call of run_one needs beside room, it finds: the ticket, slot and lease the
\* run was given are still its own, whatever the owner did between runs.
THEOREM RunsKeepTheirClaims == WSpec => []CallsAccepted
  <1>1. WIInv => CallsAccepted
    BY RunCallsAccepted
  <1> QED
    BY <1>1, SchedulerInvariance, PTL

\* Whatever call run_one returns at, no slot is left Uploading: once queue_upload
\* succeeds, start_upload and complete_upload find what they need (CallsAccepted).
THEOREM RunsLeaveNoUpload == WSpec => []IdleUploadsNothing
  <1>1. WIInv => IdleUploadsNothing
    BY DEF WIInv, UploadInRun, IdleUploadsNothing, Idle
  <1> QED
    BY <1>1, SchedulerInvariance, PTL

\* Whatever call run_one returns at, it leaves neither a lease nor an upload behind.
THEOREM RunsLeaveNothing == WSpec => []IdleHoldsNothing
  <1>1. IdleHoldsNoLease /\ IdleUploadsNothing => IdleHoldsNothing
    BY DEF IdleHoldsNothing
  <1> QED
    BY <1>1, RunsLeaveNoLease, RunsLeaveNoUpload, PTL
-----------------------------------------------------------------------------
(* Speculative work                                                         *)

\* Some mandatory payload has arrived.
MandatoryArrived == \E t \in TicketId :
    /\ tickets[t].kind = "NvmeRead" /\ tickets[t].status = "Completed"
    /\ class[tickets[t].page] = "Mandatory"

ReadDone(t) == tickets[t].kind = "NvmeRead" /\ tickets[t].status = "Completed"
BeforePayload == {"QueueRead", "StartRead", "Read", "CompleteRead"}

\* What run_one has measured, and what a run that is not mandatory was
\* admitted on.  A page is added once, so what arrived keeps its class.
SpeculationInv ==
    /\ measured > 0 => MandatoryArrived
    /\ SpeculationBehindMandatory
    /\ ~Idle /\ class[Cur] # "Mandatory" => MandatoryArrived
    /\ run.pc \in BeforePayload /\ class[Cur] # "Mandatory"
          => Fits(pinnedUsed, Cur, PinnedBudget)
    /\ \A t \in TicketId : ReadDone(t) =>
          tickets[t].page \in Pages /\ Registered(tickets[t].page)

\* No call of the manager forgets a record.
LEMMA RegisteredStays ==
    ASSUME IInv, [Next]_vars, NEW p \in Pages, Registered(p)
    PROVE  Registered(p)'
  <1> USE DEF Registered
  <1>0. /\ state \in [Pages -> PageState]
        /\ \A from, to : to # "Unregistered" /\ from # "Unregistered"
              => After(from, to) # "Unregistered"
    BY DEF IInv, TypeOK, After
  <1>1. ASSUME NEW q \in Pages, PageStep(q) PROVE state'[p] # "Unregistered"
    <2>1. CASE \/ Register(q) \/ PublishRamPageable(q) \/ ReserveVram(q)
               \/ PromotePageableToPinned(q)
      BY <1>0, <2>1 DEF Register, PublishRamPageable, ReserveVram, PromotePageableToPinned
    <2>2. CASE EvictPageableRam(q) \/ EvictRam(q)
      <3>1. After("Evicting", AfterRamEviction(q)) # "Unregistered"
        BY <1>0 DEF AfterRamEviction
      <3> QED
        BY <1>0, <2>2, <3>1 DEF EvictPageableRam, EvictRam
    <2>3. CASE QueueNvmeRead(q)
      BY <1>0, <2>3 DEF QueueNvmeRead, Goto
    <2>4. CASE \E g \in Generation : AdvanceGeneration(q, g)
      BY <1>0, <2>4 DEF AdvanceGeneration
    <2> QED
      BY <1>1, <2>1, <2>2, <2>3, <2>4 DEF PageStep
  <1>2. ASSUME NEW q \in Pages, NEW s \in Slots, SlotStep(q, s)
        PROVE  state'[p] # "Unregistered"
    <2>1. CASE QueueUpload(q, s)
      BY <1>0, <2>1, UploadQueued
    <2> QED
      BY <1>0, <1>2, <2>1 DEF SlotStep, MarkComputeReady, AcquireCompute, EvictVram, Goto
  <1>3. ASSUME NEW t \in TicketId, TicketStep(t) PROVE state'[p] # "Unregistered"
    <2>1. CASE StartNvmeRead(t) \/ StartUpload(t)
      BY <1>0, <2>1 DEF StartNvmeRead, StartUpload, Goto
    <2>2. CASE CompleteNvmeRead(t)
      BY <1>0, <2>2 DEF CompleteNvmeRead
    <2>3. CASE \E s \in Slots : CompleteUpload(t, s)
      BY <1>0, <2>3 DEF CompleteUpload
    <2>4. CASE RefuseNvmeRead(t) \/ CancelTicket(t)
      BY <2>4 DEF RefuseNvmeRead, CancelTicket, record
    <2> QED
      BY <1>3, <2>1, <2>2, <2>3, <2>4 DEF TicketStep
  <1>4. ASSUME NEW l \in held, ReleaseCompute(l) PROVE state'[p] # "Unregistered"
    BY <1>0, <1>4 DEF ReleaseCompute, Goto
  <1>5. CASE UNCHANGED vars
    BY <1>5 DEF vars, record
  <1> QED
    BY <1>1, <1>2, <1>3, <1>4, <1>5 DEF Next

\* Nor does one touch a ticket that is Completed.
LEMMA CompletedStays ==
    ASSUME IInv, [Next]_vars, NEW t \in TicketId, tickets[t].status = "Completed"
    PROVE  tickets'[t] = tickets[t]
  <1>0. /\ tickets \in [TicketId -> TransferTicket]
        /\ t # nextTicket
    BY DEF IInv, TypeOK, FreshTickets, NoTicket
  <1>1. ASSUME NEW p \in Pages, PageStep(p) PROVE tickets'[t] = tickets[t]
    BY <1>0, <1>1 DEF PageStep, Register, PublishRamPageable, PromotePageableToPinned,
        EvictPageableRam, EvictRam, QueueNvmeRead, ReserveVram, AdvanceGeneration,
        NewTicket, transfer
  <1>2. ASSUME NEW p \in Pages, NEW s \in Slots, SlotStep(p, s) PROVE tickets'[t] = tickets[t]
    BY <1>0, <1>2 DEF SlotStep, QueueUpload, MarkComputeReady, AcquireCompute, EvictVram,
        NewTicket, transfer
  <1>3. ASSUME NEW u \in TicketId, TicketStep(u) PROVE tickets'[t] = tickets[t]
    BY <1>0, <1>3 DEF TicketStep, StartNvmeRead, RefuseNvmeRead, CompleteNvmeRead, StartUpload,
        CompleteUpload, CancelTicket, Mark, CanStart, CanFail, CanCancel, CanFirstByte
  <1>4. ASSUME NEW l \in held, ReleaseCompute(l) PROVE tickets'[t] = tickets[t]
    BY <1>4 DEF ReleaseCompute, transfer
  <1>5. CASE UNCHANGED vars
    BY <1>5 DEF vars, transfer
  <1> QED
    BY <1>1, <1>2, <1>3, <1>4, <1>5 DEF Next

\* What has arrived stays arrived while classes stay.
LEMMA ArrivedStays ==
    ASSUME IInv, [Next]_vars, MandatoryArrived,
           \A t \in TicketId : ReadDone(t) => class'[tickets[t].page] = class[tickets[t].page]
    PROVE  MandatoryArrived'
  BY CompletedStays DEF MandatoryArrived, ReadDone

\* No read completes in most calls of run_one, and the run stays with its page.
LEMMA RunKeepsSpeculation ==
    ASSUME WIInv, WIInv', SpeculationInv, [Next]_vars, ~Idle,
           UNCHANGED <<class, measured>>,
           stage' = stage \/ \E s \in WorkStage : stage' = [stage EXCEPT ![Cur] = s],
           run' = NoRun \/ run'.page = run.page,
           \A t \in TicketId : ReadDone(t)' => tickets'[t] = tickets[t],
           run'.pc \in BeforePayload => run.pc \in BeforePayload /\ pinnedUsed' = pinnedUsed
    PROVE  SpeculationInv'
  <1>1. MandatoryArrived => MandatoryArrived'
    BY ArrivedStays DEF WIInv
  <1>2. Cur \in Pages /\ stage \in [Pages -> WorkStage]
    BY DEF WIInv, RunNamed, RunTyped
  <1>3. (measured > 0 => MandatoryArrived)'
    BY <1>1 DEF SpeculationInv
  <1>4. SpeculationBehindMandatory'
    <2> SUFFICES ASSUME NEW p \in Pages, class'[p] # "Mandatory",
                        stage'[p] \notin {"None", "Waiting", "Cancelled"}
                 PROVE  MandatoryArrived'
      BY DEF SpeculationBehindMandatory, MandatoryArrived
    <2>1. CASE p = Cur
      BY <1>1, <2>1 DEF SpeculationInv
    <2>2. CASE p # Cur
      <3>1. stage'[p] = stage[p]
        BY <1>2, <2>2
      <3> QED
        BY <1>1, <3>1 DEF SpeculationInv, SpeculationBehindMandatory, MandatoryArrived
    <2> QED
      BY <2>1, <2>2
  <1>5. (~Idle /\ class[Cur] # "Mandatory" => MandatoryArrived)'
    BY <1>1 DEF SpeculationInv, Idle, Cur, NoRun
  <1>6. (run.pc \in BeforePayload /\ class[Cur] # "Mandatory"
            => Fits(pinnedUsed, Cur, PinnedBudget))'
    BY DEF SpeculationInv, Fits, Cur, NoRun, BeforePayload
  <1>7. ASSUME NEW t \in TicketId, ReadDone(t)'
        PROVE  (tickets[t].page \in Pages /\ Registered(tickets[t].page))'
    <2>1. ReadDone(t) /\ tickets'[t] = tickets[t]
      BY <1>7 DEF ReadDone
    <2>2. tickets[t].page \in Pages /\ Registered(tickets[t].page)
      BY <2>1 DEF SpeculationInv
    <2> QED
      BY <2>1, <2>2, RegisteredStays DEF WIInv, Registered
  <1> QED
    BY <1>3, <1>4, <1>5, <1>6, <1>7 DEF SpeculationInv

\* The calls of a run that complete no read.
LEMMA OtherCallsKeepSpeculation ==
    ASSUME WIInv, WIInv', SpeculationInv, [Next]_vars, RunStep, ~CompleteRead
    PROVE  SpeculationInv'
  <1> USE DEF BeforePayload, Continue, Stop, NoRun
  <1>0. /\ tickets \in [TicketId -> TransferTicket] /\ Cur \in Pages \cup {NoPage}
        /\ run = [pc |-> run.pc, page |-> run.page, ticket |-> run.ticket, slot |-> run.slot]
    BY DEF WIInv, IInv, TypeOK, RunTyped, Cur
  <1>1. CASE QueueRead
    <2>1. \A t \in TicketId : ReadDone(t)' => tickets'[t] = tickets[t]
      BY <1>0, <1>1 DEF QueueRead, QueueNvmeRead, NewTicket, ReadDone, vars, transfer
    <2>2. pinnedUsed' = pinnedUsed
      BY <1>1 DEF QueueRead, QueueNvmeRead, vars, bytes
    <2> QED
      BY <1>0, <1>1, <2>1, <2>2, RunKeepsSpeculation DEF QueueRead, At, Idle, work
  <1>2. CASE StartRead
    <2>1. /\ \A t \in TicketId : ReadDone(t)' => tickets'[t] = tickets[t]
          /\ pinnedUsed' = pinnedUsed
      BY <1>0, <1>2 DEF StartRead, StartNvmeRead, Mark, ReadDone, bytes
    <2> QED
      BY <1>0, <1>2, <2>1, RunKeepsSpeculation DEF StartRead, At, Idle, Stage, WorkStage
  <1>3. CASE \E ok \in BOOLEAN : Read(ok)
    <2>1. UNCHANGED <<tickets, pinnedUsed, stage, class, measured>>
      BY <1>3 DEF Read, vars, transfer, bytes, work
    <2> QED
      BY <1>0, <1>3, <2>1, RunKeepsSpeculation DEF Read, At, Idle
  <1>4. CASE Reserve
    <2>1. UNCHANGED <<tickets, stage, class, measured>>
      BY <1>4 DEF Reserve, ReserveVram, vars, transfer, work
    <2>2. run'.pc \in {"Idle", "QueueUpload"} /\ (run' = NoRun \/ run'.page = run.page)
      <3>1. run' = NoRun \/ \E s \in Slots : run' = [run EXCEPT !.pc = "QueueUpload", !.slot = s]
        BY <1>4 DEF Reserve
      <3>2. ASSUME NEW v, run' = [run EXCEPT !.pc = "QueueUpload", !.slot = v]
            PROVE  run'.pc = "QueueUpload" /\ run'.page = run.page
        BY <3>2 DEF WIInv, RunTyped
      <3>3. CASE run' = NoRun
        BY <3>3
      <3> QED
        BY <3>1, <3>2, <3>3
    <2> QED
      BY <1>4, <2>1, <2>2, RunKeepsSpeculation DEF Reserve, At, Idle
  <1>5. CASE QueueUp
    <2>1. \A t \in TicketId : ReadDone(t)' => tickets'[t] = tickets[t]
      <3>0. Cur \in Pages /\ run.slot \in Slots
        BY <1>5 DEF QueueUp, At, Idle, Cur, WIInv, RunNamed, RunTyped
      <3>1. CASE QueueUpload(Cur, run.slot)
        <4>1. NewTicket(Cur, "RamToVram",
                        slots[run.slot].state = "Reserved" /\ Legal(Cur, "UploadQueued"))
          BY <3>0, <3>1, UploadQueued
        <4> QED
          BY <1>0, <4>1 DEF NewTicket, ReadDone
      <3> QED
        BY <1>0, <1>5, <3>1 DEF QueueUp, vars, transfer
    <2>2. run'.pc \in {"Idle", "StartUpload"} /\ (run' = NoRun \/ run'.page = run.page)
      <3>1. run' = NoRun \/ run' = [run EXCEPT !.pc = "StartUpload", !.ticket = nextTicket]
        BY <1>5 DEF QueueUp
      <3>2. ASSUME NEW v, run' = [run EXCEPT !.pc = "StartUpload", !.ticket = v]
            PROVE  run'.pc = "StartUpload" /\ run'.page = run.page
        BY <3>2 DEF WIInv, RunTyped
      <3>3. CASE run' = NoRun
        BY <3>3
      <3> QED
        BY <3>1, <3>2, <3>3
    <2> QED
      BY <1>5, <2>1, <2>2, RunKeepsSpeculation DEF QueueUp, At, Idle, work
  <1>6. CASE StartUp
    <2>1. \A t \in TicketId : ReadDone(t)' => tickets'[t] = tickets[t]
      BY <1>0, <1>6 DEF StartUp, StartUpload, Mark, ReadDone
    <2>2. run'.pc = "CompleteUpload" /\ run'.page = run.page
      BY <1>0, <1>6 DEF StartUp
    <2> QED
      BY <1>6, <2>1, <2>2, RunKeepsSpeculation DEF StartUp, At, Idle, Stage, WorkStage
  <1>7. CASE CompleteUp
    <2>1. \A t \in TicketId : ReadDone(t)' => tickets'[t] = tickets[t]
      <3>1. tickets[run.ticket].kind = "RamToVram"
        BY <1>7 DEF CompleteUp, WIInv, RunPlace, RunTicket
      <3> QED
        BY <1>0, <1>7, <3>1 DEF CompleteUp, CompleteUpload, ReadDone
    <2>2. run'.pc = "MarkReady" /\ run'.page = run.page
      BY <1>0, <1>7 DEF CompleteUp
    <2> QED
      BY <1>7, <2>1, <2>2, RunKeepsSpeculation DEF CompleteUp, At, Idle, work
  <1>8. CASE MarkReady
    <2>1. UNCHANGED tickets /\ run'.pc = "Acquire" /\ run'.page = run.page
      BY <1>0, <1>8 DEF MarkReady, MarkComputeReady, transfer
    <2> QED
      BY <1>8, <2>1, RunKeepsSpeculation DEF MarkReady, At, Idle, work
  <1>9. CASE Acquire
    <2>1. UNCHANGED tickets /\ run'.pc \in {"Idle", "Release"}
          /\ (run' = NoRun \/ run'.page = run.page)
      BY <1>0, <1>9 DEF Acquire, AcquireCompute, transfer, vars
    <2> QED
      BY <1>9, <2>1, RunKeepsSpeculation DEF Acquire, At, Idle, Stage, WorkStage
  <1>10. CASE Release
    <2>1. UNCHANGED tickets /\ run'.pc = "Idle" /\ run' = NoRun
      BY <1>10 DEF Release, ReleaseCompute, transfer
    <2> QED
      BY <1>10, <2>1, RunKeepsSpeculation DEF Release, At, Idle, Stage, WorkStage
  <1> QED
    BY <1>1, <1>2, <1>3, <1>4, <1>5, <1>6, <1>7, <1>8, <1>9, <1>10 DEF RunStep

\* complete_nvme_read: a mandatory payload that arrives is the one measured.
LEMMA CompleteReadKeepsSpeculation ==
    ASSUME WIInv, WIInv', SpeculationInv, [Next]_vars, CompleteRead
    PROVE  SpeculationInv'
  <1>0. /\ tickets \in [TicketId -> TransferTicket]
        /\ run.pc = "CompleteRead" /\ Cur \in Pages /\ run.ticket \in TicketId
        /\ UNCHANGED <<class, stage>>
    BY DEF CompleteRead, WIInv, IInv, TypeOK, RunNamed, Idle, At, work
  <1>1. CASE RefuseNvmeRead(run.ticket) /\ Stop /\ UNCHANGED measured
    <2>1. \A t \in TicketId : ReadDone(t)' => tickets'[t] = tickets[t]
      BY <1>0, <1>1 DEF RefuseNvmeRead, Mark, ReadDone
    <2>2. run' = NoRun /\ run'.pc \notin BeforePayload
      BY <1>1 DEF Stop, NoRun, BeforePayload
    <2> QED
      BY <1>0, <1>1, <2>1, <2>2, RunKeepsSpeculation DEF Idle
  <1>2. CASE ~(RefuseNvmeRead(run.ticket) /\ Stop /\ UNCHANGED measured)
    <2>1. /\ CompleteNvmeRead(run.ticket)
          /\ run' = [run EXCEPT !.pc = "Reserve"]
          /\ measured' = measured + IF class[Cur] = "Mandatory" THEN PageBytes[Cur] ELSE 0
      BY <1>2 DEF CompleteRead, Continue
    <2>2. tickets' = [tickets EXCEPT ![run.ticket].status = "Completed"]
          /\ tickets[run.ticket].kind = "NvmeRead" /\ tickets[run.ticket].page = Cur
      BY <1>0, <2>1, RunReadLegal DEF CompleteNvmeRead, Mark, Cur
    <2>3. state'[Cur] # "Unregistered"
      <3>1. Legal(Cur, "RamReady")
        BY <1>0, RunReadLegal DEF Cur
      <3>2. Registered(Cur)
        BY <3>1 DEF Legal, LegalTransition, Successors, Registered
      <3> QED
        BY <1>0, <3>2, RegisteredStays DEF WIInv, Registered
    <2>4. run'.pc = "Reserve" /\ run'.page = run.page
      BY <2>1 DEF WIInv, RunTyped
    <2>5. MandatoryArrived => MandatoryArrived'
      BY <1>0, ArrivedStays DEF WIInv
    <2>6. class[Cur] = "Mandatory" => MandatoryArrived'
      BY <1>0, <2>2 DEF MandatoryArrived, TransferTicket
    <2>7. (measured > 0 => MandatoryArrived)'
      BY <2>1, <2>5, <2>6 DEF SpeculationInv, WIInv, RunTyped
    <2>8. SpeculationBehindMandatory'
      BY <1>0, <2>5 DEF SpeculationInv, SpeculationBehindMandatory, MandatoryArrived
    <2>9. (~Idle /\ class[Cur] # "Mandatory" => MandatoryArrived)'
      BY <1>0, <2>4, <2>5 DEF SpeculationInv, Idle, Cur
    <2>10. run'.pc \notin BeforePayload
      BY <2>4 DEF BeforePayload
    <2>11. ASSUME NEW t \in TicketId, ReadDone(t)'
           PROVE  (tickets[t].page \in Pages /\ Registered(tickets[t].page))'
      <3>1. CASE t = run.ticket
        <4>1. tickets'[t].page = Cur
          BY <1>0, <2>2, <3>1 DEF TransferTicket
        <4> QED
          BY <1>0, <2>3, <2>4, <4>1 DEF Registered, Cur
      <3>2. CASE t # run.ticket
        <4>1. tickets'[t] = tickets[t]
          BY <1>0, <2>2, <3>2
        <4>2. tickets[t].page \in Pages /\ Registered(tickets[t].page)
          BY <2>11, <4>1 DEF SpeculationInv, ReadDone
        <4> QED
          BY <4>1, <4>2, RegisteredStays DEF WIInv, Registered
      <3> QED
        BY <3>1, <3>2
    <2> QED
      BY <2>7, <2>8, <2>9, <2>10, <2>11 DEF SpeculationInv
  <1> QED
    BY <1>1, <1>2

\* Between runs: works are added for pages never seen before, admitted on
\* slack, or cancelled, and the owner makes room.
LEMMA OwnerKeepsSpeculation ==
    ASSUME WIInv, WIInv', SpeculationInv, [Next]_vars, Idle,
           \/ \E p \in Pages, c \in Class : Add(p, c)
           \/ CancelSpeculative
           \/ \E p \in Pages : Begin(p)
           \/ Maintain
    PROVE  SpeculationInv'
  <1>0. /\ class \in [Pages -> Class] /\ stage \in [Pages -> WorkStage]
        /\ UNCHANGED <<tickets, measured>>
    BY DEF WIInv, RunTyped, Add, Register, CancelSpeculative, Begin, Maintain, EvictVram,
           EvictRam, AdvanceGeneration, vars, transfer
  <1>1. \A t \in TicketId : ReadDone(t) => class'[tickets[t].page] = class[tickets[t].page]
    <2>1. \A p \in Pages : Registered(p) => class'[p] = class[p]
      BY <1>0 DEF Add, Register, CancelSpeculative, Begin, Maintain, work
    <2> QED
      BY <2>1 DEF SpeculationInv
  <1>2. MandatoryArrived => MandatoryArrived'
    BY <1>1, ArrivedStays DEF WIInv
  <1>3. \A t \in TicketId : ReadDone(t)' =>
           (tickets[t].page \in Pages /\ Registered(tickets[t].page))'
    BY <1>0, RegisteredStays DEF SpeculationInv, ReadDone, WIInv, Registered
  <1>4. ASSUME NEW p \in Pages, class'[p] # "Mandatory",
               stage'[p] \notin {"None", "Waiting", "Cancelled"}
        PROVE  MandatoryArrived'
    <2>1. class'[p] = class[p] /\ stage'[p] = stage[p]
      BY <1>0, <1>4 DEF Add, CancelSpeculative, Begin, Maintain, work
    <2> QED
      BY <1>2, <1>4, <2>1 DEF SpeculationInv, SpeculationBehindMandatory, MandatoryArrived
  <1>5. CASE run' = run
    <2>1. run'.pc = "Idle"
      BY <1>5 DEF Idle
    <2> QED
      BY <1>0, <1>2, <1>3, <1>4, <2>1
      DEF SpeculationInv, SpeculationBehindMandatory, MandatoryArrived, BeforePayload, Idle
  <1>6. CASE run' # run
    <2>1. PICK p \in Pages : Begin(p)
      BY <1>6 DEF Add, CancelSpeculative, Maintain
    <2>2. /\ Allow(p) /\ UNCHANGED <<class, pinnedUsed>>
          /\ run' = [NoRun EXCEPT !.pc = "QueueRead", !.page = p]
      BY <1>6, <2>1 DEF Begin, vars, bytes
    <2>3. run'.pc = "QueueRead" /\ run'.page = p
      BY <2>2 DEF NoRun
    <2>4. ASSUME class[p] # "Mandatory"
          PROVE  MandatoryArrived /\ pinnedUsed + PageBytes[p] <= PinnedBudget
      <3>1. measured > 0 /\ Monus(PinnedBudget, pinnedUsed) >= PageBytes[p]
        BY <2>2, <2>4 DEF Allow, Slack, PinnedSlack
      <3>2. PageBytes[p] \in Nat \ {0} /\ pinnedUsed \in Nat /\ PinnedBudget \in Nat
        BY BytesAssumption, BudgetAssumption DEF WIInv, IInv, TypeOK
      <3> QED
        BY <3>1, <3>2 DEF Monus, SpeculationInv
    <2> QED
      BY <1>0, <1>2, <1>3, <1>4, <2>2, <2>3, <2>4
      DEF SpeculationInv, SpeculationBehindMandatory, MandatoryArrived, Fits, Cur
  <1> QED
    BY <1>5, <1>6

\* require_measured_mandatory_bytes and the slack of run_one mean what they say:
\* no byte is read for optional work before a mandatory payload has arrived, and
\* optional work once admitted finds the pinned room it was admitted on.
THEOREM SpeculationWaits == WSpec => []SpeculationSound
  <1>1. WInit => SpeculationInv
    BY DEF WInit, Init, SpeculationInv, SpeculationBehindMandatory, Idle, NoRun, NoTicket,
           ReadDone, BeforePayload
  <1>2. WIInv /\ WIInv' /\ SpeculationInv /\ [WNext]_wvars => SpeculationInv'
    <2> SUFFICES ASSUME WIInv, WIInv', SpeculationInv, [WNext]_wvars PROVE SpeculationInv'
      OBVIOUS
    <2>1. [Next]_vars
      BY StepOfManager DEF WIInv, IInv
    <2>2. CASE RunStep
      BY <2>1, <2>2, OtherCallsKeepSpeculation, CompleteReadKeepsSpeculation
    <2>3. CASE \/ \E p \in Pages, c \in Class : Add(p, c)
               \/ CancelSpeculative \/ (\E p \in Pages : Begin(p)) \/ Maintain
      <3>1. Idle
        BY <2>3 DEF Add, CancelSpeculative, Begin, Maintain
      <3> QED
        BY <2>1, <2>3, <3>1, OwnerKeepsSpeculation
    <2>4. CASE UNCHANGED wvars
      BY <2>4 DEF wvars, vars, record, transfer, bytes, work, SpeculationInv, Registered,
         SpeculationBehindMandatory, MandatoryArrived, ReadDone, Idle, Cur, Fits
    <2> QED
      BY <2>2, <2>3, <2>4 DEF WNext
  <1>3. SpeculationInv => SpeculationSound
    BY DEF SpeculationInv, SpeculationSound, AdmittedSpeculationFits, At, BeforePayload
  <1> QED
    BY <1>1, <1>2, <1>3, SchedulerInvariance, PTL DEF WSpec

=============================================================================
