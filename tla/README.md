# TLA+ models of REMORA Lab's HAR runtime

TLA+ specifications, TLC runs and TLAPS proofs kept beside `har/`, the Rust
runtime of REMORA Lab. Paths are relative to `src/har/crates/` unless they start
with `src/`. `manager.rs` and `types.rs` are in `har-residency/src/`; "the wavefront
scheduler" is `har-residency/src/scheduler.rs`, "the serve scheduler" is
`har-serve/src/scheduler.rs`.

1. [The system](#1-the-system)
2. [The modules](#2-the-modules)
3. [The runs](#3-the-runs)
4. [The proofs](#4-the-proofs)
5. [Where the code departs from what it says](#5-where-the-code-departs-from-what-it-says)
6. [What is not modelled](#6-what-is-not-modelled)
7. [Plan](#7-plan)

## 1. The system

HAR decodes language models whose weights do not fit in VRAM. A page of weights or
KV travels NVMe → RAM → a VRAM slot → compute. Above that, a scheduler batches
requests and resumes them from cached states of shared prefixes. Below it, a Vulkan
layer owns the device. A family of offline programs (model reader, compiler, slices
and packages, the HAR language) produces the files and the immutable plans the
runtime executes.

```text
 model file ── readers ──> compiler ── formats ──> package, slices, sidecar, plan
                                                          │
 HTTP front end ── submit/step ──> serve scheduler ── batch_step ──> model back ends
   │ calibration                        │ nodes, edges               (dense, moe, GPU kernels)
   v                                    v
 speculation                       prefix graph (har-kv) <── leases ── ContextFold ── page stores
 execution engine ── plan ─┐
 wavefront scheduler ── calls ──> residency manager ── tickets, slots, leases
        │ read thread                   ^ snapshots
        v                               └── MTP provider, metabolism controller <── decode control
 direct I/O engine (threads, condvar)
 host memory: expert LRU, pinned pool, elastic budget, R4KV tiers and DMA
 Vulkan boundary: expert slots, queues, timeline events
```

Each part, with its state, its operations and what makes it correct:

| part | state | operations | correct when |
|---|---|---|---|
| residency manager | per page: state, generation, replicas, leases; VRAM slot table; tickets; byte and queue counters | register, publish, promote, evict (three places), queue/start/refuse/complete a read, reserve, queue/start/complete an upload, mark ready, acquire, release, cancel, advance generation | a slot never has two pages; nothing moves under a lease; a late answer moves nothing; counters of pageable RAM, VRAM and leases never understate |
| wavefront scheduler | a work per page, the run under way, measured bytes | `add`, `run_one`, `run_all`, `cancel_speculative`, direct use of the manager between runs | a run that stops half way leaves no lease and no uploading slot; speculation waits for mandatory bytes and fits |
| serve scheduler | prefix graph, pool of cached states with pins, sequences, queue, step index | `submit`, `step` (admit, sample, prefill, decode, unpin, evict), `run_to_idle` | a request's tokens do not depend on what runs beside it; live paths stay; the budget holds; a loop over `step` leaves nothing running |
| HTTP front end | one scheduler, the policy it runs under, the connection served | accept, step until Idle, stream events, calibrate | every connection is answered, streamed and whole answers are those of a solo run |
| direct I/O engine | permits, accounting, closed flag, a cancel flag per read | `submit`, worker, `cancel`, `close` | permits are never lost or exceeded; no lost wakeup; one settlement per request |
| Vulkan objects and queues | wrappers holding the device; command buffers, the next timeline value, submissions kept alive by events | open, create, record, submit, wait, drop | what was created is destroyed once and in order; an event that reads complete means executed; buffers outlive their work |
| Vulkan expert slots | slots with keys and events, under a lock | reserve, mark uploading/ready, acquire, release, evict | a slot that is handed out holds what its key says |
| expert LRU, pinned pool, elastic budget | entries with pins; free and used blocks; budget, phase, pending change | insert, pin; acquire, release; request, commit when idle | within capacity with pins kept; blocks tile the arena; a budget moves as far as it may |
| R4KV tiers and DMA | hot and lukewarm pages against watermarks; queue, arena, records | access; enqueue, submit, poll, await, reclaim | counters agree with records; watermarks, arena and queue stay within bounds |
| metabolism | reserve and debt, ledger of work and credit, clocks, telemetry join | commit, release, settle; record, reclaim, credit; observe, approve | commitments within capacity, no double credit, books agree with what happened |
| prefix graph, ContextFold | nodes with reference counts, pages with representations and leases, generations; hot set, page stores | extend, retain/release, attach, lease, evict; persist, select, promote | nothing leased goes; what is loaded is what was persisted; a lease on an exact copy keeps attention served |
| execution engine, plans | plan tables; the block being resolved, telemetry | compile, import, validate; dispatch, resolve | an accepted plan runs and fits; a block is counted once or not at all |
| readers, compiler, containers | tensor directories; formats chosen; slice and package files | read, allocate, extract, verify, reconstruct | readers agree; budgets and claims are honest; accepted bytes are the source's |
| decoders, kernels, back ends, tokenizers | caches and recurrent states; shared memory of a workgroup; a flat state | forward, dispatch, batch, encode | cached equals recomputed; a kernel finds its weights; texts come back |

**What is hard here.** There is little true concurrency: most structures are behind
`&mut self`, so a method is atomic. The exceptions are the direct I/O engine
(threads, a mutex, a condition variable, two flags), the Vulkan queues and slot table
(mutexes, and a GPU behind them), the lanes of a shader, and the slice commands, which
are processes over files that others may change. The difficulty lies elsewhere:

- *Half-done calls.* Methods change something, then call something else with `?`.
  There is no rollback.
- *Protocol freedom.* Tickets, slots, leases, handles and timeline events are plain
  values: a caller can present them late, twice, or after the page moved on.
- *Counters apart from what they count.* Budgets and queue positions are checked
  against counters kept by hand, with saturating subtraction.
- *Cached states shared between sequences*, created by one, pinned by several,
  evicted by policy, and expected to be exact.
- *Several implementations of one layout*: three readers of one file format, a
  reference, two decoders and a shader for one block format.

`PROJECT.json` lists each hazard at its line with the properties aimed at it; a
hazard without a property says why.

## 2. The modules

| module | models | role |
|---|---|---|
| `ResidencyManager` | `manager.rs`, `types.rs` | page states and their transitions, tickets, the ledger, its properties, its inductive invariant |
| `MtpResources` | `har-residency/src/mtp.rs` | what the importer of a plan reads of the manager: views, slack, incremental cost |
| `SlotOwnership` | the promise at `manager.rs:131` | abstract specification of VRAM slots |
| `WavefrontScheduler` | wavefront scheduler | extends the manager; `run_one` call by call |
| `ServeScheduler` | serve scheduler, contract of `har-serve/src/speculation.rs` | submit and step over a token-string abstraction |
| `HttpFrontEnd` | `har-serve/src/http.rs`, `server.rs` | extends the serve scheduler: connections, streaming, calibration |
| `DirectIo` | `har-storage/src/direct_io.rs` | callers and workers of the read queue |
| `VulkanQueue`, `ExpertSlots`, `VulkanObjects` | `har-vulkan/src/lib.rs` | queues and events; the slot table over them; handles and their owners |
| `ExpertLru`, `PinnedPool`, `ElasticBudget`, `R4kvTier`, `R4kvDma` | `har-residency/src/expert_lru.rs`, `elastic_budget.rs`, `pinned_pool.rs`, `r4kv` | host memory, one structure each |
| `MemoryRegistry` | `har-memory/src/lib.rs` | records with their own state machine and log; tickets |
| `Metabolism` | `har-metabolism`, `har-runtime/src/metabolism.rs`, `har-decode-control/src/metabolism.rs` | the controller behind its two owners |
| `PrefixGraph`, `ContextFold` | `har-kv`, `har-contextfold` | the KV graph; its controller, which extends it |
| `PageCodecs` | `r4kv/src/f16.rs`, `quant.rs`, `har-kv/src/codec.rs` | number, code and byte codecs |
| `R4kvPages` | `r4kv/src/page.rs`, `capture.rs` | what a stored KV page restores into; which captures are valid |
| `Execution` | `har-plan`, `har-ir`, `har-execution` | plans, dispatch, speculative blocks |
| `GgufReaders`, `Layouts`, `Containers` | `har-model`, `har-storage`, `har-model-compiler`, `har-model-package`, `har-package-slice` | what is where in a file; the commands that move it |
| `Allocation` | `har-model-compiler/src/lib.rs` | roles and formats of tensors under a budget |
| `NativeDecode`, `ServingModels` | `har-demo/src/bin`, `har-serve/src/dense.rs`, `moe.rs`, `har-decode-control/src/language.rs` | decoders, back ends, the draft depth and horizon |
| `QuantLayouts`, `Workgroup` | `har-serve/src/q4k.rs`, `q40.rs`, `attention.rs`, `vulkan.rs`, `src/har/shaders/` | addresses of weights; lanes and barriers |
| `Tokenizers` | `har-serve/src/tokenizer.rs`, `har-native-qwen3.rs` | the two byte-pair tokenizers |
| `MC…` | — | values for TLC; `MCDevice` and `MCPipeline` also put components beside each other |
| `…Proofs`, `DataLemmas` | — | theorems; facts about sums over finite sets, images and recursive functions |

Definitions that are slightly wrong on purpose stand beside the right ones, introduced
by a comment that says "variant"; they show that the properties can tell the difference
and are used by nothing else. The conventions of all modules: a method that returns
`Err` before it changes anything is not enabled; one that fails half way is an action
with the changes made so far; `saturating_sub` is `Monus`; a digest is the value it is
taken of.

**ResidencyManager.** One action per public method that changes state; what fails half way is a
branch (`RefuseNvmeRead`, and those of `EvictRam`, `CompleteUpload`, `AcquireCompute`…). Record
fields are functions from pages; a replica is the generation it was made at, or `NoGen`; the
slot table, tickets and leases are records with the fields the code branches on. Tickets, slots
and leases come back from callers in any order and to any call, which is how crossed and late
calls enter. `queue_upload` looks at the state of the slot it is given and not at whose it is
(629), and no call looks at the kind of a ticket (489, 637): `Contract` says which of these two
`Clauses` ("own slot", "own kind") callers keep to. With `Contract = {}` the model accepts what
the code accepts. Counters are those of the snapshot. `MtpResources` EXTENDS it with the
expressions a plan's importer evaluates between two calls, in whatever state they leave.

**WavefrontScheduler.** EXTENDS the manager and conjoins its actions; it keeps both clauses
by itself, so nothing is assumed of it. `run.pc` is the
next call of `run_one`; each call is a step, so what an error leaves behind is
visible. The calls that can be refused for want of room (a full queue, no slot, the
pinned budget) have a branch that stops the run; for the others `CallsAccepted` states
that what they need is there when the run gets to them, so that leaving their `Err`
out leaves out nothing. The scheduler is borrowed for the whole run, so `Add`,
`CancelSpeculative` and `Maintain` (the owner evicting, or advancing a generation,
through the public `manager` field) happen only when no run is under way.

**ServeScheduler.** A node of the prefix graph is the token string that leads to it; a
hidden state is the string it was computed from; logits are the string they were
computed at. The states are therefore right exactly when the strings are, which makes
"reuse is exact" a plain equation (`HiddenStatesExact`). The model answers by its last
token through `greedy`, chosen once from `Models`: enough to make two prompts diverge
and to produce EOS anywhere. `Step` is the whole of `step()`: admission, sampling
from cached logits, prefill, decode with accepted drafts, unpinning, eviction.
`Victims` is the loop of `evict_to_budget` as the set it removes. A panic of the code
is a state (`panicked`).

**HttpFrontEnd.** EXTENDS the serve scheduler: `Accept` submits, `ServeStep` is one turn
of `run_to_idle` or `handle_streaming` and ends the connection at Idle (or leaves the
server panicked, of which there is one cause, `EndsAtDraft`), `Calibrate` is
`calibrate_auto` after the first connection, which keeps the scheduler or replaces it
(`StartAgain`).

**DirectIo.** `pc[r]` is where a call of `submit`, then its worker, is. The lock is not
a variable: what happens under it is one action (`TakePermit`, `Finish`), and what
happens outside it (the `closed` check, spawning, reading) is another. `Waiting` is
the wait set; `Finish` wakes one, `Close` wakes all, `WakeUp` is a spurious wakeup.
`Hopeless` are the requests whose thread cannot start or panics. `MCWavefrontScheduler` puts
the engine beside the wavefront scheduler, one of the two stepping (`part`).

**VulkanQueue, ExpertSlots, VulkanObjects.** A command buffer goes from recording into a
submission; the timeline value is taken (`TakeValue`) and the submission made in two steps,
because the code releases the lock in between. The GPU is the environment: it starts, finishes
and signals as the Vulkan specification allows. Binding a descriptor set retains nothing and
`submit` keeps the sets passed to it: `sets` is "none", "bound" or "kept". Dropping the last
clone of an event waits. The slot table identifies work by the events its callers pass, and a
clone it drops is waited for with the table locked (`lockWait`): that wait, not a check, is
what keeps a forgotten upload out of the next owner's slot. In `VulkanObjects` a constructor is
a sequence of calls, each of which may fail into the error path of its line.

**Host memory and metabolism.** Each module is the structure's methods over small
numbers. Where the code's order depends on a `HashMap` (LRU ties) or on floating point
scores (tier victims) any candidate may be taken; the tier keeps who was used before whom
as a relation (`older`), which is all that eviction asks of its clock. In `MemoryRegistry` a
record's log is the sequence of its transitions, and a ticket names the generation it was
queued for. `R4kvDma.AwaitCompletion` is a loop of
polls that holds the engine. `Metabolism` has the reserve accounts, the ledger, the
clocks and the event log as the runtime and the decode gate drive them.

**PrefixGraph, ContextFold.** Identities are token strings with an origin; a lease names
page, owner and generation, as its digest does. A retain is a pair of a node and a count
down its lineage, so a node's reference count is the number of retains over it
(`RetainsOver`). `Contract` names what the graph leaves
to its callers: attach a page once, one lease per owner and page, one origin per tree, retain
before release. Each is a guard only if it is a member, and the action goes on as the code does
if it is not (`ReleasePrefix` then takes counts down as far as the first zero). The runs
assume all four, section 5 says what happens without. The
store keeps one entry per page; `payload` remembers what a representation was made of.

**Execution.** `CompileModel`, import and validation are operators over small models
(`Visit` and `Enter` are the recursive `visit` and its loop, the call depth as an argument);
`Resolve`, `Dispatch` and `Finish` resolve a block, and a failing candidate ends it.

**Files.** `GgufReaders` computes spans, slices and row windows as each of three readers
does. `Layouts` has the package writer's fixed point between a manifest and the offsets
it lists, and the sidecar seen by its two readers. `Containers` has the slice commands
as processes: the source may be replaced and a slice rewritten between any two steps,
a writer may stop anywhere.

**KV pages.** In `R4kvPages` a stored page is the sequence of its header's fields, its body
and two CRCs, each the cells it is taken of; truncation, damage and one page torn over
another are what may become of it. The header's `token_count`, which nothing tests, is left
out. In `PageCodecs` a value is a multiple of the least subnormal half, its code comes of the
exact step and what is read back is the code times the step rounded to a half (`HalfStep`), as
`quant.rs` writes it (58) and decodes it (193, 219).

**Decoders and kernels.** Numbers are residues or bit addresses: a product with weights
is an injective-looking mix of its arguments, so that a wrong position, order or row
shows, and a weight is the list of bits it is made of. `Workgroup` runs the lanes of a
shader as processes with barriers and one shared array.
`NativeDecode.Loads` is what each decoder demands of a model before it starts.

## 3. The runs

| run | instance | what it answers |
|---|---|---|
| `serve_plain` | three models over {a, b, EOS}, prompts `a`, `ab`, 4 requests of 0 or 2 tokens, batch of 2, LRU, room for 5 bytes of states and logits, 2 live states (140,540 states) | are streams independent of batching, reuse and eviction? does a loop over `step` that ends at Idle leave nothing running? |
| `serve_speculative` | chunks of 2, up to 2 accepted drafts, prompts `a`, `ab`, `abb`, trunk-first | do states, pins and bytes stay right where a step makes several nodes? |
| `http` | 3 connections (malformed, streamed, whole) over one scheduler, prompts `a`, `ab`, `aba`, policies `none`, `draft` and `auto`, drafts of 2 (382,934 states) | are plain answers those of a solo run, across the change of policy after the first connection? is every connection answered, but for a prompt that ends at an accepted draft? |
| `manager` | 2 interchangeable pages, 1 slot, 3 tickets, 2 generations, 1 lease, queues of capacity 1, room for one page in RAM of each kind, `Contract = {}` (4.3 million states) | do calls in any order, late, repeated, with another call's ticket or slot, or failing half way break a slot, a lease or what a ticket means? |
| `manager_two_slots` | 2 pages, 2 slots, 2 tickets, 2 leases, room for both pages, both clauses of `Contract` (630,885 states) | do replicas, slots, records and counters agree (`IInv`, `BudgetsHold`), and does the manager implement `SlotOwnership`? |
| `wavefront` | two parts (186,084 states): 3 pages of any class, 1 slot, 6 tickets, `Contract = {}`; and 4 reads of the direct I/O engine over 2 permits, one panicking worker, an empty read and one of two chunks | what does a run leave behind, whichever call stops it? does speculation wait and fit? does every run end? are permits, wakeups and accounting right, and does every read return? |
| `device` | Vulkan objects, queues with slots, host memory, registry, metabolism, KV graph, ContextFold (below) | does everything that holds memory free it once, after its last use, and within what it was given? |
| `pipeline` | readers, allocation, containers, layouts, codecs, KV pages, plans, decoders, kernels, tokenizers, back ends (below) | does what is written come back, and does every implementation of a layout or an algorithm compute what its reference does? |
| `claim_streams`, `claim_mid_chunk`, `claim_q8_gemv`, `claim_idle` | the smallest instance of the case | section 5 |

**`device` and `pipeline`** hold components that share no state in the code. The variable
`part` is chosen at the start and only that component steps, so the states add up and do not
multiply; a property is evaluated in the parts that can change what it speaks of. In `device`
(1.36 million states) the instances are: 2 wrapper objects; 2 queues, 2 command buffers,
timeline values to 2, one slot for two keys; 3 pages of 1 or 3 bytes in an LRU of 4; an arena
of 9 bytes aligned to 2; budgets 1..6 in steps of 2; 4 tier pages against watermarks 2 and 3; a
DMA queue of 2 and an arena of 5, which 3 transfers in flight fit; reserves of 6 with epochs to
3 and debts to 2; a graph of depth 2, two origins and at most 4 nodes, and a ContextFold
controller over one edge with two puts; two registry records of 0 to 2 bytes with logs of at
most 5 events, one advance of a generation and two tickets. `Bounds` is the state constraint
that keeps the two graph parts apart (the first has many nodes and no retains beyond two, the
second one edge and no retains) and cuts logs of two records.

In `pipeline` (1.9 million states) the state machines are: blocks of at most 2 candidates over
a plan of two tensors, with room for one event; slice commands over a source that may change,
with 2 extractions; every model of two named tensors, three candidate formats, losses absent,
small or large, three budgets; prompts and continuations of at most 3 tokens through four
decoder geometries, two of which are refused; workgroups of 4 lanes. The rest are inputs of
functions: every tensor type with every alignment entry and offset, every list of at most four
payload sizes around the point where the manifest grows a digit, sidecars of two entries, every
kernel at rows and blocks per row on both sides of its vectorisation limits, `q4k_batched` up
to the 8 it admits, texts over letters, space, apostrophe, digit, two-byte character and `<`,
draft plans to depth 4, KV pages differing in every field and torn at every cell, capture
manifests of every map of up to 4 query heads, halves of 3+3 bits against singles of 5+6,
groups of 8 codes of 3 bits and the same as values in units of 1 to 400 least subnormals (steps
that round to zero, that are subnormal and that are not), byte strings to length 5 with runs of
at most 2.

**Why the bounds are enough.** One slot is what makes two pages compete; the second slot is
needed only for "no page holds two" and for refinement. Three tickets allow a stale read, a
fresh read of the same page and an upload together, the longest crossing the manager
distinguishes; two generations give one advance. Capacity 1 makes every queue full at its first
use. In `wavefront`, three pages give each class at once, six tickets give each page a read and
an upload. In `serve_plain`, prompts where one is a prefix of the other, a third and a fourth
request after both, and a budget below what two sequences produce are what reuse, sharing and
eviction under load need; 0 and 2 tokens cover the boundary of `max_new`. In `http`, the prompt
`aba` ends where the drafts of an earlier one leave a node. In the direct I/O part of
`wavefront`, with one permit gone for good, three calls share the other. A slot contested by
two keys, two queues and a second timeline value are what stale events need; an arena that
holds three blocks but not four fragments and coalesces on both sides; a narrow float has every
case of a wide one (subnormals, ties, carries, infinity); a run of the greatest length and one
longer than it are in five bytes. The bounds `MaxGen`, `MaxTickets`, `MaxLeases`,
`MaxRequests`, `MaxConnections`, `MaxTime`, `MaxHandles`, `MaxEpoch`, `MaxTransfers`,
`MaxObservations`, `MaxSpent`, `MaxReserveEpoch`, `MaxDebt`, `MaxRetains`, `MaxPuts`,
`MaxBlocks`, `MaxExtractions`, `MaxNodes`, `MaxEvents`, `MaxBumps` and `MaxQueued` cut counters
off in guards; the theorems hold for every value of those of their modules.

**Deadlock** is not checked: each system may really stop (no tickets left to hand out,
all requests served, all reads done, one input examined). Progress is stated by the
liveness properties.

**Fairness.**
- `WF(RunStep)`: `run_one` is a sequential function that joins its read thread.
  Nothing obliges an owner to start a run.
- `WF(Step /\ report # "Idle")`: `run_to_idle` and `handle_streaming` are loops around `step`
  that return at the first Idle, and each new request enters one. Nothing obliges anyone to
  step after an Idle. `LoopsEndAtRest` says what such a loop leaves: every sequence it
  admitted is finished, and requests are queued only behind a full batch that the last step
  admitted and finished. That it leaves nothing queued is what line 966 says and
  `claim_idle` refutes.
- `WF(ServeStep)` and `WF(Calibrate)` in `http`: the connection thread runs its loop, and
  the accept loop calibrates before it accepts again. Clients have no fairness.
- `WF(Proceed(r))` for each request: the operating system runs a thread that can run
  and `pread` returns. Cancelling, closing and spurious wakeups have no fairness, so
  nothing may depend on them.

## 4. The proofs

Constants are arbitrary in all of them, under the named ASSUMEs of the modules.

**Residency manager** (`ResidencyManagerProofs`). There are two invariants, because the code
checks less of its callers than its records need.

`CoreInv` needs nothing of the callers: a slot that is not free holds a page at the page's
generation, with the users and the lease its state says (`SlotsOwned`), no page has two
(`OneSlotPerPage`), every replica is of the current generation (`CopiesCurrent`), a lease is
alone on its record, on the record's own slot and finds it InUse (`LeasesKept`), a live ticket
finds its record in a state that goes with its kind (`LiveTicketMatchesRecord`), and tickets
are what was issued. A replica may be in another page's slot, and a ticket be presented to
another call.
`CoreInvariance` is the temporal statement. Without any hypothesis follow

- `TypeCorrect`, `LeasesProtectSlots`, `LiveTicketsMatchRecords`;
- `LeasesFreezePages`, `StaleAnswersChangeNothing`: the action properties;
- `ManagerImplementsOwnership`: every step is a step of `SlotOwnership` or a stutter
  under `owner <- page and generation of the slot, inUse <- slots with users`;
- `CountersAreKept`: pageable RAM within its budget and covering what is there, compute
  leases counted exactly, no queue over its capacity.

`IInv` is what holds beside it under `Contract = Clauses`. `ReplicaNamesOwnSlot` survives
`CompleteUpload` only because the ticket of an uploading slot is an upload of the slot's own
page (`UploadTickets`), and records stay valid only because a slot's state and its record's go
together: `SlotsAgree` says which record states go with each slot state, with and without a
replica, including the combinations that half-done calls leave; `ReplicasAgree`,
`RamRetained` and `LeasesAgree` complete it. There is one lemma per method and conjunct group
(`…Type`, `…Step`); `ContractIsCare` turns the contract into the guards they use. Under
`Contract = Clauses` follow `Invariance`, `ReplicasNameTheirSlots`, `RecordsAreValid`, and

- `HeldLeasesAreReleasable`, which also holds with one slot whatever callers do, as a replica
  can then be in no other;
- `BudgetsAreHonest`: pageable RAM, VRAM and compute leases against the sums they stand for.
  `BudgetInv` adds to `IInv` that VRAM is counted at no less than the sum of the pages there;
  each method's lemma moves one summand. It says nothing of pinned RAM, whose counter the code
  understates, nor of what queue positions stand for (section 5). What `mtp.rs` tells a plan's
  importer (`EstimatesHonest`, `ViewsHonest`) follows in every such state. `DataLemmas` has
  what that needs of a sum over a finite set: it exists, does not depend on the order the fold
  picks in, splits at an element, is monotone. That is induction over a finite set, done
  without an induction rule: strict inclusion is well founded, so a false claim would have a
  least counterexample.

**Wavefront scheduler** (`WavefrontProofs`). `SchedulerUsesManager` is `WSpec => Spec`: a
step of the scheduler is a call of the manager or leaves it alone, because `run_one`
passes the page, ticket and slot that earlier calls returned, each to the call it is for. The
manager's theorems therefore hold under the scheduler, whose steps keep both clauses of
`Contract` without its being assumed, and `WIInv` is `IInv` with four more parts:
`RunNamed` and `RunPlace` (what the manager has done for the run so far: its record's
state, its ticket, its slot), `LeaseInRun` and `UploadInRun` (the one lease and the one
uploading slot there can be are the run's). `RunPlace` alone is not enough: that the slot
of a VramReserved record is Reserved, and that a running read finds its record
NvmeReading, come from `SlotsAgree` and `LiveReadMatchesRecord`. There is one lemma per
call (`…Keeps`). It follows that a run finds what each call needs
(`RunsKeepTheirClaims`), and that none leaves a lease or an uploading slot
(`RunsLeaveNothing`, of `RunsLeaveNoLease` and `RunsLeaveNoUpload`).
`SpeculationWaits` (`SpeculationSound`) adds
`SpeculationInv`: bytes measured imply a mandatory payload that arrived, a page that arrived
is registered (so it is not added again in another class), and until the payload of a run
that is not mandatory arrives, the pinned budget still has the room it was admitted on.

**Serve scheduler and front end** (`ServeProofs`). `Step` is one action, so its proof goes
along the code of `step()`: what admission, sampling, a prefill chunk and a decode with its
accepted drafts do to *one* sequence, then what all of them together store, unpin and evict.
The recursive functions of the model (how a stream goes on, the walk of a draft, the solo
run) get closed forms by a least-element argument (`Iterated`, `IteratesAgree`).

- `ReuseExact` (`ReuseStaysExact`) adds to `HiddenStatesExact` that every prefix of a live
  sequence's consumed tokens is a node (`Rooted`), that queued and running records are
  well formed and no sequence has gone past its stream, and that the pool is a finite map
  of such states. It holds with and without speculation, for any draft.
- `PoolExact` (`PoolStaysSound`) is `ReuseExact` with `PoolSound`. Pins are compared with a
  cardinality, that of the live sequences over a node, and the byte counter with a sum
  over the pool. A sequence pins what it resumes from and creates, and its whole path is
  unpinned once when it ends (or never, section 5), so a pin is never taken from another;
  `Victims` has no pinned node.
- `AnswersExact` (`AnswersStaySolo`) adds that logits kept at a node are those of that
  node (`Labels`), and that each sequence is where the solo run of its prompt would be
  (`FaithfulTo`).
- `RowsExact` (`NobodyPanics`) adds that every cached state has its logits (`Rows`): then a
  prompt that is resident is sampled at admission and none is left to be sliced.
- `HttpExact` (`AnswersAreSolo`) links the connection to the scheduler: its request is the
  queue's only one (`Waits`) or the last sequence (`Served`), and nobody else runs. While
  the policy is plain `AnswersExact` holds, and calibration changes policies only by
  starting a new scheduler. What is sent is therefore a prefix of the solo run at every
  moment, and an answer is all of it.

`SequencesStayUndisturbed` is a fact about any step from `PoolExact`: what the path of a
sequence that goes on needs is pinned when victims are chosen.

**Direct I/O engine** (`DirectIoProofs`). `IoTypeOK`, `PermitsOut`, `RequestsSettleOnce` and
`NoLostWakeup` are inductive together: a wakeup is not lost because a permit given back
always moves one waiting call to the lock, and a call that takes a permit on the way
lowers the free permits by the same one. Cardinalities of sets of requests carry the
argument (`OneMore`, `OneLess`). They hold for any number of callers and permits.

**Host memory and metabolism** (`MemoryProofs`, over `MCDevice`). Each structure has an
invariant of its own, and since a step of `MCDevice` is a step of one of them or a
stutter, `HostInv` is their conjunction. What each needs beyond what the run checks:

- `RegistryInv`: nothing; the log of a record explains its state by itself.
- `BudgetInv`: a pending grow aims above the current budget and a pending shrink below.
- `DmaInv`: transfer ids are below the next one. The arena's use is a sum over what is queued
  or in flight.
- `LruInv`, `TierInv`: finitely many entries, so that the sums of their bytes exist
  and go down by what each victim held.
- `PoolInv`: free blocks are ordered, apart from one another and from the blocks in use,
  no two of them touch, and every byte is in one of them. "No two touch" is what makes
  coalescing after a release preserve the rest, and "every byte" is what gives `PoolTiled`.
- `ReserveInv`, `BooksInv`: the second follows useful tokens through ledger, clocks and the
  joined telemetry, in both of the controller's owners.

It follows that counters agree with what they count and that what is admitted stays within what
it is compared with (`MemoryStaysBounded`; of the transfer engine that is the arena and the
queue, while any number of transfers may be in flight), that
commitments and books of the metabolism hold (`MetabolismStaysSound`), and the action
properties (`HostStepsAreAllowed`).

**Vulkan and KV** (`DeviceProofs`, over `MCDevice`), five invariants:

- `ObjectInv` (`HandlesAlwaysHaveOwners`): a wrapper under construction holds a prefix of
  its kind's list of handles and the device; no hypothesis is needed, so the error path
  of every call of every constructor is covered.
- `QueueInv` (`SubmissionsStaySound`): submissions stand in each queue in the order of the
  values they drew, all above the semaphore's value and below the one value that is drawn
  and not submitted yet. So a completed event means executed, and what `submit` was given to
  keep is there until then. Of sets that were bound and not passed nothing follows.
- `SlotInv` (`SlotsAlwaysHoldTheirKeys`) says who is responsible for a slot's storage at each
  moment: the caller from reserve to mark, the table while it keeps the event, the
  drop that waits with the table locked, the lease during a dispatch. Hence one job per
  slot, and a slot offered to dispatches is filled, or is being filled by the very upload
  the locked table waits for.
- `StoreInv` (`StoresStaySound`): every location a representation records was given out by an
  earlier put, `ReconstructedWarm` never has one. `AttentionServed` comes of `GraphInv`: a leased
  representation is attached, so `Select` finds one of its four
  kinds (`UsableIsSelected`).
- `GraphInv` (`GraphStaysSound`): every prefix of a node is a node and parents and children
  are exactly those one token away; a node's count is the number of retains over it; a
  page's lease count is the number of leases on it, each of a representation it has. The
  walks of `lineage` and `lookup`, written as recursive functions, get closed forms
  (`LineageIsCuts`, `LookupFinds`), by an induction on the depth that is a least-element
  argument again (`Reaches`).

**Pipeline** (`PipelineProofs`, over `MCPipeline`). Each part of the run has variables of
its own, so one invariant per part suffices.

- `DecodeExact` (`TokensStayExact`). The whole sequence is computed layer by layer as `Levels`,
  streams that say what every position carries; `StreamsAgree` says that they do not depend on
  tokens still to come, which is what makes a cache possible. The invariant says that a layer
  that attends keeps exactly the rows of the positions it has seen (`RowsSeen`, the last of
  them under a window), that a recurrent one keeps what all those positions left (`Carried`),
  where in the forward pass the decoder is (`Underway`, `Turn`), and that nothing follows an
  end of sequence (`EosLast`).
- `AllocExact` (`AllocationsStayHonest`): every choice is the first one or a measured upgrade
  of it; the total is within the budget, or nothing was upgraded. `Better` compares loss per
  byte by cross products; that it is a strict total order (`Quotients`), so that a best upgrade
  exists while any fits (`BestExists`), is what lets a finished allocation say that none is
  left.
- `EnginesStaySound` has a part for each of the two it joins. A plan never changes, so what it
  says of plans is a fact about the walk of `OperationTable::validate` (`WalkMeans`): what is
  black depends on black operations only and none of these on itself (`Sound`), the operation
  being visited depends, through others, on every grey one (`OnPath`), so that a grey one met
  again lies on a cycle. The call stack is at most as deep as there are operations because
  every level has a grey one of its own, which `Visiting` counts; hence the model's bound on
  the depth cuts nothing off. `LevelCorrect` is the step from one depth to the next, by an
  induction over the dependencies. For blocks, `BlockExact` adds to the counts that a block in
  progress has a verdict for every candidate before the next one (`Resolving`); the position of
  a block among the records is a cardinality (`Place`), which `ToldGrows` follows.
- `ContainersExact` (`ContainersStaySound`): a slice that is all there was written to its end,
  with the payload its writer took the checksum of (`SliceExact`, `Extracting`), so one that
  opens holds the payload of its manifest (`OpenSound`). A model file that was replaced does
  not come back (an assumption of the model: code that compares roots at two moments would not
  notice), hence if it is the slice's when verification or reconstruction ends, it was the
  slice's when each of their checks was made (`VerifyExact`, `RebuildExact`): that is what
  carries a comparison made earlier over to the package written later.
- `PagesFailClosed` is a fact about the stored pages and not an invariant. Of any two pages,
  with bodies of any length, and any stream that needs a layer: `UnpackMeans` says what it is
  for a buffer to unpack, `WholeRestores` that a page as packed restores exactly into the
  streams it serves, `CutRefused` and `DamageRefused` that a page cut short anywhere or damaged
  in any cell restores into none, `TornIsWhole` that where one page was partly written over
  another, the header and the body that pass are each one of the two. Checksums are taken as
  injective.

The hypotheses of these theorems are the values under which the run checks the same:

| hypothesis | used by | why |
|---|---|---|
| `Contract = Clauses` (manager) | `Invariance`, replicas, records, budgets, releasable leases of several slots | an upload is queued into the page's own slot and a ticket goes to the calls of its kind; the wavefront scheduler, the one client in the repository, does both (proved); the manager checks neither (section 5) |
| `OneSubmitter` | submissions, slots | the value lock is dropped before `queue_submit`; in `har-serve` and the smoke programs one thread owns a queue. Without it the property fails (section 5) |
| `~EvictsUnmarked` | slots | a caller does not evict a slot whose upload it has recorded and not reported; the table cannot know of it |
| `~FileStore` | stores | `ContextFold` is built over `MemoryPageStore`; the file store departs (section 5) |
| `Block = 0` | streams, panics | no speculation: decode caches logits of the wrong node when drafts are accepted (`claim_streams`) |
| `PrefillChunk = 1` | panics | a longer chunk leaves nodes without logits (`claim_mid_chunk`); the code accepts any positive chunk |
| `MaxBatch > 0`, `LiveStateBudget >= HiddenBytes` | answers | otherwise the scheduler admits nobody, is Idle at once, and the answer is empty (section 5) |
| `Contract = Clauses` (graph) | graph, stores | attach a page once, one lease per owner and page, one origin per tree, retain before release: what the graph leaves to its callers |

**Assumptions on constants** are the types and signs of parameters: sizes, budgets, depths
and bounds are natural, capacities positive, a set of pages finite (`FinitePages`: the
records are a map in memory), a model value that stands for "none" not among the
others (`QueueAssumption`, `SlotAssumption`, `GraphAssumption`, `NoLogitsAssumption`).
`DecoderAssumption` says that at least one token is asked for
(`har-native-qwen3.rs:92`) and that the decoder with bounded caches attends in every layer;
`AllocationAssumption` that no tensor is empty (one of zero elements has no extra bytes and
is passed over, `har-model-compiler/src/lib.rs:939`), `CandidateAssumption` that the
candidates are formats `format_spec` knows (both loops pass over others). `PolicyAssumption` is what
`ElasticBudgetPolicy::validate` accepts, `PoolAssumption` says that the alignment is positive
and requests are not empty, `TierAssumption` that the target watermark is at most the high
one, which the code does not check (section 5) and its tests keep.

**Only model-checked:** the rest of `pipeline` (`DispatchesExact`, `WeightsFound`,
`BackEndsFaithful`, `CodecsSound`, and of `FilesSound` what it says of readers, layouts,
sidecars, rows and captures: slices and stored pages are proved), and all liveness. Liveness
under fairness and ENABLED are beyond the prover. What codecs, tokenizers, layouts and kernels
compute for every input needs induction over their data, and the barrier programs of the
kernels an interpreter of them: their values are checked on all inputs within the bounds.

## 5. Where the code departs from what it says

Four have a run that reaches them; the quoted sentences are in `PROJECT.json`.

| run | what happens |
|---|---|
| `claim_streams` | decode caches, at the node of its input token, the logits after the accepted drafts (serve scheduler 846). A later request whose prompt ends there samples from them and its stream differs from a solo run. |
| `claim_mid_chunk` | a prompt that ends inside another's prefill chunk is resident without logits; it is put with the decodes and slices its stream one past the end (839). |
| `claim_q8_gemv` | `half_at` takes the low half of a word; a Q8_0 block at an odd multiple of two bytes is scaled by the two bytes before it (`src/har/shaders/q8_0_gemv.comp:28`). |
| `claim_idle` | a step that finishes at sampling all it admitted returns Idle with requests queued (653), and `run_to_idle` returns there (971), where its doc says "Run steps until the queue and all sequences drain" (966). |

The others were found while modelling. The models behave as the code does; the
properties are stated so that they hold all the same, or name what they need.

**Serve and HTTP.** A sequence that samples EOS in its last prefill chunk (792) or at
admission (638) is finished and never unpinned. The node of an accepted draft is cached
without logits (889): a later prompt that ends there is put with the decodes and slices past
its stream (839), so under a policy with drafts a request can panic the server
(`EndsAtDraft` of `ConnectionsAnswered`). A node whose state was evicted is
followed, not created, and never cached again (842). Trunk-first inverts the age with
the depth, so of two nodes of one depth the younger goes (583). A live-state budget
below one state admits nobody, and every step is Idle (482). `block = 0` skips the
draft loop while the state-lag step expects a last draft (`speculation.rs:441`).
`calibrate_auto` is `None` when the first connection was bad (`http.rs:218`), so `auto`
becomes plain though nothing was probed. One silent client holds up every other.

**Residency.** A ticket is looked up by its id and its kind is never compared (489-512,
637-658): `start_upload` given the ticket of a queued read makes it Running while the record
stays NvmeReadQueued. `queue_upload` accepts any Reserved slot (607-634, slot table 159-169):
given one that another page has reserved since, it fills that page's slot with this page's
upload, and the replica names a slot that is not its page's. A lease acquired through a slot
crossed like this cannot be released. `complete_upload` takes the bytes off `ram_pinned_used`
and keeps the pinned replica (`manager.rs:694`), so pinned RAM is understated from the first
upload on; moves the slot before it looks at the ticket (673). `evict_ram` drops the replica
and then fails its last transition when VRAM holds the page (837, 799). A ticket cancelled
after a refusal gives its position back twice (857); the early return for a stale generation
keeps it (534). `run_one` returns an I/O error without cancelling its ticket (wavefront 294);
slack is counted in bytes while slots are whole. `DirectIoEngine::close` is read before the
lock only (`direct_io.rs:210`), so calls already waiting are admitted to a closed engine.

**Memory.** The LRU's order among equal ages is a `HashMap`'s, against "replays
bit-identical" (`expert_lru.rs:29`); a refreshed page may be evicted by its own insert.
`r4kv/src/dma.rs:52` says capacity bounds what is queued and in flight; `enqueue` compares it
with the queue alone (90) and `submit_batch` empties the queue, so any number of transfers that the
arena has room for may be in flight.
Waiting for a transfer nobody submits never returns (157). A FIFO tier may evict the page
just accessed (`tier.rs:120`); a target watermark above the high one is not refused.
The metabolism's debt is not lowered by release (`reserve.rs:72`) and is settled by time
alone; `portion.rs:88` admits without committing; `set_basis` of the same basis leaves
the acceptance sum; an overlap credit with an empty identity is accepted.

**KV.** A stale location of the file store loads another representation's bytes
(`store.rs:193`), as every entry is at offset 0, so its "physical location mismatch" does not
tell two copies of one generation and length apart (`FileStore = TRUE`; the memory store does);
a lease keeps a representation from being evicted, not its stored bytes from being overwritten
by a later persist of the page; `release_prefix` without a retain takes down counts others
hold, and stops half way up at the first zero (`graph.rs:318-332`); `attach_page` on a page
that is there resets its lease counts (`graph.rs:351`); leases of one owner share an id (483);
`extend` does not compare origins (228); retain counts never stop an eviction (107). These are
the members of `Contract` and the constant `FileStore`. The gate of `select_for_attention`
refuses an exact lossless copy too, against `orchestrator.rs:290`. No checksum of an R4KV page
spans header and body, so a page torn at their seam unpacks as one page's header with another's
body (`page.rs:211`; `PageFailsClosed` says exactly this); token count, epoch and sketch are
tested by nothing. `quant::encode` codes by the inverse of the unrounded step (`quant.rs:57`,
63), writes the step rounded to a half (58) and reports the error of the unrounded one, though
193 and 219 decode with the half: the largest value need not come back exactly, a group whose
step is at most half the least subnormal comes back as zeros, and one whose step is past the
largest half as infinities. `CodecsSound` states the error there is. A capture that only
*claims* to hold probabilities needs none of Q, K, V (`capture.rs:165`).

**Vulkan.** `mark_ready` and `evict` take any completed event of the device (`lib.rs:1353`,
1420); the slot is safe because dropping the last clone of its own event waits, with the
table locked. Callers must pass their own event on release and submit to a queue from
one thread: the value lock is released before `queue_submit` (1722), and with two
submitters (`OneSubmitter = FALSE`) an event completes before its work, against the SAFETY
comment at 2128. `bind_descriptor_set` retains nothing (1922-1951) and `submit` keeps only the sets
it is passed (1673-1698), `submit_transfer` none: a caller that binds a set and drops it leaves the GPU
reading freed buffers. `copy_buffer` retains no buffer (1991). A failed `Device::open` leaves the
instance (268).

**Files.** `load_rows` of type 36 reaches `unreachable!`. MXFP4 is sized three ways by
three readers; alignment of type other than u32, or zero, is read three ways; only
`har-model` rejects a data offset past the end of file; missing shards are accepted; an
unsplittable last tensor is dropped from the expert index. A slice payload "checksum-
validated by open" can be rewritten in place; extract hashes and reads through separate
handles; reconstruct rereads the source, and a placeholder root compares nothing; a
crash after truncation loses the previous container. `verify` never checks `entry_index`;
the package reader checks neither overlaps nor duplicate ids. The upgrade loop of the
format allocation ignores `supported_formats`; an unmeasured loss counts as 1.0.

**Decoders, kernels, back ends.** A forward pass that fails at a layer leaves the earlier
caches a row longer; qwen3 always uses the tied embedding for logits. `q4k_batched` admits 8
blocks per row (`q4k_batched_gemv.comp:13-14`, 26, 90) and its 256 lanes load 256 of their 288
words (99), so the codes of the eighth are what shared memory held: `WeightsFound` says exactly
this (`LeavesLastCodes`). `division_factor` is 2.0 whatever `top_k` (`moe.rs:73`); `route`
panics on NaN; dense attention covers the cached positions without the token itself
(`dense.rs:204`). The serve tokenizer wants raw single-byte tokens, so GPT-2 vocabularies
fail; the native one fails where serve drops a merge, and decodes token by token, losing
characters split across tokens. The elastic horizon does not honour `min_horizon`, and
compares `f64` quotients: where two depths promise the same per cost, rounding may pick
the deeper one (`har-decode-control/src/language.rs:363-365`). An
imported package charges no VRAM placements though "resource overcommit fails closed";
acceptance of a block is per candidate, not a prefix.

## 6. What is not modelled

In the modelled parts: digests and CRCs as numbers, projections in the residency manager (one
slot per page and generation), time stamps and most telemetry, alignment and bounce buffers,
the `token_count` of a KV page's header, the order in which `select` picks a work (any waiting
one may be run), floating-point results beyond order and position, Vulkan memory types, device
scoring and descriptor contents, and what a caller could do to public fields other than the
calls of `Maintain`. Nothing of the runtime is persisted but page stores and containers, so
only those have crashes and rewrites.

Not modelled at all, with the reason in `PROJECT.json`: the HAR language tool chain
(lexer, parser, semantics, compilers: pure translations of text that decide nothing at
run time; the plan they emit is modelled in `Execution`), certificates and serve telemetry
(records nothing decides on), the MTP observation bridge (it copies the answers of the
modelled expressions), demos, examples, benchmarks and tools.

## 7. Plan

Done: every component of the runtime that keeps state, alone and with its clients, under
callers that keep nothing the code does not check wherever that can be said; theorems about
all of them and about the decoder, the format allocation, the engine, the slice commands and
the stored pages of `pipeline`. Left: what section 4 lists as only model-checked; a run of the
graph without its `Contract` and of ContextFold over the file store, stating what still holds
there; and how far an untrusting caller can push the manager's VRAM counter.
