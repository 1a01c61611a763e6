# Verification of Single-INC Pull V2 and of the SHMEM host services beneath it

TLA+ models, TLC runs and TLAPS proofs for two parts of the repository:

* the Pull V2 Dispatch and Combine under
  `src/shmem/examples/inc/dispatch_combine/single_inc/pull_combine/` (`PC/` below);
* the host services of the SHMEM library on which its memory and its start and end
  rest: the symmetric heap (`src/shmem/src/host/mem/`) and the configuration store
  with its group collectives (`src/shmem/src/host/bootstrap/`).

`PROJECT.json` records which definition models which lines, the runs, the hazards,
the findings and the theorems.

## 1. The system and its inventory

*W* workers and one INC (rank *W*) share symmetric memory. A batch (a *wave*)
uses one of a few ring slots and goes through two kernels.

* **Dispatch**: each worker pushes route metadata and a READY line to the INC;
  the INC parses the routes, computes the destination layout, pulls the hidden
  rows and fans them out, seals a journal of what it did, and publishes
  completions (to destinations) and ACKs (to sources).
* **Combine**: each worker pushes a READY and a notice for its partial rows; the
  INC checks the plan derived from the sealed journal, pulls the partials,
  reduces them in FP32, puts each result to its owner, closes the journal and
  publishes ACKs and completions.

On the INC a kernel is a grid of AIV blocks that share global memory through
explicitly flushed 64-byte cachelines, meet at `SyncAll`, and spin with
`spin_cap` deadlines. Transfers are one-sided and asynchronous.

| Part | State | Operations | Hard behaviour | What makes it correct |
|---|---|---|---|---|
| Combine kernel (`inc_dc_pull_combine_v2_device_kernel.cpp`) | status word, READYs, notices, source flags and offsets, journal, tasks and transfers of each block, records | publication, prelude, index check, polling, two reduction paths, finalize | unsynchronised writes of one word, status re-read between barriers, stale notices, deadlines, transfers in flight at an abort | a completion means exact rows; ACKs follow transfers; one verdict; failures stick; every block ends |
| Dispatch kernel, parse (`inc_dc_pull_dispatch_v2_device_kernel.cpp` to line 1789) | mailbox, inbox, source and block states | worker publication, header poll, refresh, peer wait, parse, prefix | residue of an earlier wave, lanes that give up before they have told the others | only fresh metadata is parsed; fails closed; always ends; stops a wave only for a reason |
| Dispatch kernel, relay (same file, from 1790, and 1217-1256) | journal slot, block lines, layout, relays' transfers, records | reserve, produce, sideband, relay, collect, seal, records | roles without a barrier between them, two writers of one cacheline, foreign journals | a completion means exact rows and metadata; ACKs last; a foreign journal is kept; nobody is left behind |
| Journal slot (`..._dispatch_v2_abi.h`, `..._dispatch_v2.cpp`) | state | transitions | shared by both kernels and several waves | the life cycle |
| Host layout compiler (`..._dispatch_v2.cpp`) | none (pure) | route validation, layout, digests | boundaries, capacities | equals a reference definition |
| Host plan compiler and coordinator (`..._combine_v2.cpp`) | plan, READY set | compile, accept READY, complete | duplicates, order | chains contain each contributor once |
| API frontend (`..._pull_v2_api.cpp`) | sequence and ring bookkeeping | Init, Dispatch, Combine | slot reuse while a wave is alive | a slot belongs to one wave |
| Symmetric heap (`mem/shmem_mm.cpp`, `mem/shmem_mgr.cpp`) | per PE: idle ranges by address and by size, used ranges | malloc, calloc, align, free, each with a control barrier inside | PEs at different points of a call, a barrier or memset that fails on one PE, two trees that must agree | no byte lost or doubled; nothing leaked on error paths; a pointer is valid at the same offset on every PE |
| Configuration store (`bootstrap/config_store/store_tcp_config_server.cpp`, `store_tcp_config.cpp`) | key-value map, waiting GETs, requests and answers in flight, numbers the clients wait for | SET, GET, ADD, APPEND, REMOVE, timer thread, shutdown; blocking client | a waiter between the timer and a wake-up, answers that come after the client gave up | each request answered once; no waiter forgotten |
| Group engine (`store_net_group_engine.cpp`, `shmemi_bootstrap_config_store.cpp`, end of `shmem_init.cpp`) | round numbers, the step each PE is at | barrier, all-gather, destruction of the store by PE 0 | rounds that overlap, removal of old rounds, PE 0 leaving first | the control barrier; gathers of one round in rank order; every call returns |
| Other SHMEM parts (transports, entity, teams, device API, Python), other examples | - | - | - | not modelled (section 7) |

Interaction: the API launches both kernels; the kernels talk to the workers only
through remote writes (READY, notice, records) and to each other only through
the journal slot. The windows they write are blocks of the symmetric heap; each
call on the heap meets the other PEs in the control barrier, which is the
group engine's barrier over the store. The last barrier of
`aclshmemi_finalize_impl` is followed by the end of the store.

## 2. Modules

`JournalSlot` is the abstract specification of a journal slot: one variable and
the transitions of `ValidJournalTransition`. The Combine kernel implements it
(`JournalLifeCycle`; refinement mapping `state <- journal`). The Dispatch kernel
does not: it opens a COMPLETE or ABORTED slot directly, where the host table
goes through FREE; its use of the slot is stated by `OneVerdict` and
`ForeignJournalKept` instead. Whose journal a launch may change is no matter of the
transitions: `ForeignJournalUntouched` and `ForeignJournalKept` state it.

`CombineKernel` is one launch of the Combine kernel. `pc`, `syncs`, `task`,
`fetched`, `puts` ... are the state of each block, `status`, `srcReady`,
`srcOffset`, `journal` the words in INC memory, `ready`, `notice`, `slot`,
`sent` the workers' side. Every access to a shared word that the code does not
protect is a step of its own: `SetFailure` is a read and a later write; block 0's
timestamp in the status line is a load and a later store of the whole line;
offset and flag of an accepted source are two steps. `SyncAll` counts arrivals,
not call sites, as the hardware does. `AllTwo` selects between the in-order
pipeline for plans in which every accumulator has two contributors and the
generic path, which takes whichever contributor is ready. What a GET returns is
abstracted to "this wave's row", "a later wave's row" (the slot was reused) or
"junk" (read through an offset no READY gave). `launch` and `pub` are what can be
wrong with a launch and with what a worker published: one Boolean or verdict for
each check the code makes.

`DispatchParse` is phase 1 of the Dispatch kernel: cohorts of `C` parser lanes
per source, from the worker's publication to the prefix's verdict on the wave.
Mailbox and inbox have one entry per source (not per ring slot), so they start
with the residue of an earlier wave; the PUTs of a packet become visible in any
order before the fence. Contents of packets are abstracted to the verdict of
each check; the tokens of the sources are added up and held against the capacities of
the journal and of the row map. `view` is what a cohort has refreshed of the inbox.
A lane invalidates its own range only and parses all of it, so the kernel relies on
one of two things, and so does `ParsesOnlyFresh`: that the AIVs' caches of INC memory are
shared, or that no AIV comes to a launch with old lines of the inbox in its own. The
comment at 1839-1841 speaks of private scalar caches. `ownCaches` is the question
that remains within a launch: whether a line that an AIV has loaded stays as it was until
this AIV invalidates or evicts it. `copy` is what block 0 has loaded of the block statuses
beside the words it polled; with private caches the prefix may decide by them (section 3).

`DispatchRelay` is the rest of that kernel: reservation of the journal slot, the
prefix's verdict (an input, `launch.verdict`, which `DispatchParse` produces),
the three roles that run without a barrier between them (layout producers,
metadata sideband, hidden relays), collection of errors, seal, and records.
`line` is word 0 of each block-status line; a relay's end-time stamp in the same
line is a load (`StampLoad`) and a store (`StampStore`). `Uniform`, `Multiple8`
and `AlignedRows` are the three facts about a wave that select the path. The header of
the slot is one of four kinds (`Headers`), because the reservation checks magic, ABI and
size and the abort at the end the magic only: a header of another ABI that bears this
wave's ids is refused (`Takes`) and aborted all the same (`Mine`).

`ControlBarrier` is the abstract barrier of the host library: a PE that gets OK
has left after everybody entered; an error tells it nothing. `GroupEngine`
implements it (`ImplementsControlBarrier`; `entered`, `left` and `result` are
functions of the rounds begun and finished), and `SymmetricHeap` is built on it: the
two compose through this interface.

`MemoryManager` is the allocator of one PE as functions on a heap
`[idle, bySize, used]`, one field for each tree: best fit in the tree by size,
splitting, merging with both neighbours. `Emplace` keeps an entry with the same
key, as `std::map::emplace` does. `SymmetricHeap` is the collective calls: all PEs
make the same sequence of calls, chosen by whoever gets there first (`calls`), and
`made[p]` is what `p` got from each. A call is two steps, up to its barrier and from
it to the return. `BarrierFault` and `CallocUncleared` are the failing barrier and the
failing `aclrtMemset`; early returns that enter no barrier (`FreeNull`,
`CallocRefused`) are actions of their own, because they put a PE's barriers
out of step with the others'. `Spec` has malloc, calloc and free, `AlignedSpec` align as well.

`ConfigStore` is the server and the client of the store. A handler runs under
`storeMutex_` and is one step. `keyWaiters_` and `timedWaiters_` are indexes into
`waitCtx_` whose stale entries the code ignores, so only `waitCtx` is kept.
Values are short sequences of numbers. An APPEND that finds waiters wakes them with an
empty value, as the code does after it has moved the value into the map; in the two
collectives nobody waits for a key that is appended to. `GroupEngine` is the two
collectives, one action for each store operation that ends, and `DestroyStore`. Every program
ends with the two barriers of `aclshmemi_finalize_impl`; a PE on which the first of them
fails returns at once (`LeftEarly`). `late` counts the time
limits that end although an answer would have come; a time limit that ends when
nothing else moves (`Stalled`), or on a broken link, is not counted.

`MCCombineKernel`, `MCDispatchParse`, `MCDispatchRelay`, `MCSymmetricHeap` and
`MCGroupEngine` hold the instances for TLC. `SortGatherRecv`, which orders what an all-gather
received, is stated as what `std::sort` on (rank, arrival) returns, not as a
procedure, so that it can be reasoned about.

The theorems are in `CombineKernelProofs`, `CombineVerdictProofs` and
`CombineResultProofs` (each extends the one before), `DispatchParseProofs`,
`DispatchRelayProofs`, `SymmetricHeapProofs` and `GroupEngineProofs`;
`NaturalFacts` holds the arithmetic that several of them share.

A definition whose comment begins "Variant of" is a plausible mistake in the
code of the definition after it; each property is seen to fail when one of them
takes that definition's place. They are used nowhere else.

## 3. Runs

| Run | Instance | Shows |
|---|---|---|
| `CombineTwo` | 3 workers polled by 2 blocks, 3 tasks on the pipelined path, with and without deadlines | `CompletionIsExact`, `AckAfterTransfers`, `NoSpuriousAbort`, `Completes` |
| `CombineFaulty` | 2 workers, 2 blocks, 2 tiles, chains of 2, 0 and 1 contributors; every refusal of a launch, damaged index cells, faulty READYs | `TypeOK`, `CompletionIsExact`, `OneVerdict`, `ForeignJournalUntouched`, `FetchOnlyAccepted`, `DamagedPlanUntouched`, `FailureSticks`, `JournalLifeCycle`, `TerminatesIfSound`, `Completes` |
| `ParseWaves` | 2 cohorts of 2 lanes; every fault of a packet, totals that exceed the journal or the row map by one, 0, 3, 9 and 17 tokens, an absent worker, any deadline at any moment | `TypeOK`, `ParsesOnlyFresh`, `NoSpuriousAbort`, `EachTokenOnce`, `FailsClosed`, `Termination`, `Settles` |
| `RelayGeneral` | 2 sources (one empty), 5 blocks (one idle), general path; damaged digests, failed parses, every kind of header and journal state | `TypeOK`, `CompletionIsExact`, `OneVerdict`, `ForeignJournalKept`, `Seals` |
| `RelayFast` | 2 sources, 6 blocks: 2 relays, 2 producers, 2 sideband blocks | `CompletionIsExact`, `AckIsLast`, `NeverStuck` |
| `HeapCalls` | 2 PEs, any 4 calls of malloc, calloc and free, up to 2 faults | `TypeOK`, `HeapPartitioned`, `UsedIsHeld`, `RemoteBlockLive` |
| `GroupCollectives` | 2 PEs, seven programs of up to 6 collectives, up to 2 time limits that end too soon | `TypeOK`, `GatherExact`, `AnsweredOnce`, `StoreBounded`, `OnlyLastBarrierFails`, `ImplementsControlBarrier`, `AlwaysReturns` |
| `CombineBadIndex` | a damaged index cell | violated: `Termination` |
| `CombineOrder` | one accumulator, three contributors | violated: `ChainOrder` |
| `RelaySharedLine` | the grid of `RelayFast` | violated: `PublicationKept` |
| `RelayOddRows` | uniform routing, rows not a multiple of 64 bytes | violated: `CompletionIsExact` |
| `HeapAlign` | 1 PE, calls of malloc, align and free | violated: `LiveDisjoint` |

Deadlock checking is off for the kernels and the group engine because a launch or a
job ends; that it ends, and that nobody is left behind, is what the termination
properties say. It is on for the heap, where `Finished` is the only end: four calls
always come to an end on every PE, failures included.

### Findings

1. `CombineBadIndex` (`..._combine_v2_device_kernel.cpp:1113`). Each block reads
   the status word after the first SyncAll on its own. A block that is fast finds
   a damaged cell and writes a failure before a slow block has read the word; the
   slow one jumps to the SyncAll of finalize, the others go to the second and
   third, and the third is never full: the grid hangs and the journal stays
   COMBINE_ACTIVE. `FLOW.md:67` says the journal goes to COMPLETE or ABORTED.
   `TerminatesIfSound` shows that nothing else makes the kernel hang.
2. `CombineOrder` (`:596`). On the generic path contributors are added in READY
   arrival order. `inc_dc_pull_combine_v2.cpp:338-340` and `FLOW.md:63` promise a
   fixed order.
3. `RelaySharedLine` (`..._dispatch_v2_device_kernel.cpp:2302`). A relay's
   end-time stamp and a producer's Pass2Ready live in the same line and are
   written by different AIVs; the stamp can erase the publication.
   `PULL_DISPATCH_V2_DESIGN.md:56` gives a control publication its own line.
   `NeverStuck` and `CompletionIsExact` in `RelayFast` show the consequence is
   bounded: sideband blocks run into `spin_cap` and the wave is aborted, never
   completed wrongly.
4. `RelayOddRows` (`:2268`). With uniform routing, token counts that are
   multiples of eight and a row width that is not a multiple of 64, block 0 packs
   rows by layout entries that producers on other blocks may not have written;
   it waits for no Pass2Ready, and the wave completes OK.
5. `HeapAlign` (`mem/shmem_mgr.cpp:107`). `aligned_allocate` removes the range it
   cuts up from `size_idle_tree_` and not from `address_idle_tree_`, whose entry keeps
   the old size. Freeing the block below merges with that entry, and the next
   mallocs return memory that is in use. `HeapPartitioned` (run and theorem) shows
   that `allocate` and `release` are sound when `aligned_allocate` is not used.

1 and 3 are statements about interleavings of the modelled steps: they need
unfavourable timing, and 3 also needs the scalar cache of an AIV to hold the line
over the other's write, the case for which the code's own comment at 1886-1890
serialises its other shared lines. 5 is sequential.

More facts are stated by what the passing properties leave out.

* `ForeignJournalUntouched`, the Combine kernel: a launch that is refused leaves the journal
  alone, with one exception. If the journal is of this very wave and already
  COMBINE_ACTIVE (another launch of the wave is or was at work), the refused launch
  aborts it (1373-1382). No document says what a second launch of an active wave
  should do, so this is not listed as a finding; the API's rule is that a handle is not
  consumed twice (`README.md:79` of the example).
* `FailsClosed` excepts the lanes whose status line block 0 may have an old copy of
  (`..._dispatch_v2_device_kernel.cpp:1656`). Block 0 polls word 1 of its peers' status lines
  and after the SyncAll reads word 0 of the same lines without invalidating them. If its
  scalar cache is its own, as the comment at 1839-1841 has it, it may find the OK from
  before a peer met an error, and the wave goes on with that peer's counts missing. Only
  the cohort of block 0 is exposed, and only while the line stays in the cache; a source
  that claims uniform routing is caught by the check at 1760-1767. Whether the caches are
  private is a fact about the hardware, so this is not listed as a finding; a
  `dcci_cacheline` before the read would settle it. With shared caches (`ownCaches` false)
  there is no exception.
* `ForeignJournalKept`, the Dispatch kernel: likewise a header with another ABI or size
  that bears the ids of this wave is aborted (2429-2431).
* `OnlyLastBarrierFails`: the last barrier of finalize may fail on a PE other than 0
  although everybody arrived, because PE 0 destroys the store when *its* GET is
  answered. The barrier is there to "synchronize all ranks before destroying the store"
  (`init/shmem_init.cpp:662`); it orders the arrivals, not the answers. The PE whose
  barrier fails returns from finalize without `aclshmemi_bootstrap_finalize`.
* `RemoteBlockLive` is conditional on calls ending alike. When a barrier fails on one
  PE only, that PE gives its block back and others keep theirs; its later free of the
  null pointer enters no barrier, and from then on its barriers no longer match theirs.
  The heaps themselves stay sound (`HeapPartitioned`, `UsedIsHeld` have no condition).

## 4. Bounds, and why they are enough

* Two workers are the fewest a launch accepts and enough for one to be ready,
  faulty or absent while another is not; `CombineTwo` and `CombineOrder` use
  three, for a block that polls two sources and for a chain longer than two.
* `CombineTwo` has 3 tasks on 2 blocks, so the task partition has a remainder
  and blocks with unequal shares. Blocks 0 and 1 differ by role, others do not.
* `CombineFaulty` has an empty chain, a chain of one and one of two: a block
  with no GET, and tasks not evenly spread.
* `ParseWaves` and `RelayFast` are the largest runs (230 108 and 822 810 distinct states);
  `GroupCollectives` has 298 146, `CombineFaulty` 128 218, `RelayGeneral` 117 328.
* Cohorts share no state before the prefix, so `ParseWaves` varies one packet at a
  time against a good one, except for sizes; 9 and 17 tokens give lanes with full
  groups of eight, a last partial group and unequal shares, 3 and 0 give empty lanes.
* `RelayGeneral` has 5 blocks for 2 sources so that one block has no role, and
  an empty source, whose chunks are published by the prefix. `RelayFast` with 6
  blocks is the smallest uniform grid: one relay, one producer and one sideband
  block per source, each on a block of its own.
* `HeapCalls`: 80 bytes are five units of 16. Size 17 rounds up to 32, 48 leaves a rest
  that 17 fills exactly, 81 is refused; so blocks fit exactly, leave a rest, and
  merge below, above and on both sides. `MaxCalls = 4` is enough to free between two
  blocks and allocate again, `MaxFaults = 2` for both PEs, or one PE twice, to fail.
  PEs are interchangeable (`SYMMETRY`; the run has no liveness property).
  `HeapAlign` needs five calls and allows six.
* `GroupCollectives`: five barriers let three rounds be removed and the store
  exceed `REMOVE_INTERVAL + 2` rounds if they were not, four gathers let two be removed; with
  time limits that end too soon, four rounds let a PE lag while its
  round is removed. Two PEs give a first, who
  removes, and a last, who opens; a time limit (`maxLate`) may strike at any wait.
* Nothing else in the models counts without bound: SyncAlls are at most 4 and 5,
  cursors are bounded by the grid. No state constraint is used.

## 5. Fairness

* Weak fairness of every block's next step: all blocks of a launch are resident
  on their own AIV and run. Weak fairness of transfers in flight: the hardware
  finishes them.
* Deadlines: a spin loop reads its clock on every pass. In the Dispatch kernel the
  deadline stays enabled until the loop ends, so weak fairness is enough; in the
  Combine kernel `FindReadyContributor` looks at its clock only at the head of a
  pass, where it is enabled again and again, hence strong fairness.
* A worker need not appear; whether a wave has its workers is part of what it starts
  from. A worker that launches its kernel runs to its end.
* `bounded = FALSE` (of a launch or a wave) means that `spin_cap` is larger than
  every delay; only under it is a wave promised to complete.
* `GroupEngine`: weak fairness of each PE's next step, of the server's handling of each
  PE's requests, and of the timer thread. `AlwaysReturns` needs nothing of the
  other PEs: every wait in the store has a time limit (`timeoutMs` of a GET, the
  client's own limit for the rest), and a broken link ends the wait.
* `SymmetricHeap` has safety properties only.

## 6. Proofs

Every theorem holds for all values of the constants that satisfy the named
assumptions of the module it is about; TLC evaluates these assumptions in the runs.
Each `Spec => []P` rests on an inductive invariant, which TLC checked on
an instance of the run before it was proved.

### The Combine kernel

`CombineKernelProofs`, `CombineVerdictProofs` and `CombineResultProofs` are about
`CombineKernel` for every `W`, `NB`, `NA`, `Tiles`, chains, owners, launches and
publications that satisfy `ShapeAssumption` (positive sizes, chains without
repetition, `NA` may be 0) and `LaunchAssumption` (types of the inputs).

| Theorem | Statement |
|---|---|
| `Inductive` | `Spec => []IInv` |
| `TypeCorrect` | `Spec => []TypeOK` |
| `AcksFollowTransfers` | `Spec => []AckAfterTransfers` |
| `FailuresStick` | `Spec => FailureSticks` |
| `RefinesJournalSlot` | `Spec => JournalLifeCycle` |
| `VerdictIsOne` | `Spec => []OneVerdict` |
| `ForeignJournalStays` | `Spec => []ForeignJournalUntouched` |
| `OnlyDeadlineAborts` | `Spec => []NoSpuriousAbort` |
| `DamageIsContained` | `Spec => []DamagedPlanUntouched` |
| `FetchesAreAccepted` | `Spec => []FetchOnlyAccepted` |
| `CompletionsAreExact` | `Spec => []CompletionIsExact` |

The first invariant is `IInv == TypeOK /\ ControlInv /\ BarrierInv /\ WordInv`.

* `ControlInv` says for each block where it may be after how many SyncAlls, that
  only block 0 marks, closes and publishes, and that transfers are in flight only
  between the third SyncAll and the last. A block in finalize has arrived at two
  *or* four SyncAlls, because of the jump that finding 1 is about: the safety
  properties survive the divergence.
* `BarrierInv` is what a SyncAll gives: `Left(b) <= syncs[c]` for all blocks, where
  `Left(b)` counts the SyncAlls a block has been let out of.
* `WordInv` says that nobody has failed before block 0 has started, that block 0's
  copy of the status line is current while it holds it, and that whoever sees a
  record finds block 0 past the close.

`AckAfterTransfers` alone is not inductive: that block 0 publishes says nothing
of the other blocks until one knows that it has left the SyncAll they must have
arrived at (`BarrierInv`) and that a block which has arrived there holds no
transfer (`ControlInv`). `FailureSticks` needs that between block 0's load and
store of the line every other block is itself between the second and third SyncAll,
where none is inside `SetFailure` (lemma `NoConcurrentFailure`), unless it has
jumped to finalize.

The proof of the step (`NextIInv`) goes through a lemma that gives the shape of
every block step (`BlockStepShape`: the other blocks are left alone, arrivals are never
taken back, and a SyncAll is left only when everybody has arrived at it), so that the
barrier argument is made once and not per action.

`VInv` (`CombineVerdictProofs`) adds what the launch decides. `JournalInv` ties the
journal and the records to how far block 0 is, and says what has become of a journal
the launch did not take (`RefusedJournal`: as it was, or aborted when it was this wave's and
active). `VerdictIsOne` is about the records and says nothing of such a journal;
`ForeignJournalStays` does. `NoticeInv` orders a READY before its
notice; `AbortInv` bounds the failures on the blocks' way to the status word, since
a failure read by a block is written steps later; `DamageInv` says that the status word
shows a damaged cell as soon as the block that owns it is past the validation, so that,
by `BarrierInv`, nobody passes the third check; `FetchInv` follows an accepted source
from its offset to its flag, and from the flag to every block that uses it.

`RInv` (`CombineResultProofs`) follows a task through its block: `GotInv`, the sources
fetched for it (on the pipelined path the first ones of the chain, on the generic path
as many different ones as were issued); `DoneInv`, every task behind the block is
exact or its PUT is in flight; `EndInv`, a block that reached the last SyncAll without a
failure has all its tasks behind it; `SlotInv`, no worker reuses its slot before its ACK; `FinalInv`,
a journal closed with OK has every task exact. `EveryTaskOwned` shows that the shares of the
blocks, consecutive with a remainder on the pipelined path and strided on the other,
cover all tasks.

### The Dispatch kernel

`DispatchParseProofs` is about any number of workers, lanes and tokens
(the assumptions of `DispatchParse`).

| Theorem | Statement |
|---|---|
| `ParseTypes` | `Spec => []TypeOK` |
| `ParsesAreFresh` | `Spec => []ParsesOnlyFresh` |
| `WavesStopForDeadlinesOnly` | `Spec => []NoSpuriousAbort` |
| `WavesFailClosed` | `Spec => []FailsClosed` |
| `TokensAreCountedOnce` | `Spec => []EachTokenOnce` |

`PInv` relates three places: how much of a packet has landed, by where its worker is
(`SourceAt`); what a lane knows, by where it is (`LaneAt`: without an error it has a
delivered packet, past the wait for its peers every range has been refreshed after
that, at the end its share has been parsed); and the verdict (`VerdictInv`, `AbortInv`).
The theorems hold for either kind of cache, under what section 2 says of `view`.
`ParsesOnlyFresh` is a consequence of the second only because the first says that
the fence orders both parts of the packet before READY. `TokensAreCountedOnce` is
arithmetic: the lanes' bounds are multiples of eight, the bound of one lane
is the start of the next, and a token lies between two of them by `LeastNatural`.

`DispatchRelayProofs` is about any grid, routing and launch.

| Theorem | Statement |
|---|---|
| `RelayTypes` | `Spec => []TypeOK` |
| `DispatchVerdictIsOne` | `Spec => []OneVerdict` |
| `ForeignJournalIsKept` | `Spec => []ForeignJournalKept` |
| `AcksAreLast` | `Spec => []AckIsLast` |
| `DispatchCompletionsAreExact` | `Spec => [](RowsInStep => CompletionIsExact)` |

`DInv` is `TypeOK` and, for a valid launch, `GridInv` (which block may be where and how
the SyncAlls order them), `JournalInv` and `RecordInv` (slot and records by where block 0 is),
`LayoutInv` (a Pass2Ready, also one that a relay holds a copy of in its stamp of
the line, stands for a written chunk), `SideInv` (digests checked or an error left, metadata
only of a complete layout), `RelayInv` (rows landed behind each relay); an invalid
launch is `Refused`. `LayoutInv` is where finding 3 shows: what is inductive is that a
Pass2Ready is true, not that it stays. `RowsInStep` is false exactly when roles run in
parallel while block 0 packs the rows, the path of finding 4, where
`CompletionIsExact` does not hold; on every other path the theorem has no condition.

### The symmetric heap

`SymmetricHeapProofs` is about any set of PEs, `HeapSize > 0` (`HeapAssumption`), sizes,
and bounds on calls and faults (`CallAssumption`).

| Theorem | Statement |
|---|---|
| `HeapStaysPartitioned` | `Spec => []HeapPartitioned` |
| `HeapTypes` | `Spec => []TypeOK` |
| `UsedBlocksAreHeld` | `Spec => []UsedIsHeld` |
| `RemoteInvariant` | `Spec => []UInv` |
| `RemoteBlocksAreLive` | `Spec => []RemoteBlockLive` |

`HeapPartitioned` speaks of all PEs, but a step changes one
heap, by `Allocate`, by `ReleaseAt`, or by both. The inductive invariant is that each
heap is `Good`: ranges of natural numbers and positive sizes, `HeapSound` (disjoint, the
two idle trees equal, inside the heap) and `HeapWhole` (every byte covered, idle
neighbours merged). It is needed as a whole: that `Emplace` adds the rest of a split
rests on disjointness, that `Joined` is disjoint from its new neighbours on the merging
of the old ones. Two lemmas, for `Carve` and for `Release`, carry it; the theorem
applies them action by action. No bound on a size rounded up is needed, since a range
that is too short is never chosen. For `AlignedSpec` the statement is false (finding 5).

`HInv` adds the calls: a free names an earlier allocation (`CallInv`), only the last call
of a PE is in its barrier (`MadeAt`), and the blocks in use are those of the pointers
held (`UsedAt`). The error paths are the point: a call whose barrier or memset
fails gives back the very block that it took, which is that of no other pointer
because a good heap has no two ranges at one offset.

`RemoteBlockLive` compares PEs that are at different calls. `UInv` does so without a history:
two heaps are compared by what they *become* when the open calls end (`HeapAfter`,
`PtrAfter`), for each way the call of the PE that is behind may still end (`Outcomes`). While
calls end alike (`Uniform`), a PE that is ahead has, beyond the other's last call, only
calls that change nothing (`IdleCall`: null pointers, refused sizes, failures) or will change
nothing if they fail, and the barriers it has entered there are counted
(`Barriers`), which ties the sequence of calls to `entered`. This is what makes the proof go
through: a call cannot pass its barrier while another PE has not made it, since
that PE has entered fewer barriers (`ReturnAhead`). When the PE behind catches up
(`CatchUp`) it takes the same range, because `allocate` chooses one range for one heap
(`AllocateOne`), and the heap it chooses from is the one the other chose from, because giving
back what was just carved off restores the heap exactly (`ReleaseCarve`, where merged
idle neighbours are needed again).

### The group engine

`GroupEngineProofs` is about any number of PEs, programs and time limits.

| Theorem | Statement |
|---|---|
| `NeverLosesWakeup` | `Spec => []NoLostWakeup` |
| `GroupTypes` | `Spec => []TypeOK` |
| `RequestsAnsweredOnce` | `Spec => []AnsweredOnce` |
| `BarrierRefined` | `Spec => ImplementsControlBarrier` |
| `GathersAreExact` | `Spec => []GatherExact` |
| `ExactInvariant` | `Spec => []EInv` |
| `StoreStaysBounded` | `Spec => []StoreBounded` |
| `OnlyLastBarrierMayFail` | `Spec => []OnlyLastBarrierFails` |

`NoLostWakeup` (no GET waits for a key that the store has; what it means for the callers is
in `OnlyLastBarrierFails`, so no run checks it by itself) is inductive as it stands, because the handlers
that create a key take its waiters away in the same step and `GetHandler` adds a
waiter only for a key that is absent; the code gets this from `storeMutex_`.

The rest needs `GInv`. A request is in one place, queued, waiting or answered (`OnePlace`),
and the one a PE waits for is the one its place in the collective calls for, recognised by its
number (`QueueAt`, `WaiterAt`, `ReplyAt`): late answers to requests that were given up
have smaller numbers. What is stored is never more than what was contributed
(`StoredAt`): the count of a barrier is *at most* the number of contributions of its
round the server has handled, and not equal to it, because a PE that lags may find its
round removed and start the count again. At most is enough: a count of `NPEs` still
means that every PE has begun the round, which is what the PE that opens it relies on.
`BarrierRefined` is then that each step is a step of `ControlBarrier` or a stutter,
with `entered` and `left` counting the barriers begun and ended, which needs `CountOf` to
be monotonic. For an all-gather, `NPEs` different contributions are those of all PEs (a
pigeonhole argument), and a sort of them by rank is the identity on ranks
(`IncreasingIsShift`).

For the bound of the store and the reason of a failure "at most" is not enough: both are
about what holds while no time limit ends too soon, and there the counts are exact. `EInv` says
so, relative to `GInv` and `NoLostWakeup`. While `late` is 0 and the store runs (`Exact`),

* a PE has exactly one message in the system, a request, a wait or an answer, and it is the
  one its place calls for (`QueueE`, `WaiterE`, `ReplyE`, `OneMessage`); no call has failed
  (`PlaceE`);
* the PEs are at most one collective apart (`InStep`), because a PE leaves a round only
  when all have arrived in it;
* a count is the number of PEs whose contribution the server has handled, and a round is open
  when all have arrived in it, save that the opening request may be under way (`RoundE`);
* the first PE to arrive in round `sn + REMOVE_INTERVAL` removes the keys of round `sn`, which
  no PE can still read by then (`KeyE`, `RemovesE`).

The hard step is that a wait does not expire. Of the PEs that wait take one that has begun
the fewest collectives: all have arrived in its round, so its key is there or
on its way, and a waiter for a key that is there contradicts `NoLostWakeup`
(`NobodyAhead`, `NeverStalls`). `StoreBounded` follows by `ExactBounds`: the rounds with keys
lie between the newest begun and three before it. When the store is destroyed PE 0 has returned
from its last barrier, so all are in it (`Closed`), which gives
`OnlyLastBarrierFails`. TLC checked `EInv` before it was proved, on the instance of the run
`GroupCollectives` and with three PEs.

### Without induction

The proof system cannot apply an induction principle, but it can use that `<` is
well founded on the naturals as a fact about a set: `LeastNatural` (a nonempty set
of naturals has a least element) replaces induction in `NaturalFacts`, for division with
remainder, for the lane and task a number falls into, and for
`IncreasingIsShift` (an increasing map of `1..n` to `0..n-1` is the shift).

### Only model-checked

* Every liveness property, since fairness is outside the prover: `Completes` and
  `TerminatesIfSound`, `Termination` and `Settles`, `Seals`, `AlwaysReturns`; and `NeverStuck`, which
  uses `ENABLED`.

## 7. Not modelled

* Inside a block: unified-buffer slots, ping-pong tiles and hardware event flags of
  the reduction and relay pipelines. A block's row is one GET or PUT.
* Arithmetic of counting, prefix sums and offsets, hash and digest contents: each
  check is its verdict. In `DispatchParse` only tokens are counted: the limits on
  assignments, contributors, rows and cells, and the 32-bit limits, are one verdict
  (`plan.layout`), made after the others. `SIZE_OVERFLOW` exits of `ReduceAccumulatorTile` are left out,
  since the index validation has excluded their conditions.
* Timestamps, except those that share a line with a control word.
* Host layout compiler, host plan compiler and coordinator, API frontend: planned.
* Heap: `change_size` with `reduce_size_in_lock` and `expend_size_in_lock`, which nothing
  calls; the lazy set-up of the host heap; the checks of `DEBUG_MODE` builds; null-state
  checks before initialisation. `spinlock_` makes each operation of one PE atomic.
* Store and group engine: `Cas`, `Watch` and the dynamic group (listen thread, join, leave),
  which no caller enables; the global-exit key, which nobody watches; TLS, sockets and
  reconnection below the links; the handlers' early returns without an answer (an invalid key,
  a value that is no number) and NOT_EXIST for a GET with no time limit, which the keys,
  values and limits of the engine never reach. Of `aclshmemi_finalize_impl`, the steps other
  than the barriers and the end of the store are taken to succeed.
* The rest of the SHMEM library (transports, entity, teams, device API, Python) and the other
  examples: a vendor library, mostly hardware and driver calls, whose protocol lies in
  the devices. It appears as transfers that land later and a quiet that waits for
  them, and as `SyncAll`.

## 8. Plan

1. `HostPlan`: the layout and pull-plan algorithms as functions against reference
   definitions (each contributor in exactly one chain), and the host coordinator as an
   implementation of `JournalSlot`.
2. `WaveRing`: the API frontend with both kernels abstracted to what is shown here,
   over a ring of slots: successive waves, relaunch of a sealed wave, slot reuse.
3. The unified-buffer pipelines of the Combine kernel.
