# A TLA+ model of malloc_hook

malloc_hook is an `LD_PRELOAD` library that records every live allocation of a
process with its call stack, keeps exact byte counters and their peaks, retains
a snapshot of the live stacks at a memory peak, and writes reports on a signal
and at exit. It runs inside every allocating thread of the traced program, so
its correctness is about interleavings: the modules here model its state
machines, TLC checks them on small instances, and TLAPS proves the central
facts for every number of threads, addresses, shards and stacks. Around the
state machines stand its algorithms (the unwinder, the readers of kernel files,
the configuration, the report), which are modelled as operators and compared
with reference definitions on all small inputs.

Paths below are relative to the repository root; `tracker` is
`backtrace/src/PointerData.cpp`, `handlers` is `backtrace/src/malloc_debug.cpp`.

## 1. Inventory

| Component | State | Operations | Hard behaviour | Module |
|---|---|---|---|---|
| Live-pointer table, stack table, counters (tracker) | 64 shards of records under one mutex each; `key_to_index_`, `frames_` under `frame_mutex_`; six relaxed atomics | `Add`, `Remap`, `TakeEntry`, `RestoreEntry`, `Remove`, `AddBacktrace`, `RemoveBacktrace` | counters updated one by one by threads in different shards; displaced records; stacks shared by reference count | `PointerData`, `Accounting` |
| Interposed heap and mapping calls (handlers) | the read side of a rwlock, a per-thread switch | `debug_malloc` … `debug_mremap` | the address is reusable as soon as the system call returns; failing `realloc`/`munmap`; memory the hook never saw | `MallocDebug` |
| Retained peak snapshot (tracker) | list and totals, threshold, final flag, generation, claim, latch | `MaybeRecordPeakSnapshot`, `TakePeakSnapshotLocked`, `RecordObservedPeak`, `ApplyPeakProcContextLocked` | tests without locks, repeated under locks; two criteria; a slow `/proc` read | `PeakSnapshot` |
| Locks, fork, finalization | shard mutexes, `frame_mutex_`, `fd_transaction_mutex`, the rwlock, the sampler's `running_` | every critical section, atfork handlers, `debug_finalize` | lock order, fork with locks held elsewhere, writer starvation | `ShardLocks` |
| DMA descriptor registry (handlers) | descriptor table, ION handle sizes, pending GPU mark | `debug_ioctl`, `debug_close_with`, shared `debug_mmap` | recycled descriptor and handle numbers, unseen opens and closes | `DmaFd` |
| Asynchronous stack pipeline (`AsyncStackPipeline.cpp`) | module generations, dedup table, results, bounded queue, eviction lists, worker | `Submit`, `Release`, `GetResult`, `Flush`, `BeginFinalization`, `Shutdown`, `WorkerLoop` | full queue, eviction, wake-ups, failure of the worker, shutdown races | `StackResults`, `AsyncStackPipeline` |
| Initialization, election, observe-only mode, dump signal (handlers, `ObserveOnlyProbe.cpp`, `alloc_hook.cpp`) | per copy: mode, target, primary, tracker, threads; in `environ`: two stamps | `InitializeTargetProcess`, `ResolveMode`, `IsPrimary`, `debug_initialize`, `debug_start_helper_threads`, fork callbacks, `debug_finalize` | fork and exec, a second copy in a namespace, allocations before `environ` | `Lifecycle` |
| Interposer and bootstrap allocator (`src/alloc_hook.cpp`) | resolved symbols, setup flags, bootstrap blocks | exported `malloc` … `free`, `Bootstrap*`, `ResolveSymbol` | blocks that outlive the bootstrap phase, re-entrant lookups and construction | `Interposer` |
| Sampler's readings (`ObservedMemory.cpp`) | inode set, mapping and GPU caches, schedule | `ReadObserved…`, `NextSampleSchedule`, `InsertInode` | gates, latches, capacity, counting a page once | `ObservedSample`, `ProcText` |
| Configuration (`Config.cpp`) | — | parsing and decisions | wrap-around, two readers that must agree | `HookConfig` |
| Stack capture and frame lines (`UnwindBacktrace.cpp`, tracker) | — | four backends, `ModuleTable` | broken chains, skips, ends of modules | `StackCapture` |
| Report writer (tracker) | live table, peak, rungs | `GetList`, `GetUniqueList`, `DumpLiveToFile`, `DumpStepReports` | figures of different instants on one page | `LiveReport` |
| Unwinder (`unwindstack/`) | caches, list of maps | one frame step, one lookup, the loop | binary formats, caches that must not lie | `ArmExidx`, `DwarfMemory`, `DwarfOp`, `DwarfCfa`, `DwarfSection`, `SymbolTable`, `ProcessMemory`, `ElfHeaders`, `MapElf`, `MapsList`, `SignalFrames`, `UnwindLoop` |
| Other threads' unwinding, JIT and dex, driver headers, OpenCL stubs, scripts, probe | — | — | — | not modelled (section 6) |

## 2. Modules

### State machines

**`PointerData`** models the tracker. `pointers`, `shardMutex`, `key_to_index`,
`frames`, `cur_hash_index`, `current` and `peak` are the class's fields. Each
method is the sequence of its atomic effects, one action per relaxed
`fetch_add`/`fetch_sub`: `AddBacktrace`, `AddLock`, `AddUndoType`, `AddUsed`,
`AddType`, `AddPeak`, `DropDisplaced` are `Add`; `TakeEntry`, `TakeEntryType`
are `TakeEntry`; and so on. A thread's locals are in `call[t]`, its place in
`pc[t]`. A capture yields any stack or none. Timestamps, trace markers and the
pointer filter (read only by tests) are left out.

**`MallocDebug`** puts the handlers on top. `mem` is the environment: the block
at each address, and the thread whose call is working on it. A handler's system
call is a step of its own, and the address it frees is available to the other
threads from that step on. The application is correct: it releases only what it
holds. `Features` selects what a run uses; the handlers are the same in all.
The read lock of the handlers never excludes another handler and is modelled in
`ShardLocks`, as is the order in which `Remap` takes its two shards.

**`Accounting`** states what the tracker promises.

**`PeakSnapshot`** extends `MallocDebug` with the snapshot. The allocation path
is six steps (`SnapThreshold`, `SnapActive`, `SnapClaim`, `SnapRecheck`,
`SnapLocked`, `SnapRelease`), the sampler three (`SamplerCrossing`,
`SamplerWalk`, `SamplerApply`); `StallChange` lets `Stalled()` change at any
time. A section that holds every shard is one step that waits until no shard is
held. `peak_proc` is the generation whose `/proc` figures are shown. If
`ProcReadable` is false a read may fail, and then replaces nothing.

**`ShardLocks`** keeps only the locks. Mutex 0 is `fd_transaction_mutex`,
1..`NumShards` are the shards, `NumShards + 1` is `frame_mutex_`. A call is a
script of critical sections; each section acquires its mutexes one by one.
Application threads, the dump thread, the sampler, forking threads and
`debug_finalize` all take part. `PreferWriter` says whether the rwlock was
created with the writer-preferring kind.

**`AsyncStackPipeline`** models the pipeline's class with its mutex sections as
steps. `registry` and `generation` are `ModuleRegistry`; `unique_stacks`,
`results`, `queue` and the eviction orders are the class's tables; `worker` is
the worker thread's place in `WorkerLoop`. A condition variable is the set of
threads that wait on it: a notification moves them on, so a lost wake-up is a
thread left behind. The worker may fail to mark itself, a callback may be
running while the mutex is free, and a refresh of the modules may come at any
time. **`StackResults`** is what a caller may rely on: a stack is unknown,
pending, resolved, failed or dropped, an answer never changes once given, and a
release forgets it. `StackPipelinePromise` states the refinement
`ImplementsStackResults` (`INSTANCE StackResults WITH` the results table as its
state).

**`DmaFd`** has the kernel's descriptor table as environment (`file`), the
registry, the ION sizes and the DMA records. A call is the system call and the
bookkeeping as two steps; births, shared mappings and closes hold
`fd_transaction_mutex` over both, other ioctls hold nothing. `Environments`
says what may happen unseen by the hook. `is_dma_buf` may fail: at each shared
mapping fdinfo tells the buffer's size or it does not (`Shown`; the file cannot be
opened, or has no exporter or no size), and a mapping that is not told leaves no
record.

**`Lifecycle`** has processes with up to two copies of the library each. `lib`
is a copy's statics, `env` the stamps in `environ`, `threads` the helper threads
that exist. Operators on one copy (`ResolveMode`, `IsPrimary`,
`InitializedTarget` …) are the functions of `ObserveOnlyProbe.cpp`; actions are
an allocation, the constructor, fork and its callbacks, exec, a dump signal,
loading and unloading the second copy, exit. `Settings` says what may happen:
`"early"`, the loader serves allocations before `environ` is published; `"reexec"`,
the target execs itself; `"atfork"`, `pthread_atfork` may fail. A `setenv` that
fails while the target's identity is published ends the process (`ScopeAbort`).

**`Interposer`** has one thread in the exported heap functions. `frames` is the
stack of lookups and constructions in progress, each with the call that goes on
when it ends; calls made from inside come through the same routing to the
bootstrap pool, the C library or the tracker. `missing` are the functions dlsym
does not find: their pointers stay null and their calls go to the bootstrap pool.

### Algorithms

An algorithm is an operator of its module; `Tasks` turns it into a two-state
machine: a task is one input, a step answers it, one action per kind of task.
`MCUnwind` and `MCHook` define the tasks, each built from something that is known
(a call frame, an address space, a chain of places, a set of allocations), and
the properties compare the answer with it. `DwarfAssembler` makes the bytes of the
DWARF tasks and models no code. `MCAlgorithms` runs them all.

| Module | Code | Compared with |
|---|---|---|
| `ArmExidx` | `ArmExidx.cpp`, `ElfInterfaceArm.cpp` | the frame the prologue was made from |
| `DwarfMemory`, `DwarfOp` | `DwarfMemory.cpp`, `DwarfOp.cpp` | the encoded number, the value of the compiled tree |
| `DwarfCfa`, `DwarfSection` | `DwarfCfa.cpp`, `DwarfSection.cpp`, `DwarfEhFrameWithHdr.cpp` | the frame at each pc of a function, a linear search |
| `SymbolTable` | `Symbols.cpp` | the function that holds the address |
| `ProcessMemory` | `Memory.cpp`, `MemoryCache.h` | the bytes of the address space |
| `ElfHeaders`, `MapElf` | `ElfInterface.cpp`, `MapInfo.cpp`, `Elf.cpp` | the image as it was linked and loaded |
| `MapsList` | `Maps.cpp` | what the kernel says |
| `SignalFrames` | `Regs*.cpp` | the interrupted registers |
| `UnwindLoop`, `StackCapture` | `Unwinder.cpp`, `UnwindBacktrace.cpp`, tracker | the call chain |
| `ObservedSample`, `ProcText` | `ObservedMemory.cpp`, tracker | the process's pages and regions |
| `HookConfig` | `Config.cpp`, `alloc_hook.cpp` | what was asked for |
| `LiveReport` | tracker, `debug_finalize` | the live allocations of each instant |

The `MC` modules define the small constants of the runs. The theorems are in
the `Proofs` modules and `AsyncStackPipelineInv` (section 4). A definition introduced by "Slip" is a wrong variant of the
one after it, used to confirm that a property can fail.

## 3. Runs

| Run | Checks | Shows |
|---|---|---|
| `heap` | `KeysNameFrames` `RecordsExact` | malloc, free, realloc, mmap, `MAP_FIXED`, GPU mappings and munmap of two threads, failing calls and unseen blocks: every held block has its own record, no released one does, the tables of stacks agree |
| `books` | `BooksBalance` | the same with mremap and releases the hook does not see: the counters are the bytes, and the reference counts the records, of what is live |
| `first_crossing` | `PeakTypeOK` `SnapInv` `ObservedIsLast` `NobodyStays` | first-crossing retention against the sampler, with failing reallocs; every call returns and no thread stays in the snapshot code |
| `chase_max` | `BooksBalance` `PeakCoversCurrent` `SnapshotConsistent` `NoLateContext` `TrackedNeverOverrides` | chase-max retention, snapshots between the steps of mmap, `MAP_FIXED` and mremap, displaced, moved and stale records, stalls, failing `/proc` reads; peaks cover live bytes where no call fails |
| `locks` | `LockInv` `NoCyclicWait` `FinalizerAlone` `ChildUnlocked` | every lock user together |
| `locks_live` | `EverybodyLeaves` | with a writer-preferring lock, every call and the finalization end though calls never stop |
| `pipeline` | `TablesAgree` `OwnGeneration` `DrainedAtJoin` `NoRefreshAfterBarrier` `ImplementsStackResults` `AcceptedCompletes` `WaitsEnd` | a client that submits, releases, flushes and shuts down against the worker and the module refreshes: the tables agree, the pipeline implements `StackResults`, every wait ends |
| `dma` | `RegistryExact` `BuffersCounted` `SharedSized` | buffers made, imported, shared, mapped and closed under reused numbers, with fdinfo legible or not: one the hook saw made, or mapped with a legible fdinfo, has its own record, and a record its buffer's size |
| `interposer` | `BlocksSurvive` | each block goes back to the allocator that made it, with its content where libc's function can be known, through every phase of start-up and with functions libc lacks; no null pointer is called while libc has the function |
| `life` | `OneCopyWorks` `DescendantsSilent` `NoPhantomJoin` `TargetReports` | one copy of one process samples and reports, whatever forks, execs or is loaded twice, and whatever fails while its identity is published and guarded |
| `algorithms` | `CallerRestored` `TablesRead` `AddressesPlaced` `MemoryExact` `StacksShown` `SamplesTrue` `ReportsTrue` `RequestsHeld` | every algorithm agrees with its reference on its inputs |

A name that covers several promises is their conjunction, and its definition
names them: `BooksBalance` is `CountersMatchTable` and `ReferencesExact`,
`RecordsExact` is `HeldBlocksTracked` and `NoStaleRecords`, and the eight
properties of `algorithms` join one comparison per kind of task.

One run shows the code doing something its comments say it does not:

- `mremap_race`: `debug_mremap` lets the kernel free the old address before the
  record is moved. Another thread maps that address in between; its record is
  then moved to the new address and its mapping has none. `debug_munmap` and
  `debug_realloc` detach the record first for this very reason.

`locks_live` sets `PreferWriter`, which the code arranges only where
`__ANDROID_API__ >= 23`. With the default lock (`PreferWriter = FALSE`, or the
variant `ReadLockDefault`) the part `FinalizeEnds` fails: overlapping readers keep
`debug_finalize` waiting for ever.

### Bounds

Two threads are enough for every race described here, since each is between one
call and another. Two addresses in two shards (one address per shard, so threads
meet in different shards as well as in one) give reuse, displacement, and moves
with a free or an occupied destination. Two sizes tell growth from shrinking.
`MaxCalls` (2 or 3 for the tracker) is the number of interposed calls in a behaviour: a race
needs two calls plus the one that made the block. `first_crossing` has two calls
of one size, because its questions are about the order of crossings. The sampler has at most two
observed crossings, one more than first-crossing retention may use. `SIZE_MAX`
is any number no total reaches. `locks` uses two shards so that `Remap` can
take two in either order; the proofs cover 64. With `MaxCalls = 0` the lock runs
have no bound on calls, which the liveness questions need. Symmetry is used in
safety runs only: threads are interchangeable, and in `heap`, `books` and
`chase_max` so are the two addresses together with their shards, since `ShardFor`
puts each address into a shard of its own.

`pipeline` has a queue of one, so that it is full as soon as the worker is busy,
retains one module generation, so that older ones are evicted, and accepts
three stacks, enough to fill, evict and resubmit; clients only meet in the
mutex, and the proofs cover any number of them. `dma` has two numbers, so that one can be recycled while the other is
in use. `life` has two processes and three images: enough for a fork whose child
execs, for a second copy loaded on either side of a fork, or for a target that
execs twice.
Its `Settings` are exec and a failing `pthread_atfork`, each with and without
early allocations; a behaviour in which neither happens is among them. `interposer` nests four lookups or
constructions over three blocks, with every function found or one of `malloc`,
`realloc` and `free` missing.

The algorithm tasks shrink what the code scales: addresses wrap at `DwarfSpace`,
`ArmSpace`, `SizeSpace` and `UnsignedSpace`, pages have `PageSize` bytes, a read
buffer `ReadBuffer`, an inode set `Slots`. Each bound is small enough that its
boundary is crossed (a page, a buffer, a batch of iovecs, an interval that an
unsigned does not hold, a wrap of the generations). `Paddings`, `SymbolSizes`, `Targets`, `PeakKernels` and
`FirstDigits` choose between inputs for which the properties hold and those of
section 5.

Deadlock checking is off where a behaviour ends because its calls are used up,
finalization is done or a task is answered; that no thread is stuck before that
is what the liveness properties and `NoCyclicWait` say.

### Fairness

A thread inside a call is scheduled (weak fairness of its steps): the code never
blocks except on a mutex or a condition variable. In `PointerData` and
`PeakSnapshot` the calls are finite in number, so weak fairness also gets a
thread its shard. `ShardLocks` has unboundedly many calls and assumes strong
fairness of acquiring a mutex (one that keeps becoming free is obtained
eventually) and of taking a write lock that keeps having no reader. In
`AsyncStackPipeline` the worker, and a flush or shutdown once begun, are
scheduled; a waiting thread moves only when it is notified. Nobody is assumed
to start a call, and finalization is not assumed to start.

## 4. Proofs

All theorems are checked by TLAPS for arbitrary constants: any number of threads,
addresses, shards, stacks, sizes, descriptors, handles, calls and capacities. The
assumptions are named in the modules that declare the constants and TLC evaluates
them in every run: the special values differ from the ordinary ones (`NoThread`,
`NoKey`, `NoStack`, `NoRecord`, `NoBlock`, `NoFd`, `NoImage`), `ShardFor` maps
addresses to shards, sizes and thresholds are naturals, there is at least one
shard, a pipeline has room for at least one stack. Threads and addresses are
finite sets, which the sums need.

| Module | Theorems |
|---|---|
| `PointerDataProofs` | what one step of the tracker does (lemmas) |
| `AccountingProofs` | what one step of a handler does; `KeysAlwaysNameFrames` |
| `BooksProofs` | sums over finite sets; `BooksAlwaysBalance`, `PeaksAlwaysCover`, `RecordsAlwaysExact`, `TypesAlwaysOK` |
| `PeakSnapshotProofs` | `SnapInvariant` and what follows from it; the books with the snapshot on; `SnapshotsAlwaysConsistent`, `PeakTypesAlwaysOK` |
| `ShardLocksProofs` | `LockInvariant`, `DeadlockFree`, `FinalizerIsAlone`, `ChildIsUnlocked` |
| `AsyncStackPipelineInv`, `AsyncStackPipelineProofs` | `PipelineInvariant` and what follows; `TablesAlwaysAgree`, `ResultsOwnGeneration`; `PipelineKeepsPromise` |
| `DmaFdProofs` | `DmaInvariant`, `RegistryAlwaysExact`, `BuffersAlwaysCounted`, `SharedAlwaysSized` |

### The books of the tracker

`BooksBalance` is not inductive: it speaks of the moments when every shard is
free, and in between a counter lags behind the table. `BookInv` says at every
moment what a counter stands for.

- `CallInv`: what each call knows at its place in the code. It holds the shard it
  works in, its locals are set, and its record is the one in the table or the one
  it detached; nobody else can change that, because nobody else holds the shard.
- `CountInv`: each counter is the sum over all addresses of what the address has
  in it: the size of its record, corrected by what the call that holds its shard
  has counted already or not yet (`Used`, `Typed`).
- `RefInv`: a stack's count is the number of records that name it plus the
  references in the calls' hands (being added, displaced, detached).
- `Naturals`: no counter and no peak is negative. It is not assumed anywhere and
  follows from the sums.
- `PeakInv`: the peak of a type is at least its counter, and the total is above its
  peak only while a call that is about to raise the peak holds a total at least as
  large. This needs that no call fails: a failed `realloc` or `munmap` puts its
  record back without raising a peak.

Each action is shown to move one counter by what one address (for `Remap`, two)
gains or loses (`PointerDataProofs`, `AccountingProofs`); lemmas on sums over
finite sets turn this into a change of the sum (`BooksProofs`). A fold cannot be
reasoned about by an induction theorem here, so these lemmas argue by a smallest
counterexample: a subset of least cardinality on which the sum is not what it
should be, from which one element is taken away.

With every shard free the corrections vanish, which is `BooksAlwaysBalance`, and
nobody is about to raise a peak, which is `PeaksAlwaysCover` (if
`"fail" \notin Features`). `KeysAlwaysNameFrames` needs only `FrameInv`: the
types of the two tables and that every index is below `cur_hash_index`; without
it a new index could collide with a live frame.

`RecordsAlwaysExact` (if `"mremap" \notin Features`) says that a block nobody is
working on has exactly its own record and a free address has none. Its invariant
`BlockInv` follows the record of every block through the call that works on it:
not made yet, in the table, detached, or put back. The side condition is real:
`mremap_race` is the counterexample with mremap.

### The snapshot

`SnapInv` is inductive with `SnapTypeOK`. It joins four facts: `ClaimExclusive`
(the claim is set exactly while one thread is in the claim's scope),
`FinalPinsThreshold`, `RetentionOrder` (needed because "at most two walks" is not
inductive: one must know that a tracked snapshot can only be the first and that a
retained observed one disarms the sampler) and `ContextPending`.
`TwoWalksSuffice`, `ContextIsCurrent`, `ClaimIsExclusive` and `FinalIsPinned`
follow; `TrackedDefers`, `ObservedStays` and `ContextNeverLate` are action
properties derived from it and the types.

The handlers' lemmas hold with the snapshot on or off, so `BookInv` is an
invariant of `PeakSpec` too (`PeakBooks`), and with it `BooksBalanceUnderPeak`,
`PeaksCoverUnderPeak` and `RecordsExactUnderPeak`. `SnapshotsAlwaysConsistent`
uses it at the one step that matters: a walk holds every shard, so the counters
it copies are the sums over the records; the list groups the records that have
the same stack and size, and a grouping lemma shows that the groups add up to the
same bytes and the same number of allocations.

### The locks

`LockInv` says of each process that what it is still to lock is ascending and
above what it owns (`PlanAscends`), what a section owns (`SectionOwns`) and who
may be inside a call (`Accounted`), and of finalization that it follows the
sampler's exit. From it, `DeadlockFree`: the owner of the largest mutex owned
waits, if at all, for a larger one, which is therefore free. `FinalizerIsAlone`
and `ChildIsUnlocked` follow too.

### The pipeline

`IInv` joins the types, `DedupExact`, `PendingExact`, that queued and active
stacks are distinct and still have an entry, that ids are below `next_id`, and
where finalization and shutdown stand. It is needed because a single promise is
not inductive: that a completion finds its entry needs to know that no release or
eviction removed it, which follows from what is queued being exactly what is
pending. `PipelineTypes`, `DedupIsExact`, `PendingIsExact`, `JoinDrains` and
`BarrierEndsRefreshes` follow. `PipelineKeepsPromise` is the refinement: under
the invariant every step maps to a step of `StackResults` or to a stutter.

`TablesAlwaysAgree` adds `ReclaimInv`: a result that is no longer pending is in one
of the eviction orders, or failed when the worker gave up, and these orders and
the queue are within the capacity. `ResultsOwnGeneration` adds `OwnInv`: a list
that is still kept is the one its generation was published with, and the modules
the worker has picked so far, and the frames of a result, come from the list of
the stack's own generation, whichever refreshes came in between.

### The descriptors

Each property of `DmaFd` speaks of a descriptor nobody is working on, and what
makes it true is done by a call's second step. `DmaInv` says of every call in
flight what it may count on when it does its bookkeeping (`CallInv`), and of every
descriptor (`FdInv`) and ION handle (`IonInv`, `HandleInv`) which call in flight
will put right what is not right yet; `MutexInv` is that two calls on descriptors
are never in flight together. Handles have no such mutex: what is said of a handle
excepts a number that was issued again while the end of its earlier use was in
flight. A buffer that was mapped only while `is_dma_buf` could not tell it is not
among what is to be put right: nothing is said of it. The same invariant was checked with TLC on the instance of run `dma`
before it was proved.

### Only model-checked

- All liveness (`NobodyStays`, `EverybodyLeaves`, `AcceptedCompletes`,
  `WaitsEnd`): fairness and `ENABLED` are out of the prover's reach.
- The algorithms: they recurse over data, and the provers have no induction over
  data.
- `Lifecycle` (`OneCopyWorks`, `DescendantsSilent`, `NoPhantomJoin`,
  `TargetReports`) and `Interposer` (`BlocksSurvive`): their inductive invariants
  are not worked out yet.

## 5. Where the code and its comments differ

Besides `mremap_race`, these were met while modelling. Each can be seen by the
change of a constant or a property given here; the runs use the inputs for which
the property holds.

| Place | What happens | How to see it |
|---|---|---|
| tracker:1169 | `RestoreEntry` "can never establish a new peak", but an allocation counted while the record was detached makes the restored total the largest ever | `AccountingHeap.cfg` with `PeakCoversCurrent` |
| tracker:625 | a thread that raises the peak while another is between its walk and the release of the claim gives up; the peak stays without a snapshot (1061-1063 says it must have one) | `PeakSnapshotted` in `PeakChaseMax.cfg` with `Floor = 0`, `Step = 0`, `MaxObserved = 0`, `ProcReadable = TRUE` |
| tracker:853 | a crossing that retained nothing sets the latch and closes the allocation path (866-869 says both stay open) | `FallbackStaysOpen` in `PeakFirstCrossing.cfg` with `Sizes = {1, 3}`, `Floor = 1`, `BacktraceMinSize = 3` |
| `ObserveOnlyProbe.cpp`:429 | a target that execs itself meets its own stamp, so the preloaded copy is not the primary | `PreloadWins` in `Life.cfg` |
| `AsyncStackPipeline.h`:167 | `Flush` returns while the callbacks of a failed worker still run | `FlushCoversCallbacks` in `Pipeline.cfg` |
| `DwarfCfa.cpp`:406 | `cfa_restore_state` brings back the remembered pc range too, so the cached rules may claim pcs they do not hold for | `Paddings = {FALSE}` |
| `ObservedMemory.cpp`:1008 | the mapping gate leaves out the GPU's part, though the comment says it skips only samples below the peak | `PeakKernels = {"kgsl"}` |
| tracker:34 | on Android the unwinder and the report both skip the hook's frames and adjust the pc | `Targets = {"android"}` |
| tracker:445 | a mapping whose address starts with a letter is not recognised as a header | `FirstDigits = {TRUE, FALSE}` |
| `Symbols.cpp`:73 | the cache is keyed by a symbol's end, where symbols of size 0 collide with their neighbour | `SymbolSizes = {0, 2}` |

Some disagreements are part of what a property says, since the code does the same
on every input:

- `BootstrapRealloc` releases the old block only if `old_size != 0`
  (`alloc_hook.cpp`:190): an empty bootstrap block that is reallocated is lost.
  `Interposer` records it as `leakedEmpty`, and `LibcBlocksReleased` is about the
  others.
- A heap function that dlsym does not find stays null (`alloc_hook.cpp`:36). Its
  own calls are served from the bootstrap pool; a libc block given to such a
  `realloc` is replaced without its content, one given to such a `free` is dropped,
  and `debug_realloc` calls the null pointer of `malloc` or `free` for a null block
  or a size of 0. `DataKept`, `LibcBlocksReleased` and `NeverThroughNull` except
  functions that libc does not have.
- "Descendant process: no tracking, sampling, helpers, or reports"
  (`ObserveOnlyProbe.h`:47-48): a descendant that allocates before the loader has
  published `environ` cannot see the stamp, takes itself for a target and builds a
  tracker, and a dump signal is then queued. Its constructor sees the stamp and
  silences it. `DescendantsSilent` says that no descendant ever has a helper thread
  and that the tracker and the dump occur in that window's copies only.
- A signal frame that can be read in part is refused on ARM and ARM64 with the
  registers already overwritten by the part (`RegsArm.cpp`:164, `RegsArm64.cpp`:172,
  `Memory.cpp`:179-182); MIPS64 takes any count but zero for success
  (`RegsMips64.cpp`:127, 143, 150). `SignalFrameRestored` says which registers.
- `Reparse` compares start, end, flags and name (`Maps.cpp`:186-187): a mapping of
  another part of the same file in the same place keeps the object, and the file
  offset, of the old one. `MapsFollowKernel` says so.
- `ProcessVmRead` goes on with the next batch of iovecs after a short one
  (`Memory.cpp`:83-121): a read of more pages than `MaxIovecs` with a hole in it
  returns a count that includes bytes from behind the hole, in their wrong place.
  `ReadsExact` allows that case and no other.
- The GPU driver's counter is given up for good on any error of the first open but
  `ENOENT`, so also on a passing one such as `EMFILE`
  (`ObservedMemory.cpp`:706-711). A file that is opened and cannot be parsed gives
  nothing up (735). `CounterLatched` says both.
- An interval is cut to an unsigned (`Config.cpp`:221, 343): a multiple of 2^32
  asks for a sampler and gets none. `ModesAgree` says so.

Read in the code and left out of the inputs or of a property's claim: a rung's
report prints the final peak's resident and observed figures as "at_peak"
(tracker:1558 says every line is tagged with its instant); `hook_overhead` is
tagged by another condition than its figures (1623, 1646); `DumpLiveToFile`
orders by time alone where 1268-1270 asks for a total order; two rungs of one
megabyte share a file name (1759); after a failed `/proc` read an older
snapshot's figures stay beside the new list (749). `MapInfo.cpp`:84 sizes the
view behind a read-only map without the gap between the maps; an embedded image
read from memory lacks its code if its read-only map is asked for first (217); a
data map in front of the next image of a container is given that image's Elf
(307); ranges with one end are dropped (`Memory.cpp`:400). ION handle calls hold
no transaction, so that two overlapping ones may leave a wrong size
(handlers:1013); a pending GPU mark is taken by whatever the thread maps next
(handlers:1270). `op_bra` moves the cursor backwards by the operand when the
branch is not taken (`DwarfOp.cpp`:1867). `IsPrimary` does not look at the result of
its `setenv` (`ObserveOnlyProbe.cpp`:449); the model has it succeed.

## 6. Limits of the model

- An address stands for a whole block; partial `munmap` is not modelled.
- Relaxed atomics are modelled as single indivisible steps in program order.
  The counters are only read by reports and snapshots that hold every shard.
- Sizes of the tracker are small integers; its behaviour at 2^31 and 2^64 is not
  covered.
- In `ShardLocks` only the parent is followed after fork; of the child, which
  mutexes it finds locked. The child's further life is in `Lifecycle`.
- The algorithms are sequential; `LocalUpdatableMaps` and the caches of a shared
  Elf are used under locks whose only order is the one of `MapInfo.cpp`:306.

Not modelled: unwinding of other threads and processes (`ThreadUnwinder`,
`ThreadEntry`, `RemoteMaps`, `MemoryRemote`, `MemoryOffline`, `RemoteGet`), JIT
and dex debug descriptors, and the Elf cache, none of which the hook uses;
functions that only print (`Log`, `GetLogInfo`, `FormatFrame`, the summaries'
wording); the drivers' and OpenCL headers, which declare structures or forward
calls; vendored string and file helpers; the probe, the scripts and the build;
the pointer filter, which only tests read; decompression of `.gnu_debugdata`.

## 7. Plan

1. `Ledger`: an abstract specification of the tracker (a map of live blocks and
   its totals, each call one step) that `MallocDebug` is shown to implement.
2. Proofs: the invariants of `Lifecycle` and `Interposer`.
3. Ranges: partial `munmap` and overlapping `MAP_FIXED`.
