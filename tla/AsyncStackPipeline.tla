--------------------------- MODULE AsyncStackPipeline ---------------------------
(***************************************************************************)
(* The asynchronous stack pipeline: callers submit raw stacks, one worker  *)
(* resolves their frames against the module list of the generation they    *)
(* were captured in, symbolizes them, stores the result and calls back.    *)
(* Every critical section of mutex_ is one step, and so is every part of   *)
(* the worker's loop between two of them.  Condition variables are         *)
(* modelled by their sleepers: a thread that found its predicate false     *)
(* sleeps until someone notifies it.                                       *)
(*                                                                         *)
(* Submit and Flush called by the worker itself (from a callback) return   *)
(* without an effect, and GetResult and stats only read: they have no      *)
(* action.                                                                 *)
(***************************************************************************)
EXTENDS Integers, Sequences, FiniteSets

CONSTANTS
    Pcs,           \* return addresses
    Stacks,        \* raw stacks: sequences of return addresses
    Images,        \* loaded images: [name, load_bias, build_id]
    NoImage,
    ModuleLists,   \* what dl_iterate_phdr may report: pc -> image or NoImage
    Evicted,       \* a generation whose module list is no longer kept
    Clients,       \* threads that submit, release and flush
    Nobody,
    Capacity,      \* capacity_ and result_capacity_
    MaxRetained,   \* max_retained_generations_
    MaxId,         \* bound: identities handed out
    MaxGeneration  \* bound: module lists published

Ids == 1..MaxId
Generations == 1..MaxGeneration
NoId == 0

(* A RawStackKey: two raw stacks are the same if their frames and their
   generation are. *)
Keys == [pcs : Stacks, generation : Generations]
NoKey == [pcs |-> << >>, generation |-> 0]

Frames == [module : Images \cup {NoImage}, function : Images \cup {NoImage}]
Results == [state : {"pending", "resolved", "dropped", "failed"},
            raw : Keys, frames : Seq(Frames)]
QueueItems == [id : Ids, raw : Keys]
NoItem == [id |-> NoId, raw |-> NoKey]
NoResult == [state |-> "none", raw |-> NoKey, frames |-> << >>]

(* The registry's first list is empty, though a process always has an image. *)
NothingLoaded == [pc \in Pcs |-> NoImage]

ASSUME BoundsAssumption ==
    /\ MaxId \in Nat /\ MaxGeneration \in Nat \ {0, 1}
    /\ Capacity \in Nat \ {0} /\ MaxRetained \in Nat \ {0}
ASSUME NamesAssumption ==
    Nobody \notin Clients /\ NoImage \notin Images
    /\ Evicted \notin ModuleLists \cup {NothingLoaded} /\ NothingLoaded \notin ModuleLists
ASSUME StacksAssumption ==
    /\ Stacks \subseteq Seq(Pcs) /\ << >> \notin Stacks
    /\ ModuleLists \subseteq [Pcs -> Images \cup {NoImage}]

VARIABLES
    loaded,     \* the images of the process, as the dynamic loader knows them
    generation, \* ModuleRegistry::generation_
    snapshots,  \* ModuleRegistry::snapshots_
    published,  \* every list ever published, evicted or not (history)
    lifecycle,  \* who owns lifecycle_mutex_
    shutdown_started, stopping, joined,
    next_id,
    unique_stacks, id_to_key, results,
    result_order, dropped_order,
    queue,      \* the queue_size_ items of queue_ from queue_head_ on
    worker,     \* where WorkerLoop is
    item,       \* the QueueItem it works on
    modules,    \* the images it has resolved for the frames so far
    completed,  \* the result it is about to store
    marked,     \* worker_marker_set
    failed,     \* ids it failed without a marker, callbacks still to be called
    client,     \* client -> where its Flush is
    owner       \* where the thread that shuts the pipeline down is

registryVars == <<loaded, generation, snapshots, published>>
lifeVars == <<lifecycle, shutdown_started, joined, owner>>
cacheVars == <<next_id, unique_stacks, id_to_key, results, result_order, dropped_order>>
workVars == <<item, modules, completed, marked, failed>>
vars == <<registryVars, lifeVars, cacheVars, workVars, stopping, queue, worker, client>>

active == IF worker \in {"mark", "resolve", "store", "callback", "finish"}
          THEN 1 ELSE 0
Idle == queue = << >> /\ active = 0

RegistryTypeOK ==
    /\ loaded \in ModuleLists
    /\ generation \in Generations
    /\ snapshots \in [Generations -> ModuleLists \cup {NothingLoaded, Evicted}]
    /\ published \in [Generations -> ModuleLists \cup {NothingLoaded, Evicted}]
LifeTypeOK ==
    /\ lifecycle \in Clients \cup {Nobody}
    /\ shutdown_started \in BOOLEAN /\ stopping \in BOOLEAN /\ joined \in BOOLEAN
    /\ marked \in BOOLEAN
    /\ client \in [Clients -> {"idle", "refresh", "wait", "asleep"}]
    /\ owner \in {"running", "barrier", "stop", "join", "done"}
CacheTypeOK ==
    /\ next_id \in 1..(MaxId + 1)
    /\ unique_stacks \in [Keys -> Ids \cup {NoId}]
    /\ id_to_key \in [Ids -> Keys \cup {NoKey}]
    /\ results \in [Ids -> Results \cup {NoResult}]
    /\ result_order \in Seq(Ids) /\ dropped_order \in Seq(Ids)
    /\ queue \in Seq(QueueItems)
WorkTypeOK ==
    /\ worker \in {"wait", "asleep", "mark", "resolve", "store", "callback", "finish",
                   "failCallbacks", "gone"}
    /\ item \in QueueItems \cup {NoItem}
    /\ modules \in Seq(Images \cup {NoImage})
    /\ completed \in Results \cup {NoResult}
    /\ failed \in Seq(Ids)
TypeOK == RegistryTypeOK /\ LifeTypeOK /\ CacheTypeOK /\ WorkTypeOK

(* ModuleRegistry::Publish: an equivalent list keeps its generation, another
   one gets the next, and only the newest max_retained_generations_ are kept. *)
Kept(lists) == {g \in Generations : lists[g] # Evicted}
Newest(lists) ==
    [g \in Generations |->
        IF Cardinality({h \in Kept(lists) : h >= g}) > MaxRetained
        THEN Evicted ELSE lists[g]]
Publish(list) ==
    IF snapshots[generation] = list
    THEN UNCHANGED <<generation, snapshots, published>>
    ELSE /\ generation + 1 \in Generations
         /\ generation' = generation + 1
         /\ snapshots' = Newest([snapshots EXCEPT ![generation + 1] = list])
         /\ published' = [published EXCEPT ![generation + 1] = list]

(* Slip: an evicted generation is looked up in the newest list. *)
ResolveNewest(pc, g) ==
    IF snapshots[g] = Evicted THEN snapshots[generation][pc] ELSE snapshots[g][pc]

(* ModuleRegistry::Resolve: only the list of the requested generation counts. *)
Resolve(pc, g) == IF snapshots[g] = Evicted THEN NoImage ELSE snapshots[g][pc]

(* The registry starts with an empty list as generation 1 and publishes what is
   loaded; without a thread-local key there is no worker and no work is taken. *)
Init ==
    /\ loaded \in ModuleLists
    /\ generation = 2
    /\ published = [g \in Generations |-> IF g = 1 THEN NothingLoaded
                                         ELSE IF g = 2 THEN loaded ELSE Evicted]
    /\ snapshots = Newest(published)
    /\ lifecycle = Nobody
    /\ \E key_ready \in BOOLEAN :
          stopping = ~key_ready /\ worker = IF key_ready THEN "wait" ELSE "gone"
    /\ shutdown_started = FALSE /\ joined = FALSE
    /\ next_id = 1
    /\ unique_stacks = [k \in Keys |-> NoId]
    /\ id_to_key = [i \in Ids |-> NoKey]
    /\ results = [i \in Ids |-> NoResult]
    /\ result_order = << >> /\ dropped_order = << >>
    /\ queue = << >> /\ item = NoItem
    /\ modules = << >> /\ completed = NoResult
    /\ marked = FALSE /\ failed = << >>
    /\ client = [c \in Clients |-> "idle"]
    /\ owner = "running"

--------------------------------------------------------------------------------
(* Caches. *)

Members(order) == {order[n] : n \in DOMAIN order}
Overflow(order) == SubSeq(order, 1, Len(order) - Capacity)
Trimmed(order) == SubSeq(order, Len(Overflow(order)) + 1, Len(order))

(* std::remove of an id that is in the order at most once. *)
Removed(order, id) ==
    IF id \in Members(order)
    THEN LET at == CHOOSE n \in DOMAIN order : order[n] = id
         IN SubSeq(order, 1, at - 1) \o SubSeq(order, at + 1, Len(order))
    ELSE order

(* EraseResultLocked, for every id of E: results, keys and dedup entries after
   it.  A dedup entry goes only if it still names the id. *)
ErasedUnique(unique, keys, E) ==
    [k \in Keys |-> IF \E i \in E : keys[i] = k /\ unique[k] = i THEN NoId ELSE unique[k]]
ErasedKeys(keys, E) == [i \in Ids |-> IF i \in E THEN NoKey ELSE keys[i]]
ErasedResults(res, E) == [i \in Ids |-> IF i \in E THEN NoResult ELSE res[i]]

(* Slip: the queued copy of the raw stack is not filled in. *)
SubmitAcceptedBlank(key, id) ==
    /\ Len(queue) < Capacity
    /\ unique_stacks' = [unique_stacks EXCEPT ![key] = id]
    /\ id_to_key' = [id_to_key EXCEPT ![id] = key]
    /\ results' = [results EXCEPT ![id] = [state |-> "pending", raw |-> key, frames |-> << >>]]
    /\ queue' = Append(queue, [id |-> id, raw |-> NoKey])
    /\ worker' = IF worker = "asleep" THEN "wait" ELSE worker
    /\ UNCHANGED dropped_order

(* Slip: the worker is not notified. *)
SubmitAcceptedSilent(key, id) ==
    /\ Len(queue) < Capacity
    /\ unique_stacks' = [unique_stacks EXCEPT ![key] = id]
    /\ id_to_key' = [id_to_key EXCEPT ![id] = key]
    /\ results' = [results EXCEPT ![id] = [state |-> "pending", raw |-> key, frames |-> << >>]]
    /\ queue' = Append(queue, [id |-> id, raw |-> key])
    /\ UNCHANGED <<worker, dropped_order>>

SubmitAccepted(key, id) ==
    /\ Len(queue) < Capacity
    /\ unique_stacks' = [unique_stacks EXCEPT ![key] = id]
    /\ id_to_key' = [id_to_key EXCEPT ![id] = key]
    /\ results' = [results EXCEPT ![id] = [state |-> "pending", raw |-> key, frames |-> << >>]]
    /\ queue' = Append(queue, [id |-> id, raw |-> key])
    /\ worker' = IF worker = "asleep" THEN "wait" ELSE worker
    /\ UNCHANGED dropped_order

(* Slip: the dedup entry of a dropped stack stays. *)
SubmitDroppedKeepsKey(key, id) ==
    LET order == Append(dropped_order, id)
        gone == Members(Overflow(order))
        keys == [id_to_key EXCEPT ![id] = key]
        kept == [results EXCEPT ![id] = [state |-> "dropped", raw |-> key, frames |-> << >>]]
    IN /\ Len(queue) = Capacity
       /\ dropped_order' = Trimmed(order)
       /\ unique_stacks' = ErasedUnique([unique_stacks EXCEPT ![key] = id], keys, gone)
       /\ id_to_key' = ErasedKeys(keys, gone)
       /\ results' = ErasedResults(kept, gone)
       /\ UNCHANGED <<queue, worker>>

(* Slip: a dropped result is in no FIFO. *)
SubmitDroppedLeaks(key, id) ==
    /\ Len(queue) = Capacity
    /\ id_to_key' = [id_to_key EXCEPT ![id] = key]
    /\ results' = [results EXCEPT ![id] = [state |-> "dropped", raw |-> key, frames |-> << >>]]
    /\ UNCHANGED <<queue, worker, dropped_order, unique_stacks>>

SubmitDropped(key, id) ==
    LET order == Append(dropped_order, id)
        gone == Members(Overflow(order))
        keys == [id_to_key EXCEPT ![id] = key]
        kept == [results EXCEPT ![id] = [state |-> "dropped", raw |-> key, frames |-> << >>]]
    IN /\ Len(queue) = Capacity
       /\ dropped_order' = Trimmed(order)
       /\ unique_stacks' = ErasedUnique(unique_stacks, keys, gone)
       /\ id_to_key' = ErasedKeys(keys, gone)
       /\ results' = ErasedResults(kept, gone)
       /\ UNCHANGED <<queue, worker>>

(* A caller may have read the generation before it got the lock, or captured
   the stack under an earlier one: any published generation may come in.  A
   stack with a live result only returns its id. *)
Submit(key) ==
    /\ ~stopping
    /\ key.generation <= generation
    /\ unique_stacks[key] = NoId
    /\ next_id \in Ids
    /\ next_id' = next_id + 1
    /\ SubmitAccepted(key, next_id) \/ SubmitDropped(key, next_id)
    /\ UNCHANGED <<registryVars, lifeVars, workVars, stopping, result_order, client>>

(* Slip: a pending result is released too. *)
ReleasePending(id) ==
    /\ results[id] # NoResult
    /\ unique_stacks' = ErasedUnique(unique_stacks, id_to_key, {id})
    /\ id_to_key' = ErasedKeys(id_to_key, {id})
    /\ results' = ErasedResults(results, {id})
    /\ result_order' = Removed(result_order, id)
    /\ dropped_order' = Removed(dropped_order, id)
    /\ UNCHANGED <<registryVars, lifeVars, workVars, stopping, next_id, queue, worker, client>>

Release(id) ==
    /\ results[id].state \notin {"none", "pending"}
    /\ unique_stacks' = ErasedUnique(unique_stacks, id_to_key, {id})
    /\ id_to_key' = ErasedKeys(id_to_key, {id})
    /\ results' = ErasedResults(results, {id})
    /\ result_order' = Removed(result_order, id)
    /\ dropped_order' = Removed(dropped_order, id)
    /\ UNCHANGED <<registryVars, lifeVars, workVars, stopping, next_id, queue, worker, client>>

--------------------------------------------------------------------------------
(* The worker. *)

WorkerTake ==
    /\ worker = "wait" /\ queue # << >>
    /\ item' = Head(queue)
    /\ queue' = Tail(queue)
    /\ worker' = IF marked THEN "resolve" ELSE "mark"
    /\ UNCHANGED <<registryVars, lifeVars, cacheVars, modules, completed, marked, failed,
                   stopping, client>>

WorkerSleep ==
    /\ worker = "wait" /\ queue = << >> /\ ~stopping
    /\ worker' = "asleep"
    /\ UNCHANGED <<registryVars, lifeVars, cacheVars, workVars, stopping, queue, client>>

(* The sleepers of idle_cv_, after a notify_all. *)
Woken(waiters) == [c \in Clients |-> IF waiters[c] = "asleep" THEN "wait" ELSE waiters[c]]

(* The loop ends once there is nothing left to do after stopping_. *)
WorkerExit ==
    /\ worker = "wait" /\ queue = << >> /\ stopping
    /\ worker' = "gone"
    /\ client' = Woken(client)
    /\ UNCHANGED <<registryVars, lifeVars, cacheVars, workVars, stopping, queue>>

WorkerMarked ==
    /\ worker = "mark"
    /\ marked' = TRUE
    /\ worker' = "resolve"
    /\ UNCHANGED <<registryVars, lifeVars, cacheVars, item, modules, completed, failed,
                   stopping, queue, client>>

(* Slip: the stacks that were still queued get no callback. *)
WorkerUnmarkedForgets ==
    LET doomed == <<item.id>> \o [n \in DOMAIN queue |-> queue[n].id]
    IN /\ worker = "mark"
       /\ results' = [i \in Ids |-> IF i \in Members(doomed) /\ results[i] # NoResult
                                    THEN [results[i] EXCEPT !.state = "failed"]
                                    ELSE results[i]]
       /\ failed' = <<item.id>>
       /\ queue' = << >> /\ item' = NoItem
       /\ stopping' = TRUE
       /\ worker' = "failCallbacks"
       /\ UNCHANGED <<registryVars, lifeVars, next_id, unique_stacks, id_to_key, result_order,
                      dropped_order, modules, completed, marked, client>>

(* pthread_setspecific failed: the item and everything queued fail, no more is
   taken, and only then are the callbacks called. *)
WorkerUnmarked ==
    LET doomed == <<item.id>> \o [n \in DOMAIN queue |-> queue[n].id]
    IN /\ worker = "mark"
       /\ results' = [i \in Ids |-> IF i \in Members(doomed) /\ results[i] # NoResult
                                    THEN [results[i] EXCEPT !.state = "failed"]
                                    ELSE results[i]]
       /\ failed' = doomed
       /\ queue' = << >> /\ item' = NoItem
       /\ stopping' = TRUE
       /\ worker' = "failCallbacks"
       /\ UNCHANGED <<registryVars, lifeVars, next_id, unique_stacks, id_to_key, result_order,
                      dropped_order, modules, completed, marked, client>>

WorkerFailCallback ==
    /\ worker = "failCallbacks" /\ failed # << >>
    /\ failed' = Tail(failed)
    /\ UNCHANGED <<registryVars, lifeVars, cacheVars, item, modules, completed, marked,
                   stopping, queue, worker, client>>

(* Slip: waiting callers of Flush are not woken. *)
WorkerFailExitSilent ==
    /\ worker = "failCallbacks" /\ failed = << >>
    /\ worker' = "gone"
    /\ UNCHANGED <<registryVars, lifeVars, cacheVars, workVars, stopping, queue, client>>

WorkerFailExit ==
    /\ worker = "failCallbacks" /\ failed = << >>
    /\ worker' = "gone"
    /\ client' = Woken(client)
    /\ UNCHANGED <<registryVars, lifeVars, cacheVars, workVars, stopping, queue>>

(* One frame after another; a refresh may evict the generation in between. *)
WorkerResolve ==
    /\ worker = "resolve"
    /\ Len(modules) < Len(item.raw.pcs)
    /\ modules' = Append(modules, Resolve(item.raw.pcs[Len(modules) + 1], item.raw.generation))
    /\ UNCHANGED <<registryVars, lifeVars, cacheVars, item, completed, marked, failed,
                   stopping, queue, worker, client>>

(* dladdr knows what is loaded now; its name is taken only for the image the
   frame was resolved to, told by its load bias and its name. *)
SameImage(a, b) == a.load_bias = b.load_bias /\ a.name = b.name
FunctionOf(pc, image) ==
    IF image # NoImage /\ loaded[pc] # NoImage /\ SameImage(loaded[pc], image)
    THEN loaded[pc] ELSE NoImage
SymbolizedFrames(pcs) ==
    [n \in DOMAIN pcs |-> [module |-> modules[n], function |-> FunctionOf(pcs[n], modules[n])]]

(* A symbolizer may also give up. *)
WorkerSymbolize ==
    /\ worker = "resolve"
    /\ Len(modules) = Len(item.raw.pcs)
    /\ \E symbolized \in BOOLEAN :
          completed' = [state |-> IF symbolized /\ NoImage \notin Members(modules)
                                  THEN "resolved" ELSE "failed",
                        raw |-> item.raw,
                        frames |-> SymbolizedFrames(item.raw.pcs)]
    /\ modules' = << >>
    /\ worker' = "store"
    /\ UNCHANGED <<registryVars, lifeVars, cacheVars, item, marked, failed, stopping, queue, client>>

(* The result replaces the pending one, if it is there, and the oldest finished
   results leave the cache. *)
WorkerStore ==
    LET order == Append(result_order, item.id)
        stored == IF results[item.id] = NoResult THEN results
                  ELSE [results EXCEPT ![item.id] = completed]
        gone == {i \in Members(Overflow(order)) : stored[i].state \notin {"none", "pending"}}
    IN /\ worker = "store"
       /\ result_order' = Trimmed(order)
       /\ unique_stacks' = ErasedUnique(unique_stacks, id_to_key, gone)
       /\ id_to_key' = ErasedKeys(id_to_key, gone)
       /\ results' = ErasedResults(stored, gone)
       /\ completed' = NoResult
       /\ worker' = "callback"
       /\ UNCHANGED <<registryVars, lifeVars, next_id, dropped_order, item, modules, marked,
                      failed, stopping, queue, client>>

WorkerCallback ==
    /\ worker = "callback"
    /\ item' = NoItem
    /\ worker' = "finish"
    /\ UNCHANGED <<registryVars, lifeVars, cacheVars, modules, completed, marked, failed,
                   stopping, queue, client>>

WorkerFinish ==
    /\ worker = "finish"
    /\ worker' = "wait"
    /\ client' = IF queue = << >> THEN Woken(client) ELSE client
    /\ UNCHANGED <<registryVars, lifeVars, cacheVars, workVars, stopping, queue>>

Worker == \/ WorkerTake \/ WorkerSleep \/ WorkerExit \/ WorkerMarked \/ WorkerUnmarked
          \/ WorkerFailCallback \/ WorkerFailExit \/ WorkerResolve \/ WorkerSymbolize
          \/ WorkerStore \/ WorkerCallback \/ WorkerFinish

--------------------------------------------------------------------------------
(* Flush, and the thread that finalizes. *)

(* The loader's images are walked and published under lifecycle_mutex_, unless
   finalization has begun. *)
FlushBegin(c) ==
    /\ client[c] = "idle" /\ lifecycle = Nobody
    /\ IF shutdown_started
       THEN client' = [client EXCEPT ![c] = "wait"] /\ UNCHANGED lifecycle
       ELSE client' = [client EXCEPT ![c] = "refresh"] /\ lifecycle' = c
    /\ UNCHANGED <<registryVars, shutdown_started, joined, owner, cacheVars, workVars,
                   stopping, queue, worker>>

FlushRefresh(c) ==
    /\ client[c] = "refresh"
    /\ Publish(loaded)
    /\ lifecycle' = Nobody
    /\ client' = [client EXCEPT ![c] = "wait"]
    /\ UNCHANGED <<loaded, shutdown_started, joined, owner, cacheVars, workVars, stopping,
                   queue, worker>>

FlushWait(c) ==
    /\ client[c] = "wait"
    /\ client' = [client EXCEPT ![c] = IF Idle THEN "idle" ELSE "asleep"]
    /\ UNCHANGED <<registryVars, lifeVars, cacheVars, workVars, stopping, queue, worker>>

(* BeginFinalization: the flag, then lifecycle_mutex_ as a barrier. *)
BeginFinalization ==
    /\ owner = "running"
    /\ shutdown_started' = TRUE
    /\ owner' = "barrier"
    /\ UNCHANGED <<registryVars, lifecycle, joined, cacheVars, workVars, stopping, queue,
                   worker, client>>

(* Slip: the flag is set but a refresh in flight is not waited for. *)
FinalizationBarrierSkipped ==
    /\ owner = "barrier"
    /\ owner' = "stop"
    /\ UNCHANGED <<registryVars, lifecycle, shutdown_started, joined, cacheVars, workVars,
                   stopping, queue, worker, client>>

FinalizationBarrier ==
    /\ owner = "barrier" /\ lifecycle = Nobody
    /\ owner' = "stop"
    /\ UNCHANGED <<registryVars, lifecycle, shutdown_started, joined, cacheVars, workVars,
                   stopping, queue, worker, client>>

(* Slip: a sleeping worker is not notified. *)
ShutdownStopSilent ==
    /\ owner = "stop"
    /\ stopping' = TRUE
    /\ owner' = "join"
    /\ UNCHANGED <<registryVars, lifecycle, shutdown_started, joined, cacheVars, workVars,
                   queue, worker, client>>

ShutdownStop ==
    /\ owner = "stop"
    /\ stopping' = TRUE
    /\ worker' = IF worker = "asleep" THEN "wait" ELSE worker
    /\ owner' = "join"
    /\ UNCHANGED <<registryVars, lifecycle, shutdown_started, joined, cacheVars, workVars,
                   queue, client>>

(* Slip: the worker is told to stop but not joined. *)
ShutdownJoinSkipped ==
    /\ owner = "join"
    /\ joined' = TRUE
    /\ owner' = "done"
    /\ UNCHANGED <<registryVars, lifecycle, shutdown_started, cacheVars, workVars, stopping,
                   queue, worker, client>>

ShutdownJoin ==
    /\ owner = "join" /\ worker = "gone"
    /\ joined' = TRUE
    /\ owner' = "done"
    /\ UNCHANGED <<registryVars, lifecycle, shutdown_started, cacheVars, workVars, stopping,
                   queue, worker, client>>

Flush(c) == FlushBegin(c) \/ FlushRefresh(c) \/ FlushWait(c)
Shutdown == BeginFinalization \/ FinalizationBarrier \/ ShutdownStop \/ ShutdownJoin

(* dlopen and dlclose by the application. *)
Load ==
    /\ generation + 1 \in Generations
    /\ loaded' \in ModuleLists \ {loaded}
    /\ UNCHANGED <<generation, snapshots, published, lifeVars, cacheVars, workVars, stopping, queue,
                   worker, client>>

Next == \/ \E key \in Keys : Submit(key)
        \/ \E id \in Ids : Release(id)
        \/ Worker
        \/ \E c \in Clients : Flush(c)
        \/ Shutdown
        \/ Load

(* The worker runs while it has something to do, a lock that is free is taken,
   and the owner of lifecycle_mutex_ gives it back. *)
Fairness == /\ WF_vars(Worker)
            /\ \A c \in Clients : WF_vars(FlushRefresh(c)) /\ WF_vars(FlushWait(c))
            /\ WF_vars(FinalizationBarrier \/ ShutdownStop \/ ShutdownJoin)

Spec == Init /\ [][Next]_vars
FairSpec == Spec /\ Fairness

--------------------------------------------------------------------------------
Pending == {i \in Ids : results[i].state = "pending"}
Queued == {queue[n].id : n \in DOMAIN queue}
InHand == IF worker \in {"mark", "resolve", "store"} THEN {item.id} ELSE {}

(* A dedup entry names a live result of that very stack, and every result that
   was not dropped is found through its entry: Submit never returns an id whose
   result is gone, and never queues a stack twice. *)
DedupExact ==
    /\ \A k \in Keys : unique_stacks[k] # NoId =>
          LET i == unique_stacks[k]
          IN results[i].raw = k /\ id_to_key[i] = k /\ results[i].state # "dropped"
    /\ \A i \in Ids : results[i].state \notin {"none", "dropped"} =>
          unique_stacks[results[i].raw] = i

(* The pending results are exactly the ones queued or in the worker's hands: no
   eviction, release or shutdown strands one, and none is worked on after it was
   forgotten. *)
PendingExact == Pending = Queued \cup InHand

(* Every remembered result can still be reclaimed: it is pending, or in one of
   the two bounded FIFOs, or it failed when the worker gave up; and only
   remembered ids keep a key. *)
Reclaimable ==
    /\ \A i \in Ids : results[i] # NoResult =>
          \/ i \in Pending \cup Members(result_order) \cup Members(dropped_order)
          \/ results[i].state = "failed" /\ stopping /\ ~marked
    /\ \A i \in Ids : id_to_key[i] # NoKey <=> results[i] # NoResult
    /\ Len(result_order) <= Capacity /\ Len(dropped_order) <= Capacity
    /\ Len(queue) <= Capacity

(* A frame of a result is attributed to the image its own generation was
   published with, never to a later occupant of the address, and a function name
   only comes from an image of the same name and load bias. *)
OwnGeneration ==
    \A i \in Ids : results[i].state = "resolved" =>
        \A n \in DOMAIN results[i].frames :
            LET frame == results[i].frames[n]
            IN /\ frame.module = published[results[i].raw.generation][results[i].raw.pcs[n]]
               /\ frame.module # NoImage
               /\ frame.function # NoImage => SameImage(frame.function, frame.module)

(* Once Shutdown has joined the worker, all accepted work is done: nothing is
   queued or pending and no callback is outstanding. *)
DrainedAtJoin == joined => Idle /\ Pending = {} /\ failed = << >> /\ worker = "gone"

(* No module list is published any more once BeginFinalization has returned. *)
NoRefreshAfterBarrier ==
    [][(owner \in {"stop", "join", "done"}) => UNCHANGED <<generation, snapshots>>]_vars

(* Flush returns only when no callback is outstanding. *)
FlushCoversCallbacks ==
    [][\A c \in Clients : client[c] = "wait" /\ client'[c] = "idle" =>
          worker # "callback" /\ failed = << >>]_vars

(* Every accepted stack leaves the pending state. *)
AcceptedCompletes == \A i \in Ids : i \in Pending ~> i \notin Pending

(* Every Flush that has its refresh lock returns, no wake-up being lost. *)
FlushEnds == \A c \in Clients : client[c] # "idle" ~> client[c] = "idle"

(* A shutdown that has begun joins the worker. *)
ShutdownEnds == owner = "barrier" ~> owner = "done"

(* The pipeline's tables agree with each other: dedup entries, results, keys, queue
   and eviction lists are about the same stacks, whatever was dropped, released,
   evicted or failed. *)
TablesAgree == TypeOK /\ DedupExact /\ PendingExact /\ Reclaimable

(* No Flush and no Shutdown waits for ever. *)
WaitsEnd == FlushEnds /\ ShutdownEnds
================================================================================
