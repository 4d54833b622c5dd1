------------------------ MODULE AsyncStackPipelineProofs ------------------------
(***************************************************************************)
(* Proofs about the asynchronous stack pipeline, for any number of         *)
(* clients, stacks, images, identities and generations and any capacity:   *)
(* the types, the exactness of the dedup index and of the pending set, the *)
(* drained shutdown, that the pipeline implements StackResults, that its   *)
(* tables agree and keep nothing out of reach, and that results are true   *)
(* to the generation of their stack.                                       *)
(***************************************************************************)
EXTENDS StackPipelinePromise, AsyncStackPipelineInv

(* Storing a result and evicting the oldest finished ones keeps the invariant. *)
LEMMA StoreInv == IInv /\ WorkerStore => IInv'
<1> SUFFICES ASSUME IInv, WorkerStore PROVE IInv'
  BY Zenon
<1> USE DEF IInv, TypeOK, CacheInv
<1> DEFINE order == Append(result_order, item.id)
           stored == [results EXCEPT ![item.id] = completed]
           gone == {i \in Members(Overflow(order)) : stored[i].state \notin {"none", "pending"}}
<1>1. /\ worker = "store" /\ item.id \in Ids /\ results[item.id].state = "pending"
      /\ results[item.id].raw = item.raw /\ completed.raw = item.raw
      /\ completed \in Results /\ completed.state \in {"resolved", "failed"}
      /\ \A n \in DOMAIN queue : queue[n].id \in Ids /\ item.id < queue[n].id
  BY WorkIds, Zenon DEF WorkerStore, WorkInv, QueueInv
<1>2. results[item.id] # NoResult
  BY <1>1 DEF NoResult
<1>3. /\ result_order' = Trimmed(order)
      /\ unique_stacks' = ErasedUnique(unique_stacks, id_to_key, gone)
      /\ id_to_key' = ErasedKeys(id_to_key, gone)
      /\ results' = ErasedResults(stored, gone)
      /\ completed' = NoResult /\ worker' = "callback"
      /\ UNCHANGED <<next_id, dropped_order, item, modules, failed, queue, stopping, joined>>
  BY <1>2, Zenon DEF WorkerStore, lifeVars
<1>4. /\ order \in Seq(Ids) /\ Members(order) = Members(result_order) \cup {item.id}
      /\ Members(Overflow(order)) \subseteq Members(result_order)
      /\ Members(result_order) \subseteq Ids
  BY <1>1, AppendMembers, OrderTypes, Zenon DEF CacheTypeOK
<1>5. stored \in [Ids -> Results \cup {NoResult}]
  BY <1>1, Zenon DEF CacheTypeOK
<1>6. gone \subseteq Ids /\ item.id \notin gone
      /\ \A i \in gone : results[i].state \in {"resolved", "failed"} /\ i \in Members(result_order)
  <2>1. item.id \notin Members(result_order)
    BY <1>1, Zenon DEF MemoryInv
  <2>2. \A i \in Ids \ {item.id} : stored[i] = results[i]
    BY Zenon DEF CacheTypeOK
  <2> QED BY <1>4, <2>1, <2>2, Zenon DEF MemoryInv
<1>7. /\ results'[item.id] = completed
      /\ \A i \in Ids \ {item.id} : results'[i] = IF i \in gone THEN NoResult ELSE results[i]
      /\ \A i \in Ids : id_to_key'[i] = IF i \in gone THEN NoKey ELSE id_to_key[i]
  BY <1>1, <1>3, <1>6, Zenon DEF ErasedResults, ErasedKeys, CacheTypeOK
<1>8. RegistryTypeOK' /\ LifeTypeOK'
  BY RegistryTypeStutter, LifeTypeStutter, Zenon DEF WorkerStore
<1>9. CacheTypeOK' /\ WorkTypeOK'
  <2> HIDE DEF order, stored, gone
  <2>1. result_order' \in Seq(Ids)
    BY <1>1, <1>3, <1>4, OrderTypes, Zenon
  <2> QED BY <1>3, <1>5, <2>1, ErasedTypes, Zenon DEF CacheTypeOK, WorkTypeOK
<1>10. WorkInv'
  BY <1>1, <1>3, Zenon DEF WorkInv
<1>11. DedupExact'
  <2>1. ASSUME NEW k \in Keys, unique_stacks[k] # NoId
        PROVE  /\ stored[unique_stacks[k]].raw = k /\ id_to_key[unique_stacks[k]] = k
               /\ stored[unique_stacks[k]].state # "dropped"
    BY <1>1, <2>1, Zenon DEF DedupExact, CacheTypeOK
  <2>2. ASSUME NEW i \in Ids, stored[i].state \notin {"none", "dropped"}
        PROVE  unique_stacks[stored[i].raw] = i
    BY <1>1, <2>2 DEF DedupExact, CacheTypeOK
  <2>3. /\ unique_stacks \in [Keys -> Ids \cup {NoId}] /\ id_to_key \in [Ids -> Keys \cup {NoKey}]
        /\ gone \in SUBSET Ids
    BY <1>6, Zenon DEF CacheTypeOK
  <2> HIDE DEF stored, gone
  <2>4. DedupOf(unique_stacks, id_to_key, stored)
    BY <2>1, <2>2, Zenon DEF DedupOf
  <2> QED BY <1>3, <1>5, <2>3, <2>4, ErasedDedup, Zenon
<1> HIDE DEF order, stored, gone
<1>12. QueueInv'
  <2>1. \A n \in DOMAIN queue : results'[queue[n].id] = results[queue[n].id]
    <3> SUFFICES ASSUME NEW n \in DOMAIN queue PROVE results'[queue[n].id] = results[queue[n].id]
      BY Zenon
    <3>1. queue[n].id \in Ids /\ queue[n].id # item.id /\ results[queue[n].id].state = "pending"
      BY <1>1 DEF QueueInv, Ids
    <3> QED BY <1>6, <1>7, <3>1, Zenon
  <2>2. \A i \in Ids : results'[i].state = "pending" => i # item.id /\ results[i].state = "pending"
    BY <1>1, <1>7 DEF NoResult
  <2>3. \A i \in Ids : results'[i].state = "pending" => \E n \in DOMAIN queue : queue[n].id = i
    BY <2>2, Zenon DEF QueueInv
  <2> QED BY <1>3, <2>1, <2>3 DEF QueueInv
<1>13. MemoryInv'
  <2>1. \A i \in Ids : results'[i] # NoResult => i < next_id
    BY <1>2, <1>7, Zenon DEF MemoryInv
  <2>2. \A i \in Ids : id_to_key'[i] = results'[i].raw
    BY <1>1, <1>6, <1>7 DEF MemoryInv, NoResult
  <2>3. Members(dropped_order) \subseteq Ids /\ Members(result_order') \subseteq Members(order)
    BY <1>1, <1>3, <1>4, OrderTypes, Zenon DEF CacheTypeOK
  <2>4. ASSUME NEW i \in Members(dropped_order)
        PROVE  results'[i].state \in {"none", "dropped"} /\ i < next_id
    BY <1>1, <1>7, <2>3 DEF MemoryInv, NoResult
  <2>5. item.id < next_id
    BY <1>1, <1>2, Zenon DEF MemoryInv
  <2>6. ASSUME NEW i \in Members(result_order')
        PROVE  results'[i].state \in {"none", "resolved", "failed"} /\ i < next_id
    <3>1. CASE i = item.id
      BY <1>1, <1>7, <2>5, <3>1, Zenon
    <3>2. CASE i # item.id
      BY <1>4, <1>7, <2>3, <3>2 DEF MemoryInv, NoResult
    <3> QED BY <3>1, <3>2, Zenon
  <2> QED BY <1>3, <2>1, <2>2, <2>4, <2>6, Zenon DEF MemoryInv
<1>14. FailedOrdered'
  BY <1>3, Zenon DEF FailedOrdered
<1> QED BY <1>8, <1>9, <1>10, <1>11, <1>12, <1>13, <1>14, Zenon

(* The frames of a result have images, or none. *)
LEMMA FramesType ==
    ASSUME TypeOK, NEW pcs \in Stacks, Len(modules) = Len(pcs)
    PROVE  SymbolizedFrames(pcs) \in Seq(Frames)
<1>1. pcs \in Seq(Pcs)
  BY StacksAssumption, Zenon
<1>2. modules \in Seq(Images \cup {NoImage}) /\ loaded \in [Pcs -> Images \cup {NoImage}]
  BY StacksAssumption, Zenon DEF TypeOK, RegistryTypeOK, WorkTypeOK
<1>3. Len(pcs) \in Nat /\ DOMAIN pcs = 1..Len(pcs) /\ DOMAIN modules = 1..Len(pcs)
  BY <1>1, <1>2
<1>4. \A n \in 1..Len(pcs) : modules[n] \in Images \cup {NoImage} /\ pcs[n] \in Pcs
  BY <1>1, <1>2, <1>3
<1>5. \A n \in 1..Len(pcs) : FunctionOf(pcs[n], modules[n]) \in Images \cup {NoImage}
  BY <1>2, <1>4, Zenon DEF FunctionOf
<1>6. SymbolizedFrames(pcs) \in [1..Len(pcs) -> Frames]
  BY <1>3, <1>4, <1>5, Zenon DEF SymbolizedFrames, Frames
<1> QED BY <1>3, <1>6

(* The steps of the worker that leave the caches alone. *)
LEMMA QuietWorkerInv ==
    ASSUME IInv,
           \/ WorkerSleep \/ WorkerExit \/ WorkerMarked \/ WorkerFailCallback \/ WorkerFailExit
           \/ WorkerResolve \/ WorkerSymbolize \/ WorkerCallback \/ WorkerFinish
    PROVE  IInv'
<1> USE DEF IInv, TypeOK
<1>1. UNCHANGED <<registryVars, lifeVars, cacheVars, stopping, queue>>
  BY Zenon DEF WorkerSleep, WorkerExit, WorkerMarked, WorkerFailCallback, WorkerFailExit,
         WorkerResolve, WorkerSymbolize, WorkerCallback, WorkerFinish, workVars
<1>2. RegistryTypeOK' /\ CacheTypeOK'
  BY <1>1, RegistryTypeStutter, CacheTypeStutter, Zenon
<1>3. LifeTypeOK'
  <2>1. /\ marked' \in {marked, TRUE, FALSE}
        /\ client' \in {client, Woken(client)}
    BY Zenon DEF WorkerSleep, WorkerExit, WorkerMarked, WorkerFailCallback, WorkerFailExit,
             WorkerResolve, WorkerSymbolize, WorkerCallback, WorkerFinish, workVars
  <2>2. client' \in [Clients -> {"idle", "refresh", "wait", "asleep"}]
    BY <2>1 DEF LifeTypeOK, Woken
  <2> QED BY <1>1, <2>1, <2>2, Zenon DEF LifeTypeOK, lifeVars
<1>4. MemoryInv' /\ DedupExact'
  BY <1>1, Zenon DEF CacheInv, MemoryInv, DedupExact, cacheVars
<1>5. CASE WorkerFailCallback
  <2>1. /\ worker = "failCallbacks" /\ failed # << >> /\ failed' = Tail(failed)
        /\ UNCHANGED <<item, modules, completed, worker>>
    BY <1>5, Zenon DEF WorkerFailCallback
  <2>2. failed \in Seq(Ids)
    BY Zenon DEF WorkTypeOK
  <2>3. WorkTypeOK' /\ WorkInv'
    BY <1>1, <2>1, <2>2 DEF WorkTypeOK, WorkInv, lifeVars
  <2>4. QueueInv'
    BY <1>1, <2>1, Zenon DEF CacheInv, QueueInv, cacheVars
  <2>5. FailedOrdered'
    <3>1. \A n \in DOMAIN failed' : n \in Nat /\ n + 1 \in DOMAIN failed /\ failed'[n] = failed[n + 1]
      BY <2>1, <2>2
    <3> QED BY <3>1 DEF CacheInv, FailedOrdered
  <2> QED BY <1>2, <1>3, <1>4, <2>3, <2>4, <2>5, Zenon DEF CacheInv
<1>6. CASE WorkerResolve
  <2>1. /\ worker = "resolve" /\ Len(modules) < Len(item.raw.pcs)
        /\ modules' = Append(modules, Resolve(item.raw.pcs[Len(modules) + 1], item.raw.generation))
        /\ UNCHANGED <<item, completed, failed, worker>>
    BY <1>6, Zenon DEF WorkerResolve
  <2>2. item.raw.pcs \in Seq(Pcs) /\ item.raw.generation \in Generations
    BY <2>1, WorkIds, StacksAssumption, Zenon DEF Keys
  <2>3. modules \in Seq(Images \cup {NoImage})
    BY Zenon DEF WorkTypeOK
  <2>4. item.raw.pcs[Len(modules) + 1] \in Pcs
    BY <2>1, <2>2, <2>3
  <2>5. modules' \in Seq(Images \cup {NoImage})
    BY <2>1, <2>2, <2>3, <2>4, ResolveType
  <2>6. WorkTypeOK' /\ WorkInv'
    BY <1>1, <2>1, <2>5, Zenon DEF WorkTypeOK, WorkInv, lifeVars
  <2>7. QueueInv' /\ FailedOrdered'
    BY <1>1, <2>1, Zenon DEF CacheInv, QueueInv, FailedOrdered, cacheVars
  <2> QED BY <1>2, <1>3, <1>4, <2>6, <2>7, Zenon DEF CacheInv
<1>7. CASE WorkerSymbolize
  <2>1. /\ worker = "resolve" /\ Len(modules) = Len(item.raw.pcs)
        /\ \E state \in {"resolved", "failed"} :
              completed' = [state |-> state, raw |-> item.raw, frames |-> SymbolizedFrames(item.raw.pcs)]
        /\ modules' = << >> /\ worker' = "store"
        /\ UNCHANGED <<item, failed>>
    BY <1>7, Zenon DEF WorkerSymbolize
  <2>2. item \in QueueItems /\ item.raw \in Keys /\ item.raw.pcs \in Stacks
    BY <2>1, WorkIds, Zenon DEF Keys, WorkInv
  <2>3. SymbolizedFrames(item.raw.pcs) \in Seq(Frames)
    BY <2>1, <2>2, FramesType, Zenon
  <2>4. completed' \in Results /\ completed'.state \in {"resolved", "failed"} /\ completed'.raw = item.raw
    BY <2>1, <2>2, <2>3 DEF Results
  <2>5. WorkTypeOK' /\ WorkInv'
    BY <1>1, <2>1, <2>2, <2>4 DEF WorkTypeOK, WorkInv, lifeVars
  <2>6. QueueInv' /\ FailedOrdered'
    BY <1>1, <2>1, Zenon DEF CacheInv, QueueInv, FailedOrdered, cacheVars
  <2> QED BY <1>2, <1>3, <1>4, <2>5, <2>6, Zenon DEF CacheInv
<1>8. CASE WorkerMarked \/ WorkerSleep \/ WorkerExit \/ WorkerFailExit \/ WorkerCallback \/ WorkerFinish
  <2>1. WorkTypeOK' /\ WorkInv'
    BY <1>1, <1>8, Zenon DEF WorkTypeOK, WorkInv, lifeVars, WorkerMarked, WorkerSleep, WorkerExit,
                      WorkerFailExit, WorkerCallback, WorkerFinish, workVars
  <2>2. QueueInv' /\ FailedOrdered'
    BY <1>1, <1>8, Zenon DEF CacheInv, QueueInv, FailedOrdered, cacheVars, WorkerMarked, WorkerSleep,
                      WorkerExit, WorkerFailExit, WorkerCallback, WorkerFinish, workVars
  <2> QED BY <1>2, <1>3, <1>4, <2>1, <2>2, Zenon DEF CacheInv
<1> QED BY <1>5, <1>6, <1>7, <1>8, Zenon

(* Flush, finalization and the loader leave the work alone. *)
LEMMA LifeStepInv ==
    ASSUME IInv, (\E c \in Clients : Flush(c)) \/ Shutdown \/ Load
    PROVE  IInv'
<1> USE DEF IInv, TypeOK
<1>1. /\ UNCHANGED <<cacheVars, workVars, queue>>
      /\ worker' = worker \/ (worker = "asleep" /\ worker' = "wait")
      /\ stopping => stopping'
  BY DEF Flush, FlushBegin, FlushRefresh, FlushWait, Shutdown, BeginFinalization,
         FinalizationBarrier, ShutdownStop, ShutdownJoin, Load, lifeVars
<1>2. CacheTypeOK' /\ WorkTypeOK'
  BY <1>1, CacheTypeStutter, Zenon DEF WorkTypeOK, workVars
<1>3. CacheInv' /\ DedupExact'
  BY <1>1, CacheStutter, Zenon DEF workVars
<1>4. WorkInv'
  <2>1. joined' => joined \/ worker = "gone"
    BY Zenon DEF Flush, FlushBegin, FlushRefresh, FlushWait, Shutdown, BeginFinalization,
           FinalizationBarrier, ShutdownStop, ShutdownJoin, Load, lifeVars
  <2> QED BY <1>1, <2>1, Zenon DEF WorkInv, workVars
<1>5. RegistryTypeOK' /\ LifeTypeOK'
  <2>1. CASE Load
    BY <2>1, Zenon DEF Load, RegistryTypeOK, LifeTypeOK, lifeVars, workVars
  <2>2. CASE Shutdown
    <3>1. RegistryTypeOK'
      BY <2>2, RegistryTypeStutter, Zenon DEF Shutdown, BeginFinalization, FinalizationBarrier,
                                       ShutdownStop, ShutdownJoin
    <3>2. LifeTypeOK'
      BY <2>2, Zenon DEF Shutdown, BeginFinalization, FinalizationBarrier, ShutdownStop, ShutdownJoin,
                  LifeTypeOK, workVars
    <3> QED BY <3>1, <3>2, Zenon
  <2>3. ASSUME NEW c \in Clients, Flush(c) PROVE RegistryTypeOK' /\ LifeTypeOK'
    <3>1. LifeTypeOK'
      BY <2>3, Zenon DEF Flush, FlushBegin, FlushRefresh, FlushWait, LifeTypeOK, workVars, lifeVars
    <3>2. CASE FlushBegin(c) \/ FlushWait(c)
      BY <3>1, <3>2, RegistryTypeStutter, Zenon DEF FlushBegin, FlushWait
    <3>3. CASE FlushRefresh(c)
      <4>1. Publish(loaded) /\ UNCHANGED loaded
        BY <3>3, Zenon DEF FlushRefresh
      <4>2. generation + 1 \in Generations =>
              /\ [snapshots EXCEPT ![generation + 1] = loaded]
                    \in [Generations -> ModuleLists \cup {NothingLoaded, Evicted}]
              /\ [published EXCEPT ![generation + 1] = loaded]
                    \in [Generations -> ModuleLists \cup {NothingLoaded, Evicted}]
        BY Zenon DEF RegistryTypeOK
      <4> QED BY <3>1, <4>1, <4>2, NewestType, Zenon DEF Publish, RegistryTypeOK
    <3> QED BY <2>3, <3>1, <3>2, <3>3, Zenon DEF Flush
  <2> QED BY <2>1, <2>2, <2>3, Zenon
<1> QED BY <1>2, <1>3, <1>4, <1>5, Zenon

(* Every step keeps the invariant. *)
LEMMA NextInv == IInv /\ [Next]_vars => IInv'
<1> SUFFICES ASSUME IInv, [Next]_vars PROVE IInv'
  BY Zenon
<1>1. CASE UNCHANGED vars
  <2>1. UNCHANGED <<registryVars, lifeVars, cacheVars, workVars, stopping, queue, worker, client>>
    BY <1>1, Zenon DEF vars
  <2>2. TypeOK'
    BY <2>1, RegistryTypeStutter, LifeTypeStutter, CacheTypeStutter, WorkTypeStutter, Zenon
       DEF IInv, TypeOK, workVars
  <2>3. WorkInv' /\ CacheInv' /\ DedupExact'
    BY <2>1, CacheStutter, Zenon DEF IInv, WorkInv, workVars, lifeVars
  <2> QED BY <2>2, <2>3, Zenon DEF IInv
<1>2. ASSUME NEW key \in Keys, Submit(key) PROVE IInv'
  BY <1>2, SubmitInv, Zenon
<1>3. ASSUME NEW id \in Ids, Release(id) PROVE IInv'
  BY <1>3, ReleaseInv, Zenon
<1>4. CASE Worker
  BY <1>4, TakeInv, UnmarkedInv, StoreInv, QuietWorkerInv, Zenon DEF Worker
<1>5. CASE (\E c \in Clients : Flush(c)) \/ Shutdown \/ Load
  BY <1>5, LifeStepInv, Zenon
<1> QED BY <1>1, <1>2, <1>3, <1>4, <1>5, Zenon DEF Next

(* The pipeline's state is well typed, its dedup index is exact, and the queue,
   the worker and the caches agree, whatever the capacities and however the
   callers, the worker, the flushes and the shutdown interleave. *)
THEOREM PipelineInvariant == Spec => []IInv
<1> QED BY InitInv, NextInv, PTL DEF Spec

(* Types of the pipeline's state. *)
THEOREM PipelineTypes == Spec => []TypeOK
<1>1. IInv => TypeOK
  BY Zenon DEF IInv
<1> QED BY <1>1, PipelineInvariant, PTL

(* A dedup entry names a live result of that very stack, and every result that
   was not dropped is found through its entry. *)
THEOREM DedupIsExact == Spec => []DedupExact
<1>1. IInv => DedupExact
  BY Zenon DEF IInv
<1> QED BY <1>1, PipelineInvariant, PTL

(* The pending results are exactly the ones queued or in the worker's hands. *)
LEMMA InvPending == IInv => PendingExact
<1> SUFFICES ASSUME IInv PROVE PendingExact
  BY Zenon
<1>1. /\ \A n \in DOMAIN queue : queue[n].id \in Ids
      /\ worker \in {"mark", "resolve", "store"} => item.id \in Ids
  BY WorkIds, Zenon DEF IInv
<1>2. \A i \in Ids : i \in Queued \cup InHand <=> results[i].state = "pending"
  BY <1>1 DEF IInv, CacheInv, QueueInv, Queued, InHand
<1>3. Queued \cup InHand \subseteq Ids
  BY <1>1, Zenon DEF Queued, InHand
<1> QED BY <1>2, <1>3, Zenon DEF PendingExact, Pending

(* In every reachable state the pending results are the ones queued or in the
   worker's hands: Submit, Release, an eviction or a worker that gives up
   strands none. *)
THEOREM PendingIsExact == Spec => []PendingExact
<1> QED BY InvPending, PipelineInvariant, PTL

(* Once Shutdown has joined the worker, all accepted work is done. *)
THEOREM JoinDrains == Spec => []DrainedAtJoin
<1>1. IInv => DrainedAtJoin
  <2> SUFFICES ASSUME IInv, joined PROVE Idle /\ Pending = {} /\ failed = << >> /\ worker = "gone"
    BY Zenon DEF DrainedAtJoin
  <2>1. worker = "gone" /\ queue = << >> /\ failed = << >>
    BY Zenon DEF IInv, WorkInv
  <2>2. Pending = {}
    BY <2>1, InvPending DEF PendingExact, Queued, InHand
  <2> QED BY <2>1, <2>2, Zenon DEF Idle, active
<1> QED BY <1>1, PipelineInvariant, PTL

(* A refresh owns lifecycle_mutex_, and past the barrier there is none. *)
LifeInv ==
    /\ LifeTypeOK
    /\ \A c \in Clients : client[c] = "refresh" => lifecycle = c
    /\ owner # "running" => shutdown_started
    /\ owner \in {"stop", "join", "done"} => \A c \in Clients : client[c] # "refresh"

(* Every step keeps the lifecycle invariant. *)
LEMMA LifeInvKept == LifeInv /\ LifeTypeOK' /\ [Next]_vars => LifeInv'
<1> SUFFICES ASSUME LifeInv, LifeTypeOK', [Next]_vars PROVE LifeInv'
  BY Zenon
<1>1. CASE \/ UNCHANGED vars \/ (\E key \in Keys : Submit(key)) \/ (\E id \in Ids : Release(id))
           \/ Load
  BY <1>1, Zenon DEF LifeInv, vars, lifeVars, Submit, Release, Load
<1>2. CASE Worker
  <2>1. UNCHANGED lifeVars /\ (UNCHANGED client \/ client' = Woken(client))
    BY <1>2, Zenon DEF Worker, WorkerTake, WorkerSleep, WorkerExit, WorkerMarked, WorkerUnmarked,
         WorkerFailCallback, WorkerFailExit, WorkerResolve, WorkerSymbolize, WorkerStore,
         WorkerCallback, WorkerFinish
  <2> QED BY <2>1, Zenon DEF LifeInv, lifeVars, Woken
<1>3. CASE Shutdown
  <2>1. CASE FinalizationBarrier
    <3>1. \A c \in Clients : client[c] # "refresh"
      BY <2>1, NamesAssumption, Zenon DEF LifeInv, FinalizationBarrier
    <3> QED BY <2>1, <3>1, Zenon DEF LifeInv, FinalizationBarrier
  <2>2. CASE BeginFinalization \/ ShutdownStop \/ ShutdownJoin
    BY <2>2, Zenon DEF LifeInv, BeginFinalization, ShutdownStop, ShutdownJoin
  <2> QED BY <1>3, <2>1, <2>2, Zenon DEF Shutdown
<1>4. ASSUME NEW c \in Clients, Flush(c) PROVE LifeInv'
  <2>1. client \in [Clients -> {"idle", "refresh", "wait", "asleep"}]
    BY Zenon DEF LifeInv, LifeTypeOK
  <2>2. CASE FlushBegin(c)
    BY <2>1, <2>2, NamesAssumption, Zenon DEF LifeInv, FlushBegin
  <2>3. CASE FlushRefresh(c)
    BY <2>1, <2>3, Zenon DEF LifeInv, FlushRefresh
  <2>4. CASE FlushWait(c)
    BY <2>1, <2>4, Zenon DEF LifeInv, FlushWait, lifeVars
  <2> QED BY <1>4, <2>2, <2>3, <2>4, Zenon DEF Flush
<1> QED BY <1>1, <1>2, <1>3, <1>4, Zenon DEF Next

(* No module list is published once BeginFinalization has returned. *)
THEOREM BarrierEndsRefreshes == Spec => NoRefreshAfterBarrier
<1>1. Init => LifeInv
  BY InitInv, Zenon DEF IInv, TypeOK, Init, LifeInv
<1>2. LifeInv /\ [Next]_vars =>
        [(owner \in {"stop", "join", "done"}) => UNCHANGED <<generation, snapshots>>]_vars
  <2> SUFFICES ASSUME LifeInv, Next, owner \in {"stop", "join", "done"}
               PROVE  UNCHANGED <<generation, snapshots>>
    BY Zenon
  <2>1. ASSUME NEW c \in Clients, Flush(c) PROVE UNCHANGED <<generation, snapshots>>
    BY <2>1, Zenon DEF Flush, FlushBegin, FlushRefresh, FlushWait, LifeInv, registryVars
  <2>2. CASE Worker
    BY <2>2, Zenon DEF Worker, WorkerTake, WorkerSleep, WorkerExit, WorkerMarked, WorkerUnmarked,
         WorkerFailCallback, WorkerFailExit, WorkerResolve, WorkerSymbolize, WorkerStore,
         WorkerCallback, WorkerFinish, registryVars
  <2>3. CASE Shutdown \/ Load
    BY <2>3, Zenon DEF Shutdown, BeginFinalization, FinalizationBarrier, ShutdownStop, ShutdownJoin,
                Load, registryVars
  <2>4. CASE (\E key \in Keys : Submit(key)) \/ (\E id \in Ids : Release(id))
    BY <2>4, Zenon DEF Submit, Release, registryVars
  <2> QED BY <2>1, <2>2, <2>3, <2>4, Zenon DEF Next
<1>3. IInv => LifeTypeOK
  BY Zenon DEF IInv, TypeOK
<1> QED BY <1>1, <1>2, <1>3, LifeInvKept, PipelineInvariant, PTL DEF Spec, NoRefreshAfterBarrier

--------------------------------------------------------------------------------
(* The pipeline implements StackResults. *)



(* The mapped variables have the types of StackResults. *)
LEMMA PromiseTypes == IInv => Promise!AbstractTypeOK
<1> SUFFICES ASSUME IInv PROVE Promise!AbstractTypeOK
  BY Zenon
<1>1. ResultStatus \in [Ids -> {"none", "pending", "resolved", "failed", "dropped", "gone"}]
  BY NoneIsNoResult, Zenon DEF IInv, TypeOK, ResultStatus, Results
<1>2. ResultStack \in [Ids -> Keys \cup {NoKey}]
  BY DEF IInv, TypeOK, CacheTypeOK, ResultStack, Results, NoResult
<1>3. CallbacksDue \subseteq Ids
  BY WorkIds DEF IInv, TypeOK, WorkTypeOK, CallbacksDue, Members
<1>4. stopping \in BOOLEAN
  BY Zenon DEF IInv, TypeOK, LifeTypeOK
<1> QED BY <1>1, <1>2, <1>3, <1>4, Zenon DEF Promise!AbstractTypeOK, Promise!Statuses, Promise!Ids, Ids

(* Initially no identity has been handed out. *)
LEMMA PromiseInit == Init => Promise!AbstractInit
<1> SUFFICES ASSUME Init PROVE Promise!AbstractInit
  BY Zenon
<1>1. ResultStatus = [i \in Ids |-> "none"]
  BY BoundsAssumption DEF Init, ResultStatus, NoResult, Ids
<1>2. ResultStack = [i \in Ids |-> NoKey]
  BY Zenon DEF Init, ResultStack, NoResult
<1>3. CallbacksDue = {}
  BY DEF Init, CallbacksDue, Members
<1>4. stopping \in BOOLEAN
  BY Zenon DEF Init
<1> QED BY <1>1, <1>2, <1>3, <1>4, Zenon DEF Promise!AbstractInit, Promise!Ids, Ids

(* Steps that leave the results and the callbacks alone at most close. *)
LEMMA PromiseQuiet ==
    ASSUME UNCHANGED <<results, next_id>>, CallbacksDue' = CallbacksDue,
           stopping' = stopping \/ stopping' = TRUE
    PROVE  Promise!Close \/ UNCHANGED Promise!abstractVars
<1>1. ResultStatus' = ResultStatus /\ ResultStack' = ResultStack
  BY Zenon DEF ResultStatus, ResultStack
<1> QED BY <1>1, Zenon DEF Promise!Close, Promise!abstractVars

(* What an id's abstract status says of its result. *)
LEMMA StatusFacts ==
    ASSUME IInv, NEW i \in Ids
    PROVE  /\ ResultStatus[i] = IF results[i] # NoResult THEN results[i].state
                                ELSE IF i < next_id THEN "gone" ELSE "none"
           /\ ResultStack[i] = results[i].raw
           /\ results[i] # NoResult => results[i].state \in {"pending", "resolved", "dropped", "failed"}
           /\ results[i] # NoResult => i < next_id
           /\ results[i].state = "pending" <=> ResultStatus[i] = "pending"
<1>1. /\ results[i].state = "none" <=> results[i] = NoResult
      /\ results[i] # NoResult => results[i] \in Results
  BY NoneIsNoResult, Zenon DEF IInv, TypeOK
<1>2. /\ ResultStatus[i] = IF results[i] # NoResult THEN results[i].state
                            ELSE IF i < next_id THEN "gone" ELSE "none"
      /\ ResultStack[i] = results[i].raw
  BY Zenon DEF ResultStatus, ResultStack
<1> QED BY <1>1, <1>2, Zenon DEF IInv, CacheInv, MemoryInv, Results, NoResult

(* A submission that gets an identity is a Submit. *)
LEMMA PromiseSubmit ==
    ASSUME IInv, IInv', NEW key \in Keys, Submit(key)
    PROVE  Promise!Submit
<1> DEFINE id == next_id
<1>1. id \in Ids /\ ~stopping /\ unique_stacks[key] = NoId /\ next_id' = id + 1
      /\ UNCHANGED <<stopping, failed, item>>
  BY Zenon DEF Submit, workVars
<1>2. results[id] = NoResult
  BY <1>1 DEF IInv, TypeOK, CacheTypeOK, CacheInv, MemoryInv, Ids
<1>3. ResultStatus[id] = "none" /\ \A j \in Ids : j < id => ResultStatus[j] # "none"
  BY <1>1, <1>2, StatusFacts DEF Ids
<1>4. /\ \A j \in Ids \ {id} :
            \/ results'[j] = results[j]
            \/ results[j].state = "dropped" /\ results'[j] = NoResult
      /\ results'[id].state \in {"pending", "dropped"} /\ results'[id].raw = key
      /\ worker' = worker \/ (worker = "asleep" /\ worker' = "wait")
  <2>1. CASE SubmitAccepted(key, id)
    BY <1>1, <2>1, Zenon DEF SubmitAccepted, IInv, TypeOK, CacheTypeOK
  <2>2. CASE SubmitDropped(key, id)
    <3> DEFINE gone == Members(Overflow(Append(dropped_order, id)))
               kept == [results EXCEPT ![id] = [state |-> "dropped", raw |-> key, frames |-> << >>]]
    <3>1. results' = ErasedResults(kept, gone) /\ worker' = worker
      BY <2>2, Zenon DEF SubmitDropped
    <3>2. gone \subseteq Members(dropped_order)
      BY <1>1, AppendMembers, Zenon DEF IInv, TypeOK, CacheTypeOK
    <3>3. \A j \in gone : results[j].state \in {"none", "dropped"} /\ j < id /\ j \in Ids
      BY <1>1, <3>2, OrderTypes, Zenon DEF IInv, TypeOK, CacheTypeOK, CacheInv, MemoryInv
    <3>4. id \notin gone
      BY <1>1, <3>3 DEF Ids
    <3>5. \A j \in Ids : results'[j] = IF j \in gone THEN NoResult ELSE kept[j]
      BY <3>1, Zenon DEF ErasedResults
    <3>6. \A j \in Ids \ {id} : kept[j] = results[j]
      BY Zenon DEF IInv, TypeOK, CacheTypeOK
    <3>7. kept[id] = [state |-> "dropped", raw |-> key, frames |-> << >>]
      BY <1>1, Zenon DEF IInv, TypeOK, CacheTypeOK
    <3> HIDE DEF gone, kept
    <3>8. ASSUME NEW j \in Ids \ {id}
          PROVE  \/ results'[j] = results[j]
                 \/ results[j].state = "dropped" /\ results'[j] = NoResult
      BY <3>3, <3>5, <3>6, NoneIsNoResult, Zenon DEF IInv, TypeOK
    <3> QED BY <1>1, <3>1, <3>4, <3>5, <3>7, <3>8
  <2> QED BY <2>1, <2>2, Zenon DEF Submit
<1>5. ResultStatus'[id] \in {"pending", "dropped"} /\ ResultStack'[id] = key
  BY <1>1, <1>4 DEF ResultStatus, ResultStack, NoResult
<1>6. ASSUME NEW j \in Ids, ResultStatus[j] \in {"pending", "resolved", "failed"}
      PROVE  ResultStack[j] # key
  <2>1. results[j].state \notin {"none", "dropped"} /\ ResultStack[j] = results[j].raw
    BY <1>6, StatusFacts, Zenon
  <2> QED BY <1>1, <2>1 DEF IInv, DedupExact, Ids, NoId
<1>7. ASSUME NEW j \in Ids \ {id}
      PROVE  \/ ResultStatus'[j] = ResultStatus[j] /\ ResultStack'[j] = ResultStack[j]
             \/ ResultStatus[j] = "dropped" /\ ResultStatus'[j] = "gone" /\ ResultStack'[j] = NoKey
  <2>1. j < next_id <=> j < next_id'
    BY <1>1 DEF Ids
  <2>2. CASE results'[j] = results[j]
    BY <2>1, <2>2, Zenon DEF ResultStatus, ResultStack
  <2>3. CASE results[j].state = "dropped" /\ results'[j] = NoResult
    BY <2>1, <2>3, StatusFacts DEF ResultStatus, ResultStack, NoResult
  <2> QED BY <1>4, <2>2, <2>3, Zenon
<1>8. CallbacksDue' = CallbacksDue
  BY <1>1, <1>4, Zenon DEF CallbacksDue
<1>9. ResultStack'[id] \in Keys /\ \A j \in Ids : ResultStatus[j] \in {"pending", "resolved", "failed"}
                                  => ResultStack[j] # ResultStack'[id]
  BY <1>5, <1>6, Zenon
<1> QED BY <1>1, <1>3, <1>5, <1>7, <1>8, <1>9, Zenon
        DEF Promise!Submit, Promise!Ids, Ids, Promise!Live, Promise!Finished, Promise!Kept,
            Promise!Forgotten

(* A release that takes effect is a Forget. *)
LEMMA PromiseRelease ==
    ASSUME IInv, NEW id \in Ids, Release(id)
    PROVE  Promise!Forget
<1>1. /\ results[id].state \notin {"none", "pending"}
      /\ results' = ErasedResults(results, {id})
      /\ UNCHANGED <<next_id, worker, item, failed, stopping>>
  BY Zenon DEF Release, workVars
<1>2. results'[id] = NoResult /\ \A j \in Ids \ {id} : results'[j] = results[j]
  BY <1>1, Zenon DEF ErasedResults
<1>3. /\ ResultStatus[id] \in {"resolved", "failed", "dropped"}
      /\ ResultStatus'[id] = "gone" /\ ResultStack'[id] = NoKey
  <2>1. results[id] # NoResult
    BY <1>1 DEF NoResult
  <2> QED BY <1>1, <1>2, <2>1, StatusFacts DEF ResultStatus, ResultStack, NoResult
<1>4. \A j \in Ids \ {id} : ResultStatus'[j] = ResultStatus[j] /\ ResultStack'[j] = ResultStack[j]
  BY <1>1, <1>2, Zenon DEF ResultStatus, ResultStack
<1>5. CallbacksDue' = CallbacksDue
  BY <1>1, Zenon DEF CallbacksDue
<1> QED BY <1>1, <1>3, <1>4, <1>5, Zenon
        DEF Promise!Forget, Promise!Ids, Ids, Promise!Finished, Promise!Kept, Promise!Forgotten

(* Storing a result completes the oldest pending id. *)
LEMMA PromiseStore == IInv /\ WorkerStore => Promise!Complete
<1> SUFFICES ASSUME IInv, WorkerStore PROVE Promise!Complete
  BY Zenon
<1> DEFINE stored == [results EXCEPT ![item.id] = completed]
           gone == {i \in Members(Overflow(Append(result_order, item.id))) :
                       stored[i].state \notin {"none", "pending"}}
<1>1. /\ worker = "store" /\ item.id \in Ids /\ results[item.id].state = "pending"
      /\ results[item.id].raw = item.raw /\ completed.raw = item.raw
      /\ completed.state \in {"resolved", "failed"} /\ failed = << >>
      /\ \A n \in DOMAIN queue : queue[n].id \in Ids /\ item.id < queue[n].id
  BY WorkIds, Zenon DEF WorkerStore, IInv, WorkInv, CacheInv, QueueInv
<1>2. results[item.id] # NoResult
  BY <1>1 DEF NoResult
<1>3. /\ results' = ErasedResults(stored, gone) /\ worker' = "callback"
      /\ UNCHANGED <<next_id, item, failed, stopping>>
  BY <1>2, Zenon DEF WorkerStore
<1>4. \A i \in gone : i \in Ids \ {item.id} /\ results[i].state \in {"resolved", "failed"}
  <2>1. /\ Members(Overflow(Append(result_order, item.id))) \subseteq Members(result_order)
        /\ Members(result_order) \subseteq Ids
    BY <1>1, AppendMembers, OrderTypes, Zenon DEF IInv, TypeOK, CacheTypeOK
  <2>2. \A i \in Members(result_order) : results[i].state \in {"none", "resolved", "failed"}
    BY Zenon DEF IInv, CacheInv, MemoryInv
  <2>3. \A i \in Ids \ {item.id} : stored[i] = results[i]
    BY Zenon DEF IInv, TypeOK, CacheTypeOK
  <2> QED BY <1>1, <2>1, <2>2, <2>3, Zenon
<1>5. /\ results'[item.id] = completed
      /\ \A i \in Ids \ {item.id} : results'[i] = IF i \in gone THEN NoResult ELSE results[i]
  BY <1>1, <1>3, <1>4, Zenon DEF ErasedResults, IInv, TypeOK, CacheTypeOK
<1> HIDE DEF stored, gone
<1>6. /\ ResultStatus[item.id] = "pending" /\ ResultStatus'[item.id] \in {"resolved", "failed"}
      /\ ResultStack'[item.id] = ResultStack[item.id]
  BY <1>1, <1>5, StatusFacts DEF ResultStatus, ResultStack, NoResult
<1>7. ASSUME NEW i \in Ids \ {item.id}
      PROVE  \/ ResultStatus'[i] = ResultStatus[i] /\ ResultStack'[i] = ResultStack[i]
             \/ /\ ResultStatus[i] \in {"resolved", "failed"} /\ ResultStatus'[i] = "gone"
                /\ ResultStack'[i] = NoKey
  <2>1. CASE i \in gone
    <3>1. results[i] # NoResult /\ results'[i] = NoResult
      BY <1>4, <1>5, <2>1 DEF NoResult
    <3>2. i < next_id /\ next_id' = next_id /\ ResultStatus[i] \in {"resolved", "failed"}
      BY <1>3, <1>4, <2>1, <3>1, StatusFacts, Zenon
    <3> QED BY <3>1, <3>2 DEF ResultStatus, ResultStack, NoResult
  <2>2. CASE i \notin gone
    BY <1>3, <1>5, <2>2, Zenon DEF ResultStatus, ResultStack
  <2> QED BY <2>1, <2>2, Zenon
<1>8. \A j \in Ids : ResultStatus[j] = "pending" => j = item.id \/ item.id < j
  <2> SUFFICES ASSUME NEW j \in Ids, ResultStatus[j] = "pending" PROVE j = item.id \/ item.id < j
    BY Zenon
  <2>1. results[j].state = "pending"
    BY StatusFacts, Zenon
  <2> QED BY <1>1, <2>1, Zenon DEF IInv, CacheInv, QueueInv
<1>9. CallbacksDue = {} /\ CallbacksDue' = {item.id}
  BY <1>1, <1>3 DEF CallbacksDue, Members
<1>10. \A i \in Ids : Promise!Completed(i) <=> i = item.id
  BY <1>6, <1>7, Zenon DEF Promise!Completed, Promise!Finished
<1>11. {i \in Ids : Promise!Completed(i)} = {item.id}
  BY <1>1, <1>10, Zenon
<1>12. \A i, j \in Ids : Promise!Completed(i) /\ ResultStatus[j] = "pending" /\ j < i
                          => Promise!Completed(j)
  BY <1>1, <1>8, <1>10 DEF Ids
<1>13. \A i \in Ids : \/ Promise!Kept(i) \/ Promise!Completed(i)
                      \/ Promise!Forgotten(i, Promise!Finished)
  BY <1>7, <1>10, Zenon DEF Promise!Kept, Promise!Forgotten, Promise!Finished
<1>14. stopping' = stopping /\ stopping \in BOOLEAN
  BY <1>3, Zenon DEF IInv, TypeOK, LifeTypeOK
<1> QED BY <1>9, <1>11, <1>12, <1>13, <1>14, Zenon DEF Promise!Complete, Promise!Ids, Ids

(* A worker that gives up completes everything that is pending, and closes. *)
LEMMA PromiseUnmarked == IInv /\ WorkerUnmarked => Promise!Complete
<1> SUFFICES ASSUME IInv, WorkerUnmarked PROVE Promise!Complete
  BY Zenon
<1> DEFINE doomed == <<item.id>> \o [n \in DOMAIN queue |-> queue[n].id]
<1>1. /\ worker = "mark" /\ failed = << >>
      /\ results' = [i \in Ids |-> IF i \in Members(doomed) /\ results[i] # NoResult
                                   THEN [results[i] EXCEPT !.state = "failed"]
                                   ELSE results[i]]
      /\ failed' = doomed /\ stopping' = TRUE /\ worker' = "failCallbacks"
      /\ UNCHANGED next_id
  BY Zenon DEF WorkerUnmarked, IInv, WorkInv
<1>2. /\ doomed \in Seq(Ids)
      /\ \A i \in Ids : i \in Members(doomed) <=> results[i].state = "pending"
  BY <1>1, DoomedFacts, Zenon
<1> HIDE DEF doomed
<1>3. ASSUME NEW i \in Ids, results[i].state = "pending"
      PROVE  /\ ResultStatus[i] = "pending" /\ ResultStatus'[i] = "failed"
             /\ ResultStack'[i] = ResultStack[i]
  <2>1. results[i] # NoResult /\ results[i] \in Results
    BY <1>3, NoneIsNoResult, Zenon DEF IInv, TypeOK
  <2>2. results'[i] = [results[i] EXCEPT !.state = "failed"]
    BY <1>1, <1>2, <1>3, <2>1, Zenon
  <2>3. results'[i].state = "failed" /\ results'[i].raw = results[i].raw
    BY <2>1, <2>2, Zenon DEF Results
  <2> QED BY <1>3, <2>1, <2>3 DEF ResultStatus, ResultStack, NoResult
<1>4. ASSUME NEW i \in Ids, results[i].state # "pending"
      PROVE  /\ ResultStatus'[i] = ResultStatus[i] /\ ResultStack'[i] = ResultStack[i]
             /\ ResultStatus[i] # "pending"
  <2>1. results'[i] = results[i]
    BY <1>1, <1>2, <1>4, Zenon
  <2> QED BY <1>1, <1>4, <2>1, StatusFacts, Zenon DEF ResultStatus, ResultStack
<1>5. \A i \in Ids : Promise!Completed(i) <=> results[i].state = "pending"
  BY <1>3, <1>4, Zenon DEF Promise!Completed, Promise!Finished
<1>6. \A i \in Ids : Promise!Kept(i) \/ Promise!Completed(i)
  BY <1>4, <1>5, Zenon DEF Promise!Kept
<1>7. \A i, j \in Ids : Promise!Completed(i) /\ ResultStatus[j] = "pending" /\ j < i
                         => Promise!Completed(j)
  BY <1>4, <1>5, Zenon
<1>8. CallbacksDue = {} /\ CallbacksDue' = {i \in Ids : Promise!Completed(i)}
  <2>1. Members(doomed) \subseteq Ids
    BY <1>2 DEF Members
  <2>2. CallbacksDue = {} /\ CallbacksDue' = Members(doomed)
    BY <1>1 DEF CallbacksDue, Members
  <2> QED BY <1>2, <1>5, <2>1, <2>2, Zenon
<1>9. \A i \in Ids : ResultStatus'[i] # "pending"
  BY <1>3, <1>4, Zenon
<1> QED BY <1>1, <1>6, <1>7, <1>8, <1>9, Zenon DEF Promise!Complete, Promise!Ids, Ids

(* A callback is a Deliver. *)
LEMMA PromiseDeliver ==
    ASSUME IInv, WorkerFailCallback \/ WorkerCallback
    PROVE  Promise!Deliver
<1>1. ResultStatus' = ResultStatus /\ ResultStack' = ResultStack /\ stopping' = stopping
  BY Zenon DEF WorkerFailCallback, WorkerCallback, cacheVars, ResultStatus, ResultStack
<1>2. CASE WorkerCallback
  <2>1. failed = << >> /\ CallbacksDue = {item.id} /\ CallbacksDue' = {}
    BY <1>2 DEF WorkerCallback, IInv, WorkInv, CallbacksDue, Members
  <2>2. item.id \in Ids
    BY <1>2, WorkIds, Zenon DEF WorkerCallback, IInv
  <2> QED BY <1>1, <2>1, <2>2 DEF Promise!Deliver, Ids
<1>3. CASE WorkerFailCallback
  <2>1. /\ worker = "failCallbacks" /\ failed # << >> /\ failed' = Tail(failed) /\ worker' = worker
        /\ failed \in Seq(Ids)
    BY <1>3, Zenon DEF WorkerFailCallback, IInv, TypeOK, WorkTypeOK
  <2>2. /\ 1 \in DOMAIN failed
        /\ \A n \in DOMAIN failed : n \in Nat /\ failed[n] \in Ids /\ (n = 1 \/ 1 < n)
        /\ \A n \in DOMAIN failed' : n + 1 \in DOMAIN failed /\ failed'[n] = failed[n + 1] /\ 1 < n + 1
        /\ \A n \in DOMAIN failed : 1 < n => n - 1 \in DOMAIN failed' /\ failed'[n - 1] = failed[n]
    BY <2>1
  <2>3. \A n \in DOMAIN failed : 1 < n => failed[1] < failed[n]
    BY <2>2, Zenon DEF IInv, CacheInv, FailedOrdered
  <2>4. CallbacksDue = Members(failed) /\ CallbacksDue' = Members(failed')
    BY <2>1, Zenon DEF CallbacksDue
  <2>5. failed[1] \in Members(failed) /\ \A j \in Members(failed) : failed[1] <= j
    BY <2>2, <2>3 DEF Members, Ids
  <2>6. Members(failed') = Members(failed) \ {failed[1]}
    <3>1. ASSUME NEW j \in Members(failed') PROVE j \in Members(failed) \ {failed[1]}
      <4>1. PICK n \in DOMAIN failed' : j = failed'[n]
        BY Zenon DEF Members
      <4> QED BY <2>2, <2>3, <4>1 DEF Members, Ids
    <3>2. ASSUME NEW j \in Members(failed) \ {failed[1]} PROVE j \in Members(failed')
      <4>1. PICK n \in DOMAIN failed : j = failed[n]
        BY Zenon DEF Members
      <4> QED BY <2>2, <4>1, Zenon DEF Members
    <3> QED BY <3>1, <3>2, Zenon
  <2> QED BY <1>1, <2>4, <2>5, <2>6, Zenon DEF Promise!Deliver
<1> QED BY <1>2, <1>3, Zenon

(* Every step of the pipeline is a step of the promise, or none. *)
LEMMA PromiseStep ==
    IInv /\ IInv' /\ [Next]_vars => [Promise!AbstractNext]_Promise!abstractVars
<1> SUFFICES ASSUME IInv, IInv', [Next]_vars
             PROVE  [Promise!AbstractNext]_Promise!abstractVars
  BY Zenon
<1>1. Promise!AbstractTypeOK'
  BY PromiseTypes, PTL
<1>2. ASSUME NEW key \in Keys, Submit(key) PROVE Promise!AbstractNext
  BY <1>1, <1>2, PromiseSubmit, Zenon DEF Promise!AbstractNext
<1>3. ASSUME NEW id \in Ids, Release(id) PROVE Promise!AbstractNext
  BY <1>1, <1>3, PromiseRelease, Zenon DEF Promise!AbstractNext
<1>4. CASE WorkerStore \/ WorkerUnmarked
  BY <1>1, <1>4, PromiseStore, PromiseUnmarked, Zenon DEF Promise!AbstractNext
<1>5. CASE WorkerFailCallback \/ WorkerCallback
  BY <1>1, <1>5, PromiseDeliver, Zenon DEF Promise!AbstractNext
<1>6. CASE \/ WorkerTake \/ WorkerSleep \/ WorkerExit \/ WorkerMarked \/ WorkerFailExit
           \/ WorkerResolve \/ WorkerSymbolize \/ WorkerFinish
  <2>1. /\ UNCHANGED <<results, next_id, failed, stopping>>
        /\ worker # "callback" /\ worker' # "callback"
    BY <1>6, Zenon DEF WorkerTake, WorkerSleep, WorkerExit, WorkerMarked, WorkerFailExit, WorkerResolve,
         WorkerSymbolize, WorkerFinish, cacheVars, workVars
  <2>2. CallbacksDue' = CallbacksDue
    BY <2>1, Zenon DEF CallbacksDue
  <2> QED BY <1>1, <2>1, <2>2, PromiseQuiet, Zenon DEF Promise!AbstractNext
<1>7. CASE (\E c \in Clients : Flush(c)) \/ Shutdown \/ Load \/ UNCHANGED vars
  <2>1. /\ UNCHANGED <<results, next_id, failed, item>>
        /\ worker' = worker \/ (worker = "asleep" /\ worker' = "wait")
        /\ stopping' = stopping \/ stopping' = TRUE
    BY <1>7, Zenon DEF Flush, FlushBegin, FlushRefresh, FlushWait, Shutdown, BeginFinalization,
         FinalizationBarrier, ShutdownStop, ShutdownJoin, Load, vars, cacheVars, workVars
  <2>2. CallbacksDue' = CallbacksDue
    BY <2>1, Zenon DEF CallbacksDue
  <2> QED BY <1>1, <2>1, <2>2, PromiseQuiet, Zenon DEF Promise!AbstractNext
<1> QED BY <1>2, <1>3, <1>4, <1>5, <1>6, <1>7, Zenon DEF Next, Worker

(* The pipeline keeps its promise: ids in order, every accepted stack completed
   exactly once and in order, one callback each, and no two live results of the
   same stack, however the callers, the worker, evictions, a failing worker and
   the shutdown interleave. *)
THEOREM PipelineKeepsPromise == Spec => ImplementsStackResults
<1> QED BY PromiseInit, PromiseStep, PipelineInvariant, PTL
        DEF Spec, ImplementsStackResults, Promise!AbstractSpec

--------------------------------------------------------------------------------
(* What is remembered can be reclaimed. *)

(* Trimming only cuts off the overflow, and leaves no more than the capacity. *)
LEMMA TrimmedOrder ==
    ASSUME NEW order \in Seq(Ids)
    PROVE  /\ Len(Trimmed(order)) <= Capacity
           /\ Members(order) \subseteq Members(Overflow(order)) \cup Members(Trimmed(order))
<1> DEFINE over == Overflow(order)
           rest == Trimmed(order)
<1>1. Len(order) \in Nat /\ DOMAIN order = 1..Len(order) /\ Capacity \in Nat
  BY BoundsAssumption
<1>2. CASE Len(order) <= Capacity
  <2>1. over = << >>
    BY <1>1, <1>2 DEF Overflow
  <2>2. Len(over) = 0
    BY <2>1
  <2>3. rest = order
    BY <1>1, <2>2 DEF Trimmed
  <2> QED BY <1>2, <2>3, Zenon
<1>3. CASE Len(order) > Capacity
  <2>1. /\ over \in Seq(Ids) /\ Len(over) = Len(order) - Capacity
        /\ \A n \in 1..(Len(order) - Capacity) : over[n] = order[n]
    <3>1. PICK m \in 1..Len(order) : m = Len(order) - Capacity
      <4>1. Len(order) - Capacity \in 1..Len(order)
        BY <1>1, <1>3, BoundsAssumption
      <4> QED BY <4>1, Zenon
    <3>2. over = SubSeq(order, 1, m)
      BY <3>1, Zenon DEF Overflow
    <3> HIDE DEF over
    <3>3. /\ SubSeq(order, 1, m) \in Seq(Ids) /\ Len(SubSeq(order, 1, m)) = m
          /\ \A n \in 1..m : SubSeq(order, 1, m)[n] = order[n]
      OBVIOUS
    <3> QED BY <3>1, <3>2, <3>3, Zenon
  <2>2. /\ rest \in Seq(Ids) /\ Len(rest) = Capacity
        /\ \A n \in 1..Capacity : rest[n] = order[Len(order) - Capacity + n]
    BY <1>1, <1>3, <2>1 DEF Trimmed
  <2> HIDE DEF over, rest
  <2>3. ASSUME NEW n \in DOMAIN order PROVE order[n] \in Members(over) \cup Members(rest)
    <3>1. CASE n <= Len(order) - Capacity
      <4>1. n \in DOMAIN over /\ over[n] = order[n]
        BY <1>1, <1>3, <2>1, <3>1
      <4> QED BY <4>1, Zenon DEF Members
    <3>2. CASE n > Len(order) - Capacity
      <4>1. n - (Len(order) - Capacity) \in 1..Capacity
            /\ Len(order) - Capacity + (n - (Len(order) - Capacity)) = n
        BY <1>1, <1>3, <3>2
      <4>2. DOMAIN rest = 1..Capacity
        BY <2>2
      <4> QED BY <2>2, <4>1, <4>2, Zenon DEF Members
    <3> QED BY <1>1, <3>1, <3>2
  <2>4. Len(rest) <= Capacity
    BY <1>1, <2>2
  <2> QED BY <2>3, <2>4, Zenon DEF Members, over, rest
<1> QED BY <1>1, <1>2, <1>3

(* Removing an id loses no other, and makes nothing longer. *)
LEMMA RemovedOrder ==
    ASSUME NEW order \in Seq(Ids), NEW id \in Ids
    PROVE  /\ Len(Removed(order, id)) <= Len(order)
           /\ Members(order) \ {id} \subseteq Members(Removed(order, id))
<1>1. CASE id \in Members(order)
  <2> DEFINE at == CHOOSE n \in DOMAIN order : order[n] = id
  <2>1. at \in DOMAIN order /\ order[at] = id
    BY <1>1, Zenon DEF Members
  <2>2. Removed(order, id) = SubSeq(order, 1, at - 1) \o SubSeq(order, at + 1, Len(order))
    BY <1>1, Zenon DEF Removed
  <2> HIDE DEF at
  <2>3. at \in 1..Len(order) /\ Len(order) \in Nat
    BY <2>1
  <2> DEFINE a == SubSeq(order, 1, at - 1)  b == SubSeq(order, at + 1, Len(order))
  <2>4. /\ a \in Seq(Ids) /\ Len(a) = at - 1
        /\ \A n \in 1..(at - 1) : a[n] = order[n]
    BY <2>3
  <2>5. /\ b \in Seq(Ids) /\ Len(b) = Len(order) - at
        /\ \A n \in 1..(Len(order) - at) : b[n] = order[at + n]
    BY <2>3
  <2> HIDE DEF a, b
  <2>6. Len(a \o b) = Len(order) - 1 /\ DOMAIN (a \o b) = 1..(Len(order) - 1)
    <3>1. Len(a \o b) = Len(a) + Len(b) /\ DOMAIN (a \o b) = 1..(Len(a) + Len(b))
      BY <2>4, <2>5
    <3> QED BY <2>3, <2>4, <2>5, <3>1
  <2>7. ASSUME NEW n \in DOMAIN order, order[n] # id
        PROVE  \E k \in DOMAIN (a \o b) : (a \o b)[k] = order[n]
    <3>1. n \in 1..Len(order) /\ n # at
      BY <2>1, <2>7
    <3>2. CASE n < at
      <4>1. n \in DOMAIN (a \o b) /\ (a \o b)[n] = order[n]
        BY <2>3, <2>4, <2>5, <2>6, <3>1, <3>2
      <4> QED BY <4>1, Zenon
    <3>3. CASE n > at
      <4>1. n - 1 \in DOMAIN (a \o b) /\ (a \o b)[n - 1] = b[n - at]
        BY <2>3, <2>4, <2>5, <2>6, <3>1, <3>3
      <4>2. n - at \in 1..(Len(order) - at) /\ at + (n - at) = n
        BY <2>3, <3>1, <3>3
      <4> QED BY <2>5, <4>1, <4>2, Zenon
    <3> QED BY <2>3, <3>1, <3>2, <3>3
  <2>8. Len(Removed(order, id)) <= Len(order)
    <3>1. Removed(order, id) = a \o b
      BY <2>2, Zenon DEF a, b
    <3> QED BY <2>3, <2>6, <3>1
  <2>9. Members(order) \ {id} \subseteq Members(a \o b)
    BY <2>7, Zenon DEF Members
  <2> QED BY <2>2, <2>8, <2>9, Zenon DEF a, b
<1>2. CASE id \notin Members(order)
  <2>1. Removed(order, id) = order /\ Len(order) \in Nat
    BY <1>2 DEF Removed
  <2> QED BY <2>1
<1> QED BY <1>1, <1>2, Zenon

(* Where a result is remembered: it is pending, or one of the FIFOs has it, or it
   failed when the worker gave up, which never comes back. *)
GaveUp == worker \in {"failCallbacks", "gone"} /\ stopping /\ ~marked
Remembered(i) ==
    \/ results[i].state \in {"none", "pending"}
    \/ i \in Members(result_order) \cup Members(dropped_order)
    \/ results[i].state = "failed" /\ GaveUp
BoundInv ==
    /\ Len(result_order) <= Capacity /\ Len(dropped_order) <= Capacity
    /\ Len(queue) <= Capacity
MarkInv == worker = "mark" => ~marked
ReclaimInv == (\A i \in Ids : Remembered(i)) /\ BoundInv /\ MarkInv

(* Nothing is remembered at first. *)
LEMMA ReclaimInit == Init => ReclaimInv
<1> SUFFICES ASSUME Init PROVE ReclaimInv
  BY Zenon
<1>1. \A i \in Ids : results[i].state = "none"
  BY Zenon DEF Init, NoResult
<1>2. BoundInv
  BY BoundsAssumption DEF Init, BoundInv
<1>3. MarkInv
  BY Zenon DEF Init, MarkInv
<1> QED BY <1>1, <1>2, <1>3, Zenon DEF ReclaimInv, Remembered

(* A worker that gave up stays so, and one that has its mark is past that. *)
LEMMA MarkKept == MarkInv /\ [Next]_vars => MarkInv' /\ (GaveUp => GaveUp')
<1> SUFFICES ASSUME MarkInv, [Next]_vars PROVE MarkInv' /\ (GaveUp => GaveUp')
  BY Zenon
<1> USE DEF MarkInv, GaveUp
<1>1. CASE UNCHANGED vars
  BY <1>1, Zenon DEF vars, workVars
<1>2. ASSUME NEW key \in Keys, Submit(key) PROVE MarkInv' /\ (GaveUp => GaveUp')
  BY <1>2, Zenon DEF Submit, SubmitAccepted, SubmitDropped, workVars
<1>3. ASSUME NEW id \in Ids, Release(id) PROVE MarkInv' /\ (GaveUp => GaveUp')
  BY <1>3, Zenon DEF Release, workVars
<1>4. CASE WorkerTake \/ WorkerSleep \/ WorkerExit \/ WorkerMarked \/ WorkerUnmarked
  BY <1>4 DEF WorkerTake, WorkerSleep, WorkerExit, WorkerMarked, WorkerUnmarked, workVars
<1>5. CASE WorkerFailCallback \/ WorkerFailExit \/ WorkerResolve \/ WorkerSymbolize
  BY <1>5 DEF WorkerFailCallback, WorkerFailExit, WorkerResolve, WorkerSymbolize, workVars
<1>6. CASE WorkerStore \/ WorkerCallback \/ WorkerFinish
  BY <1>6, Zenon DEF WorkerStore, WorkerCallback, WorkerFinish, workVars
<1>7. ASSUME NEW c \in Clients, Flush(c) PROVE MarkInv' /\ (GaveUp => GaveUp')
  BY <1>7 DEF Flush, FlushBegin, FlushRefresh, FlushWait, workVars
<1>8. CASE Shutdown \/ Load
  BY <1>8 DEF Shutdown, BeginFinalization, FinalizationBarrier, ShutdownStop, ShutdownJoin, Load,
                     workVars
<1> QED BY <1>1, <1>2, <1>3, <1>4, <1>5, <1>6, <1>7, <1>8, Zenon DEF Next, Worker


(* A step forgets no result that it leaves in place. *)
LEMMA RememberedKept ==
    ASSUME \A i \in Ids : Remembered(i), GaveUp => GaveUp',
           \A i \in Ids :
              \/ results'[i].state \in {"none", "pending"}
              \/ i \in Members(result_order') \cup Members(dropped_order')
              \/ results'[i].state = "failed" /\ GaveUp'
              \/ /\ results'[i] = results[i]
                 /\ i \notin Members(result_order) \cup Members(dropped_order)
    PROVE  \A i \in Ids : Remembered(i)'
<1> SUFFICES ASSUME NEW i \in Ids PROVE Remembered(i)'
  BY Zenon
<1>1. CASE results'[i] = results[i] /\ i \notin Members(result_order) \cup Members(dropped_order)
  BY <1>1, Zenon DEF Remembered
<1>2. CASE ~(results'[i] = results[i] /\ i \notin Members(result_order) \cup Members(dropped_order))
  <2>1. \/ results'[i].state \in {"none", "pending"}
        \/ i \in Members(result_order') \cup Members(dropped_order')
        \/ results'[i].state = "failed" /\ GaveUp'
    BY <1>2, Zenon
  <2>2. Members(result_order)' = Members(result_order') /\ Members(dropped_order)' = Members(dropped_order')
    BY Zenon DEF Members
  <2> QED BY <2>1, <2>2, Zenon DEF Remembered
<1> QED BY <1>1, <1>2, Zenon

(* Nothing is recorded under an id that has no result. *)
LEMMA NoResultFields == NoResult.state = "none" /\ NoResult.raw = NoKey
  BY DEF NoResult

(* A submission, accepted or dropped. *)
LEMMA ReclaimSubmit ==
    ASSUME IInv, ReclaimInv, GaveUp => GaveUp', NEW key \in Keys, Submit(key)
    PROVE  (\A i \in Ids : Remembered(i)') /\ BoundInv'
<1>1. /\ next_id \in Ids /\ result_order' = result_order
      /\ SubmitAccepted(key, next_id) \/ SubmitDropped(key, next_id)
  BY SubmitFacts, Zenon
<1>2. CacheTypeOK /\ BoundInv /\ \A i \in Ids : Remembered(i)
  BY Zenon DEF IInv, TypeOK, ReclaimInv
<1>3. CASE SubmitAccepted(key, next_id)
  <2>1. /\ results'[next_id].state = "pending" /\ dropped_order' = dropped_order
        /\ \A i \in Ids \ {next_id} : results'[i] = results[i]
        /\ queue' = Append(queue, [id |-> next_id, raw |-> key])
    BY <1>3, AcceptedFacts, Zenon
  <2>2. BoundInv'
    <3>1. Len(queue) < Capacity
      BY <1>3, Zenon DEF SubmitAccepted
    <3>2. Len(queue') = Len(queue) + 1 /\ Len(queue) \in Nat
      BY <1>2, <2>1 DEF CacheTypeOK
    <3> QED BY <1>1, <1>2, <2>1, <3>1, <3>2, BoundsAssumption DEF BoundInv
  <2>3. \A i \in Ids : Remembered(i)'
    BY <1>1, <1>2, <2>1, RememberedKept, Zenon
  <2> QED BY <2>2, <2>3, Zenon
<1>4. CASE SubmitDropped(key, next_id)
  <2> DEFINE order == Append(dropped_order, next_id)
             gone == Members(Overflow(order))
             kept == [results EXCEPT ![next_id] = [state |-> "dropped", raw |-> key, frames |-> << >>]]
  <2>1. /\ dropped_order' = Trimmed(order) /\ queue' = queue
        /\ results' = ErasedResults(kept, gone)
    BY <1>4, Zenon DEF SubmitDropped
  <2>2. order \in Seq(Ids) /\ Members(order) = Members(dropped_order) \cup {next_id}
    BY <1>1, <1>2, AppendMembers, Zenon DEF CacheTypeOK
  <2>3. \A i \in Ids : IF i \in gone THEN results'[i] = NoResult ELSE results'[i] = kept[i]
    BY <2>1, Zenon DEF ErasedResults
  <2>4. \A i \in Ids \ {next_id} : kept[i] = results[i]
    BY <1>2, Zenon DEF CacheTypeOK
  <2> HIDE DEF order, kept, gone
  <2>5. Len(dropped_order') <= Capacity /\ Members(order) \subseteq gone \cup Members(dropped_order')
    BY <2>1, <2>2, TrimmedOrder, Zenon DEF gone
  <2>6. BoundInv'
    BY <1>1, <1>2, <2>1, <2>5, Zenon DEF BoundInv
  <2>7. ASSUME NEW i \in Ids
        PROVE  \/ results'[i].state \in {"none", "pending"}
               \/ i \in Members(result_order') \cup Members(dropped_order')
               \/ /\ results'[i] = results[i]
                  /\ i \notin Members(result_order) \cup Members(dropped_order)
    <3>1. CASE i \in gone
      BY <2>3, <3>1, NoResultFields, Zenon
    <3>2. CASE i \notin gone /\ i \in Members(order)
      BY <2>5, <3>2, Zenon
    <3>3. CASE i \notin gone /\ i \notin Members(order)
      <4>1. results'[i] = results[i] /\ i \notin Members(dropped_order)
        BY <2>2, <2>3, <2>4, <3>3, Zenon
      <4> QED BY <1>1, <4>1, Zenon
    <3> QED BY <3>1, <3>2, <3>3, Zenon
  <2>8. \A i \in Ids : Remembered(i)'
    BY <1>2, <2>7, RememberedKept, Zenon
  <2> QED BY <2>6, <2>8, Zenon
<1> QED BY <1>1, <1>3, <1>4, Zenon

(* A release forgets the result and takes it out of both FIFOs. *)
LEMMA ReclaimRelease ==
    ASSUME IInv, ReclaimInv, GaveUp => GaveUp', NEW id \in Ids, Release(id)
    PROVE  (\A i \in Ids : Remembered(i)') /\ BoundInv'
<1>1. /\ results' = ErasedResults(results, {id}) /\ queue' = queue
      /\ result_order' = Removed(result_order, id) /\ dropped_order' = Removed(dropped_order, id)
  BY Zenon DEF Release
<1>2. CacheTypeOK /\ BoundInv /\ \A i \in Ids : Remembered(i)
  BY Zenon DEF IInv, TypeOK, ReclaimInv
<1>3. /\ Len(result_order') <= Len(result_order) /\ Len(dropped_order') <= Len(dropped_order)
      /\ Members(result_order) \ {id} \subseteq Members(result_order')
      /\ Members(dropped_order) \ {id} \subseteq Members(dropped_order')
  BY <1>1, <1>2, RemovedOrder, Zenon DEF CacheTypeOK
<1>4. \A i \in Ids : results'[i] = IF i = id THEN NoResult ELSE results[i]
  BY <1>1, Zenon DEF ErasedResults
<1>5. \A i \in Ids : Remembered(i)'
  <2>1. \A i \in Ids : \/ results'[i].state = "none"
                       \/ i \in Members(result_order') \cup Members(dropped_order')
                       \/ /\ results'[i] = results[i]
                          /\ i \notin Members(result_order) \cup Members(dropped_order)
    BY <1>3, <1>4, NoResultFields, Zenon
  <2> QED BY <1>2, <2>1, RememberedKept, Zenon
<1>6. BoundInv'
  <2>1. /\ Len(result_order) \in Nat /\ Len(dropped_order) \in Nat
        /\ Len(result_order') \in Nat /\ Len(dropped_order') \in Nat
    <3>1. result_order' \in Seq(Ids) /\ dropped_order' \in Seq(Ids)
      BY <1>1, <1>2, OrderTypes, Zenon DEF CacheTypeOK
    <3> QED BY <1>2, <3>1 DEF CacheTypeOK
  <2> QED BY <1>1, <1>2, <1>3, <2>1, BoundsAssumption DEF BoundInv
<1> QED BY <1>5, <1>6, Zenon

(* A stored result enters the FIFO, and what overflows is forgotten. *)
LEMMA ReclaimStore ==
    ASSUME IInv, ReclaimInv, GaveUp => GaveUp', WorkerStore
    PROVE  (\A i \in Ids : Remembered(i)') /\ BoundInv'
<1> DEFINE order == Append(result_order, item.id)
           stored == [results EXCEPT ![item.id] = completed]
           gone == {i \in Members(Overflow(order)) : stored[i].state \notin {"none", "pending"}}
<1>1. /\ worker = "store" /\ item.id \in Ids /\ results[item.id] # NoResult
      /\ completed.state \in {"resolved", "failed"}
  <2>1. item.id \in Ids /\ results[item.id].state = "pending" /\ completed.state \in {"resolved", "failed"}
    BY WorkIds, Zenon DEF WorkerStore, IInv, CacheInv, WorkInv, QueueInv
  <2> QED BY <2>1, NoResultFields, Zenon DEF WorkerStore
<1>2. /\ result_order' = Trimmed(order) /\ dropped_order' = dropped_order /\ queue' = queue
      /\ results' = ErasedResults(stored, gone)
  BY <1>1, Zenon DEF WorkerStore
<1>3. CacheTypeOK /\ BoundInv /\ \A i \in Ids : Remembered(i)
  BY Zenon DEF IInv, TypeOK, ReclaimInv
<1>4. order \in Seq(Ids) /\ Members(order) = Members(result_order) \cup {item.id}
  BY <1>1, <1>3, AppendMembers, Zenon DEF CacheTypeOK
<1>5. \A i \in Ids : IF i \in gone THEN results'[i] = NoResult ELSE results'[i] = stored[i]
  BY <1>2, Zenon DEF ErasedResults
<1>6. \A i \in Ids \ {item.id} : stored[i] = results[i]
  BY <1>3, Zenon DEF CacheTypeOK
<1>7. \A i \in Members(Overflow(order)) : i \in gone \/ stored[i].state \in {"none", "pending"}
  BY Zenon
<1> HIDE DEF order, stored, gone
<1>8. /\ Len(result_order') <= Capacity
      /\ Members(order) \subseteq Members(Overflow(order)) \cup Members(result_order')
  BY <1>2, <1>4, TrimmedOrder, Zenon
<1>9. BoundInv'
  BY <1>2, <1>3, <1>8, Zenon DEF BoundInv
<1>10. ASSUME NEW i \in Ids
       PROVE  \/ results'[i].state \in {"none", "pending"}
              \/ i \in Members(result_order') \cup Members(dropped_order')
              \/ /\ results'[i] = results[i]
                 /\ i \notin Members(result_order) \cup Members(dropped_order)
  <2>1. CASE i \in Members(Overflow(order))
    <3>1. CASE i \in gone
      BY <1>5, <3>1, NoResultFields, Zenon
    <3>2. CASE i \notin gone
      BY <1>5, <1>7, <2>1, <3>2, Zenon
    <3> QED BY <3>1, <3>2, Zenon
  <2>2. CASE i \notin Members(Overflow(order)) /\ i \in Members(order)
    BY <1>8, <2>2, Zenon
  <2>3. CASE i \notin Members(Overflow(order)) /\ i \notin Members(order)
    <3>1. i \notin gone /\ i # item.id /\ i \notin Members(result_order)
      BY <1>4, <2>3, Zenon DEF gone
    <3>2. results'[i] = results[i]
      BY <1>5, <1>6, <3>1, Zenon
    <3> QED BY <1>2, <3>1, <3>2, Zenon
  <2> QED BY <2>1, <2>2, <2>3, Zenon
<1>11. \A i \in Ids : Remembered(i)'
  BY <1>3, <1>10, RememberedKept, Zenon
<1> QED BY <1>9, <1>11, Zenon

(* A worker that gives up fails what is pending. *)
LEMMA ReclaimUnmarked ==
    ASSUME IInv, ReclaimInv, GaveUp => GaveUp', WorkerUnmarked
    PROVE  (\A i \in Ids : Remembered(i)') /\ BoundInv'
<1> DEFINE doomed == <<item.id>> \o [n \in DOMAIN queue |-> queue[n].id]
<1>1. /\ worker = "mark" /\ queue' = << >> /\ stopping' = TRUE /\ worker' = "failCallbacks"
      /\ results' = [i \in Ids |-> IF i \in Members(doomed) /\ results[i] # NoResult
                                   THEN [results[i] EXCEPT !.state = "failed"]
                                   ELSE results[i]]
      /\ marked' = marked /\ UNCHANGED <<result_order, dropped_order>>
  BY Zenon DEF WorkerUnmarked
<1>2. CacheTypeOK /\ BoundInv /\ (\A i \in Ids : Remembered(i)) /\ ~marked
  BY <1>1, Zenon DEF IInv, TypeOK, ReclaimInv, MarkInv
<1>3. GaveUp'
  BY <1>1, <1>2, Zenon DEF GaveUp
<1>4. BoundInv'
  <2>1. Len(queue') = 0
    BY <1>1
  <2> QED BY <1>1, <1>2, <2>1, BoundsAssumption DEF BoundInv
<1>5. ASSUME NEW i \in Ids
      PROVE  \/ results'[i].state \in {"none", "pending"}
             \/ i \in Members(result_order') \cup Members(dropped_order')
             \/ results'[i].state = "failed" /\ GaveUp'
             \/ /\ results'[i] = results[i]
                /\ i \notin Members(result_order) \cup Members(dropped_order)
  <2> HIDE DEF doomed
  <2>1. CASE i \in Members(doomed) /\ results[i] # NoResult
    <3>1. results[i] \in Results
      BY <1>2, <2>1, NoneIsNoResult, Zenon
    <3>2. results'[i] = [results[i] EXCEPT !.state = "failed"]
      BY <1>1, <2>1, Zenon
    <3>3. results'[i].state = "failed"
      BY <3>1, <3>2, Zenon DEF Results
    <3> QED BY <1>3, <3>3, Zenon
  <2>2. CASE ~(i \in Members(doomed) /\ results[i] # NoResult)
    BY <1>1, <2>2, Zenon
  <2> QED BY <2>1, <2>2, Zenon
<1>6. \A i \in Ids : Remembered(i)'
  BY <1>2, <1>5, RememberedKept, Zenon
<1> QED BY <1>4, <1>6, Zenon

(* Every step keeps what is remembered within reach. *)
LEMMA ReclaimNext == IInv /\ ReclaimInv /\ [Next]_vars => ReclaimInv'
<1> SUFFICES ASSUME IInv, ReclaimInv, [Next]_vars PROVE ReclaimInv'
  BY Zenon
<1>1. MarkInv' /\ (GaveUp => GaveUp')
  BY MarkKept, Zenon DEF ReclaimInv
<1>2. CacheTypeOK /\ BoundInv /\ \A i \in Ids : Remembered(i)
  BY Zenon DEF IInv, TypeOK, ReclaimInv
<1>3. SUFFICES (\A i \in Ids : Remembered(i)') /\ BoundInv'
  BY <1>1, Zenon DEF ReclaimInv
<1>4. ASSUME UNCHANGED cacheVars, queue' = queue \/ WorkerTake
      PROVE  (\A i \in Ids : Remembered(i)') /\ BoundInv'
  <2>1. UNCHANGED <<results, result_order, dropped_order>>
    BY <1>4, Zenon DEF cacheVars
  <2>2. Len(queue') <= Capacity
    <3>1. CASE WorkerTake
      <4>1. queue # << >> /\ queue' = Tail(queue)
        BY <3>1, Zenon DEF WorkerTake
      <4>2. queue \in Seq(QueueItems) /\ Len(queue) <= Capacity
        BY <1>2, Zenon DEF CacheTypeOK, BoundInv
      <4>3. Len(queue') = Len(queue) - 1 /\ Len(queue) \in Nat
        BY <4>1, <4>2
      <4> QED BY <4>2, <4>3, BoundsAssumption
    <3>2. CASE queue' = queue
      BY <1>2, <3>2, Zenon DEF BoundInv
    <3> QED BY <1>4, <3>1, <3>2, Zenon
  <2>3. BoundInv'
    BY <1>2, <2>1, <2>2, Zenon DEF BoundInv
  <2>4. \A i \in Ids : Remembered(i)'
    BY <1>1, <1>2, <2>1, RememberedKept, Zenon
  <2> QED BY <2>3, <2>4, Zenon
<1>5. CASE \/ UNCHANGED vars \/ (\E c \in Clients : Flush(c)) \/ Shutdown \/ Load
  <2>1. UNCHANGED <<cacheVars, queue>>
    BY <1>5, Zenon DEF vars, Flush, FlushBegin, FlushRefresh, FlushWait, Shutdown, BeginFinalization,
       FinalizationBarrier, ShutdownStop, ShutdownJoin, Load
  <2> QED BY <1>4, <2>1, Zenon
<1>6. CASE Worker
  <2>1. CASE WorkerTake
    BY <1>4, <2>1, Zenon DEF WorkerTake
  <2>2. CASE WorkerUnmarked
    BY <1>1, <2>2, ReclaimUnmarked, Zenon
  <2>3. CASE WorkerStore
    BY <1>1, <2>3, ReclaimStore, Zenon
  <2>4. CASE \/ WorkerSleep \/ WorkerExit \/ WorkerMarked \/ WorkerFailCallback \/ WorkerFailExit
             \/ WorkerResolve \/ WorkerSymbolize \/ WorkerCallback \/ WorkerFinish
    BY <1>4, <2>4, Zenon DEF WorkerSleep, WorkerExit, WorkerMarked, WorkerFailCallback, WorkerFailExit,
       WorkerResolve, WorkerSymbolize, WorkerCallback, WorkerFinish
  <2> QED BY <1>6, <2>1, <2>2, <2>3, <2>4, Zenon DEF Worker
<1>7. ASSUME NEW key \in Keys, Submit(key) PROVE (\A i \in Ids : Remembered(i)') /\ BoundInv'
  BY <1>1, <1>7, ReclaimSubmit, Zenon
<1>8. ASSUME NEW id \in Ids, Release(id) PROVE (\A i \in Ids : Remembered(i)') /\ BoundInv'
  BY <1>1, <1>8, ReclaimRelease, Zenon
<1> QED BY <1>5, <1>6, <1>7, <1>8, Zenon DEF Next

(* With the tables in agreement, what is remembered can be reclaimed. *)
LEMMA InvReclaimable == IInv /\ ReclaimInv => Reclaimable
<1> SUFFICES ASSUME IInv, ReclaimInv PROVE Reclaimable
  BY Zenon
<1>1. ASSUME NEW i \in Ids, results[i] # NoResult
      PROVE  \/ i \in Pending \cup Members(result_order) \cup Members(dropped_order)
             \/ results[i].state = "failed" /\ stopping /\ ~marked
  <2>1. results[i].state # "none"
    BY <1>1, NoneIsNoResult, Zenon DEF IInv, TypeOK
  <2> QED BY <2>1, Zenon DEF ReclaimInv, Remembered, GaveUp, Pending
<1>2. ASSUME NEW i \in Ids PROVE id_to_key[i] # NoKey <=> results[i] # NoResult
  <2>1. id_to_key[i] = results[i].raw
    BY Zenon DEF IInv, CacheInv, MemoryInv
  <2>2. results[i] # NoResult => results[i].raw \in Keys
    BY NoneIsNoResult, Zenon DEF IInv, TypeOK
  <2>3. NoResult.raw = NoKey
    BY NoResultFields, Zenon
  <2> QED BY <2>1, <2>2, <2>3, NoKeyIsNone, Zenon
<1> QED BY <1>1, <1>2, Zenon DEF Reclaimable, ReclaimInv, BoundInv

(* The dedup entries, results, keys, queue and eviction lists are about the same
   stacks in every reachable state, and nothing is remembered out of reach of
   Release and of the bounded FIFOs, whatever the capacity and however
   submissions, releases, evictions and a worker that gives up interleave. *)
THEOREM TablesAlwaysAgree == Spec => []TablesAgree
<1>1. IInv /\ ReclaimInv => TablesAgree
  BY InvPending, InvReclaimable, Zenon DEF TablesAgree, IInv
<1> QED BY <1>1, InitInv, NextInv, ReclaimInit, ReclaimNext, PTL DEF Spec


--------------------------------------------------------------------------------
(* Frames and generations. *)

(* The frames of a resolved result are those that the given lists have for its
   own generation. *)
TrueFrame(frame, image) ==
    /\ frame.module = image
    /\ frame.module # NoImage
    /\ frame.function # NoImage => SameImage(frame.function, frame.module)
TrueFrames(lists, r) ==
    r.state = "resolved" =>
        \A n \in DOMAIN r.frames : TrueFrame(r.frames[n], lists[r.raw.generation][r.raw.pcs[n]])

(* A list that is still kept is the one its generation was published with, and
   what is remembered was captured under a generation that exists. *)
PastInv ==
    /\ \A g \in Generations : snapshots[g] \in {Evicted, published[g]}
    /\ \A i \in Ids : results[i].raw.generation <= generation /\ TrueFrames(published, results[i])

(* What the worker has resolved so far comes from the item's own generation,
   whichever refreshes came in between. *)
HandInv ==
    /\ worker # "resolve" => modules = << >>
    /\ worker = "resolve" =>
          /\ Len(modules) <= Len(item.raw.pcs)
          /\ \A n \in DOMAIN modules :
                modules[n] \in {NoImage, published[item.raw.generation][item.raw.pcs[n]]}
    /\ worker = "store" => TrueFrames(published, completed)
OwnInv == PastInv /\ HandInv

(* What stands for no result is of generation 0 and has no frames. *)
LEMMA NoResultOwn == NoResult.raw.generation = 0 /\ \A lists : TrueFrames(lists, NoResult)
<1>1. NoResult.raw.generation = 0
  BY DEF NoResult, NoKey
<1>2. NoResult.state # "resolved"
  BY DEF NoResult
<1> QED BY <1>1, <1>2, Zenon DEF TrueFrames

(* Initially only the newest lists are kept and nothing is remembered. *)
LEMMA OwnInit == Init => OwnInv
<1> SUFFICES ASSUME Init PROVE OwnInv
  BY Zenon
<1>1. HandInv
  <2>1. worker # "resolve" /\ worker # "store" /\ modules = << >>
    BY Zenon DEF Init
  <2> QED BY <2>1, Zenon DEF HandInv
<1>2. \A g \in Generations : snapshots[g] \in {Evicted, published[g]}
  BY Zenon DEF Init, Newest
<1>3. generation = 2 /\ \A i \in Ids : results[i] = NoResult
  BY Zenon DEF Init
<1>4. \A i \in Ids : results[i].raw.generation <= generation
  BY <1>3, NoResultOwn
<1>5. \A i \in Ids : TrueFrames(published, results[i])
  BY <1>3, NoResultOwn, Zenon
<1> QED BY <1>1, <1>2, <1>4, <1>5, Zenon DEF OwnInv, PastInv

(* With the registry unchanged, a result that is new is forgotten, not resolved,
   or true. *)
LEMMA PastKept ==
    ASSUME PastInv, RegistryTypeOK, UNCHANGED <<generation, snapshots, published>>,
           \A i \in Ids : \/ results'[i] = results[i]
                          \/ results'[i] = NoResult
                          \/ /\ results'[i].raw.generation <= generation
                             /\ results'[i].state = "resolved" => TrueFrames(published, results'[i])
    PROVE  PastInv'
<1>1. ASSUME NEW i \in Ids
      PROVE  results'[i].raw.generation <= generation /\ TrueFrames(published, results'[i])
  <2>1. CASE results'[i] = results[i]
    BY <2>1, Zenon DEF PastInv
  <2>2. CASE results'[i] = NoResult
    <3>1. results'[i].raw.generation = 0 /\ TrueFrames(published, results'[i])
      BY <2>2, NoResultOwn, Zenon
    <3>2. 0 <= generation
      BY DEF RegistryTypeOK, Generations
    <3> QED BY <3>1, <3>2, Zenon
  <2>3. CASE /\ results'[i].raw.generation <= generation
             /\ results'[i].state = "resolved" => TrueFrames(published, results'[i])
    BY <2>3, Zenon DEF TrueFrames
  <2> QED BY <2>1, <2>2, <2>3, Zenon
<1>2. \A i \in Ids : /\ results'[i].raw.generation <= generation'
                     /\ TrueFrames(published', results'[i])
  BY <1>1, Zenon
<1>3. \A i \in Ids : TrueFrames(published', results'[i]) => TrueFrames(published, results[i])'
  BY Zenon DEF TrueFrames, TrueFrame, SameImage
<1> QED BY <1>2, <1>3, Zenon DEF PastInv

(* A worker that is not resolving has nothing in hand that could be wrong. *)
LEMMA HandEmpty ==
    ASSUME modules' = << >>, worker' # "store", worker' = "resolve" => item' \in QueueItems
    PROVE  HandInv'
<1>1. worker' = "resolve" => Len(modules') <= Len(item'.raw.pcs) /\ DOMAIN modules' = {}
  <2> SUFFICES ASSUME item' \in QueueItems
               PROVE  Len(modules') <= Len(item'.raw.pcs) /\ DOMAIN modules' = {}
    BY Zenon
  <2>1. item'.raw.pcs \in Seq(Pcs)
    BY StacksAssumption, Zenon DEF QueueItems, Keys
  <2>2. Len(item'.raw.pcs) \in Nat
    BY <2>1
  <2>3. Len(modules') = 0 /\ DOMAIN modules' = {}
    OBVIOUS
  <2> QED BY <2>2, <2>3
<1> QED BY <1>1, Zenon DEF HandInv

(* Nothing that the worker has in hand is disturbed by others. *)
LEMMA HandKept ==
    ASSUME HandInv, UNCHANGED <<item, modules, completed, published>>,
           worker' = worker \/ {worker, worker'} \subseteq {"asleep", "wait"}
    PROVE  HandInv'
<1>1. CASE worker' = worker
  BY <1>1, Zenon DEF HandInv, TrueFrames, TrueFrame, SameImage
<1>2. CASE {worker, worker'} \subseteq {"asleep", "wait"}
  <2>1. modules' = << >> /\ worker' # "store" /\ worker' # "resolve"
    BY <1>2, Zenon DEF HandInv
  <2> QED BY <2>1, HandEmpty, Zenon
<1> QED BY <1>1, <1>2, Zenon


(* A refresh publishes under a generation nothing refers to yet, and evicts. *)
LEMMA OwnPublish ==
    ASSUME IInv, OwnInv, NEW c \in Clients, FlushRefresh(c)
    PROVE  OwnInv'
<1>1. /\ Publish(loaded) /\ UNCHANGED <<results, item, modules, completed, worker>>
  BY Zenon DEF FlushRefresh, cacheVars, workVars
<1>2. CASE UNCHANGED <<generation, snapshots, published>>
  <2>1. PastInv'
    BY <1>1, <1>2, PastKept, Zenon DEF OwnInv, IInv, TypeOK
  <2>2. HandInv'
    BY <1>1, <1>2, HandKept, Zenon DEF OwnInv
  <2> QED BY <2>1, <2>2, Zenon DEF OwnInv
<1>3. CASE ~(UNCHANGED <<generation, snapshots, published>>)
  <2>1. /\ generation' = generation + 1
        /\ snapshots' = Newest([snapshots EXCEPT ![generation + 1] = loaded])
        /\ published' = [published EXCEPT ![generation + 1] = loaded]
    BY <1>1, <1>3, Zenon DEF Publish
  <2>2. RegistryTypeOK /\ PastInv /\ HandInv
    BY Zenon DEF IInv, TypeOK, OwnInv
  <2>3. \A g \in Generations : g # generation + 1 => published'[g] = published[g]
    BY <2>1, <2>2, Zenon DEF RegistryTypeOK
  <2>4. \A g \in Generations : snapshots'[g] \in {Evicted, published'[g]}
    <3>1. \A g \in Generations : \/ snapshots'[g] = Evicted
                                 \/ snapshots'[g] = [snapshots EXCEPT ![generation + 1] = loaded][g]
      BY <2>1, Zenon DEF Newest
    <3> QED BY <2>1, <2>2, <3>1, Zenon DEF RegistryTypeOK, PastInv
  <2>5. ASSUME NEW k \in Keys, k.generation <= generation
        PROVE  published'[k.generation] = published[k.generation]
    <3>1. k.generation \in Generations
      BY Zenon DEF Keys
    <3>2. k.generation # generation + 1
      BY <2>2, <2>5, <3>1 DEF RegistryTypeOK, Generations
    <3> QED BY <2>3, <3>1, <3>2, Zenon
  <2>6. ASSUME NEW r, r.raw \in Keys, r.raw.generation <= generation, TrueFrames(published, r)
        PROVE  TrueFrames(published', r)
    BY <2>5, <2>6, Zenon DEF TrueFrames
  <2>7. \A i \in Ids : /\ results[i].raw.generation <= generation /\ TrueFrames(published, results[i])
                       /\ results'[i] = results[i]
                       /\ results[i] = NoResult \/ results[i].raw \in Keys
    BY <1>1, <2>2, NoneIsNoResult, Zenon DEF PastInv, IInv, TypeOK
  <2>8. PastInv'
    <3>1. ASSUME NEW i \in Ids PROVE results[i].raw.generation <= generation'
      <4>1. results[i].raw.generation \in Nat
        <5>1. CASE results[i] = NoResult
          BY <5>1, NoResultOwn
        <5>2. CASE results[i].raw \in Keys
          BY <5>2 DEF Keys, Generations
        <5> QED BY <2>7, <5>1, <5>2, Zenon
      <4>2. results[i].raw.generation <= generation /\ generation \in Nat
        BY <2>2, <2>7 DEF RegistryTypeOK, Generations
      <4> QED BY <2>1, <4>1, <4>2
    <3>2. \A i \in Ids : TrueFrames(published', results'[i])
      BY <2>6, <2>7, NoResultOwn, Zenon
    <3>3. \A i \in Ids : TrueFrames(published', results'[i]) => TrueFrames(published, results[i])'
      BY Zenon DEF TrueFrames, TrueFrame, SameImage
    <3> QED BY <2>4, <2>7, <3>1, <3>2, <3>3, Zenon DEF PastInv
  <2>9. HandInv'
    <3>1. worker \in {"resolve", "store"} => /\ item.raw \in Keys /\ item.raw.generation <= generation
                                             /\ worker = "store" => completed.raw = item.raw
      <4>1. worker \in {"resolve", "store"} =>
               /\ item.id \in Ids /\ item.raw \in Keys /\ results[item.id].raw = item.raw
               /\ worker = "store" => completed.raw = item.raw
        BY WorkIds, Zenon DEF IInv, CacheInv, QueueInv, WorkInv
      <4> QED BY <2>7, <4>1, Zenon
    <3>2. worker = "resolve" => published'[item.raw.generation] = published[item.raw.generation]
      BY <2>5, <3>1, Zenon
    <3>3. worker = "store" => TrueFrames(published', completed)
      BY <2>2, <2>6, <3>1, Zenon DEF HandInv
    <3>4. TrueFrames(published', completed) => TrueFrames(published, completed)'
      BY <1>1, Zenon DEF TrueFrames, TrueFrame, SameImage
    <3> QED BY <1>1, <2>2, <3>2, <3>3, <3>4, Zenon DEF HandInv
  <2> QED BY <2>8, <2>9, Zenon DEF OwnInv
<1> QED BY <1>2, <1>3, Zenon

(* Submissions, releases, a worker that gives up and stored results. *)
LEMMA OwnCache ==
    ASSUME IInv, OwnInv,
           \/ \E key \in Keys : Submit(key)
           \/ \E id \in Ids : Release(id)
           \/ WorkerUnmarked
           \/ WorkerStore
    PROVE  OwnInv'
<1>0. RegistryTypeOK /\ CacheTypeOK /\ PastInv /\ HandInv
  BY Zenon DEF IInv, TypeOK, OwnInv
<1>1. ASSUME NEW key \in Keys, Submit(key) PROVE OwnInv'
  <2>1. /\ key.generation <= generation /\ UNCHANGED <<generation, snapshots, published>>
        /\ UNCHANGED <<item, modules, completed>>
    BY <1>1, Zenon DEF Submit, registryVars, workVars
  <2>2. SubmitAccepted(key, next_id) \/ SubmitDropped(key, next_id)
    BY <1>1, SubmitFacts, Zenon
  <2>3. /\ results'[next_id].raw = key /\ results'[next_id].state # "resolved"
        /\ \A i \in Ids \ {next_id} : results'[i] = results[i] \/ results'[i] = NoResult
    BY <1>1, <2>2, AcceptedFacts, DroppedFacts, Zenon
  <2>4. PastInv'
    BY <1>0, <2>1, <2>3, PastKept, Zenon
  <2>5. worker' = worker \/ {worker, worker'} \subseteq {"asleep", "wait"}
    BY <2>2, Zenon DEF SubmitAccepted, SubmitDropped
  <2>6. HandInv'
    BY <1>0, <2>1, <2>5, HandKept, Zenon
  <2> QED BY <2>4, <2>6, Zenon DEF OwnInv
<1>2. ASSUME NEW id \in Ids, Release(id) PROVE OwnInv'
  <2>1. /\ UNCHANGED <<generation, snapshots, published>>
        /\ UNCHANGED <<item, modules, completed, worker>>
        /\ results' = ErasedResults(results, {id})
    BY <1>2, Zenon DEF Release, registryVars, workVars
  <2>2. \A i \in Ids : results'[i] = results[i] \/ results'[i] = NoResult
    BY <2>1, Zenon DEF ErasedResults
  <2> QED BY <1>0, <2>1, <2>2, PastKept, HandKept, Zenon DEF OwnInv
<1>3. CASE WorkerUnmarked
  <2> DEFINE doomed == <<item.id>> \o [n \in DOMAIN queue |-> queue[n].id]
  <2>1. /\ UNCHANGED <<generation, snapshots, published, modules>>
        /\ worker = "mark" /\ worker' = "failCallbacks"
        /\ results' = [i \in Ids |-> IF i \in Members(doomed) /\ results[i] # NoResult
                                     THEN [results[i] EXCEPT !.state = "failed"]
                                     ELSE results[i]]
    BY <1>3, Zenon DEF WorkerUnmarked, registryVars
  <2>2. ASSUME NEW i \in Ids
        PROVE  \/ results'[i] = results[i]
               \/ /\ results'[i].raw.generation <= generation
                  /\ results'[i].state # "resolved"
    <3> HIDE DEF doomed
    <3>1. CASE results'[i] # results[i]
      <4>1. results'[i] = [results[i] EXCEPT !.state = "failed"] /\ results[i] # NoResult
        BY <2>1, <3>1, Zenon
      <4>2. results[i] \in Results
        BY <1>0, <4>1, NoneIsNoResult, Zenon
      <4>3. results'[i].state = "failed" /\ results'[i].raw = results[i].raw
        BY <4>1, <4>2 DEF Results
      <4> QED BY <1>0, <4>3, Zenon DEF PastInv
    <3> QED BY <3>1, Zenon
  <2>3. PastInv'
    BY <1>0, <2>1, <2>2, PastKept, Zenon
  <2>4. HandInv'
    BY <1>0, <2>1, HandEmpty, Zenon DEF HandInv
  <2> QED BY <2>3, <2>4, Zenon DEF OwnInv
<1>4. CASE WorkerStore
  <2> DEFINE order == Append(result_order, item.id)
             stored == [results EXCEPT ![item.id] = completed]
             gone == {i \in Members(Overflow(order)) : stored[i].state \notin {"none", "pending"}}
  <2>1. /\ worker = "store" /\ item.id \in Ids /\ results[item.id] # NoResult
        /\ completed.raw = results[item.id].raw
    <3>1. /\ worker = "store" /\ item.id \in Ids /\ results[item.id].state = "pending"
          /\ completed.raw = results[item.id].raw
      BY <1>4, WorkIds, Zenon DEF WorkerStore, IInv, CacheInv, WorkInv, QueueInv
    <3> QED BY <3>1, NoResultFields, Zenon
  <2>2. /\ UNCHANGED <<generation, snapshots, published, modules>> /\ worker' = "callback"
        /\ results' = ErasedResults(stored, gone)
    BY <1>4, <2>1, Zenon DEF WorkerStore, registryVars
  <2>3. stored[item.id] = completed /\ \A i \in Ids \ {item.id} : stored[i] = results[i]
    BY <1>0, <2>1, Zenon DEF CacheTypeOK
  <2> HIDE DEF stored, gone
  <2>4. \A i \in Ids : results'[i] = stored[i] \/ results'[i] = NoResult
    BY <2>2, Zenon DEF ErasedResults
  <2>5. completed.raw.generation <= generation /\ TrueFrames(published, completed)
    BY <1>0, <2>1, Zenon DEF PastInv, HandInv
  <2>6. PastInv'
    BY <1>0, <2>2, <2>3, <2>4, <2>5, PastKept, Zenon
  <2>7. HandInv'
    BY <1>0, <2>1, <2>2, HandEmpty, Zenon DEF HandInv
  <2> QED BY <2>6, <2>7, Zenon DEF OwnInv
<1> QED BY <1>1, <1>2, <1>3, <1>4, Zenon

(* A frame is looked up in the list of the item's generation, or nowhere. *)
LEMMA HandResolve ==
    ASSUME IInv, OwnInv, WorkerResolve
    PROVE  HandInv'
<1> DEFINE pcs == item.raw.pcs
           list == published[item.raw.generation]
           image == Resolve(pcs[Len(modules) + 1], item.raw.generation)
<1>1. /\ worker = "resolve" /\ Len(modules) < Len(pcs) /\ modules' = Append(modules, image)
      /\ UNCHANGED <<item, completed, worker, published>>
  BY Zenon DEF WorkerResolve, registryVars
<1>2. item.raw.generation \in Generations /\ pcs \in Seq(Pcs)
  BY <1>1, WorkIds, StacksAssumption, Zenon DEF IInv, Keys
<1>3. image \in {NoImage, list[pcs[Len(modules) + 1]]}
  BY <1>2, Zenon DEF OwnInv, PastInv, Resolve
<1>4. modules \in Seq(Images \cup {NoImage}) /\ \A n \in DOMAIN modules : modules[n] \in {NoImage, list[pcs[n]]}
  BY <1>1, Zenon DEF OwnInv, HandInv, IInv, TypeOK, WorkTypeOK
<1> HIDE DEF image, list, pcs
<1>5. /\ Len(modules') <= Len(pcs)
      /\ \A n \in DOMAIN modules' : modules'[n] \in {NoImage, list[pcs[n]]}
  <2>1. /\ Len(modules') = Len(modules) + 1 /\ Len(modules) \in Nat /\ Len(pcs) \in Nat
        /\ DOMAIN modules' = DOMAIN modules \cup {Len(modules) + 1}
        /\ \A n \in DOMAIN modules : modules'[n] = modules[n]
        /\ modules'[Len(modules) + 1] = image
    BY <1>1, <1>2, <1>4
  <2>2. Len(modules') <= Len(pcs)
    BY <1>1, <2>1
  <2> QED BY <1>3, <1>4, <2>1, <2>2, Zenon
<1> QED BY <1>1, <1>5, Zenon DEF HandInv, pcs, list

(* A result is resolved only if every frame was, and a name is taken only from
   the same image. *)
LEMMA HandSymbolize ==
    ASSUME IInv, OwnInv, WorkerSymbolize
    PROVE  HandInv'
<1> DEFINE pcs == item.raw.pcs
           list == published[item.raw.generation]
<1>1. /\ worker = "resolve" /\ Len(modules) = Len(pcs) /\ modules' = << >> /\ worker' = "store"
      /\ published' = published
  BY Zenon DEF WorkerSymbolize, registryVars
<1>2. /\ completed'.raw = item.raw /\ completed'.frames = SymbolizedFrames(pcs)
      /\ completed'.state = "resolved" => NoImage \notin Members(modules)
  <2>1. PICK symbolized \in BOOLEAN :
          completed' = [state |-> IF symbolized /\ NoImage \notin Members(modules)
                                  THEN "resolved" ELSE "failed",
                        raw |-> item.raw, frames |-> SymbolizedFrames(pcs)]
    BY Zenon DEF WorkerSymbolize
  <2> HIDE DEF pcs
  <2> QED BY <2>1
<1>3. /\ pcs \in Seq(Pcs) /\ modules \in Seq(Images \cup {NoImage})
      /\ \A n \in DOMAIN modules : modules[n] \in {NoImage, list[pcs[n]]}
  BY <1>1, WorkIds, StacksAssumption, Zenon DEF IInv, Keys, OwnInv, HandInv, TypeOK, WorkTypeOK
<1>4. DOMAIN modules = DOMAIN pcs
  <2> HIDE DEF pcs
  <2> QED BY <1>1, <1>3
<1>5. ASSUME completed'.state = "resolved", NEW n \in DOMAIN completed'.frames
      PROVE  TrueFrame(completed'.frames[n], list[pcs[n]])
  <2> HIDE DEF pcs, list
  <2>1. /\ n \in DOMAIN pcs
        /\ completed'.frames[n] = [module |-> modules[n], function |-> FunctionOf(pcs[n], modules[n])]
    BY <1>2, <1>5, Zenon DEF SymbolizedFrames
  <2>2. completed'.frames[n].module = modules[n] /\ completed'.frames[n].function = FunctionOf(pcs[n], modules[n])
    BY <2>1
  <2>3. modules[n] # NoImage /\ modules[n] = list[pcs[n]]
    BY <1>2, <1>3, <1>4, <1>5, <2>1, Zenon DEF Members
  <2>4. FunctionOf(pcs[n], modules[n]) # NoImage => SameImage(FunctionOf(pcs[n], modules[n]), modules[n])
    BY Zenon DEF FunctionOf
  <2> QED BY <2>2, <2>3, <2>4, Zenon DEF TrueFrame
<1>6. TrueFrames(published', completed')
  BY <1>1, <1>2, <1>5, Zenon DEF TrueFrames
<1>7. TrueFrames(published', completed') => TrueFrames(published, completed)'
  BY Zenon DEF TrueFrames, TrueFrame, SameImage
<1> QED BY <1>1, <1>6, <1>7, Zenon DEF HandInv

(* Every step keeps results true to their own generation. *)
LEMMA OwnNext == IInv /\ IInv' /\ OwnInv /\ [Next]_vars => OwnInv'
<1> SUFFICES ASSUME IInv, IInv', OwnInv, [Next]_vars PROVE OwnInv'
  BY Zenon
<1>1. RegistryTypeOK /\ PastInv /\ HandInv
  BY Zenon DEF IInv, TypeOK, OwnInv
<1>2. ASSUME UNCHANGED <<generation, snapshots, published, results>> PROVE PastInv'
  BY <1>1, <1>2, PastKept, Zenon
<1>3. CASE \/ UNCHANGED vars \/ Shutdown \/ Load
           \/ \E c \in Clients : FlushBegin(c) \/ FlushWait(c)
  <2>1. /\ UNCHANGED <<generation, snapshots, published, results, item, modules, completed>>
        /\ worker' = worker \/ {worker, worker'} \subseteq {"asleep", "wait"}
    <3>1. CASE UNCHANGED vars
      BY <3>1, Zenon DEF vars, registryVars, cacheVars, workVars
    <3>2. CASE Shutdown
      BY <3>2, Zenon DEF Shutdown, BeginFinalization, FinalizationBarrier, ShutdownStop, ShutdownJoin,
         registryVars, cacheVars, workVars
    <3>3. CASE Load
      BY <3>3, Zenon DEF Load, cacheVars, workVars
    <3>4. CASE \E c \in Clients : FlushBegin(c) \/ FlushWait(c)
      BY <3>4, Zenon DEF FlushBegin, FlushWait, registryVars, cacheVars, workVars
    <3> QED BY <1>3, <3>1, <3>2, <3>3, <3>4, Zenon
  <2> QED BY <1>1, <1>2, <2>1, HandKept, Zenon DEF OwnInv
<1>4. ASSUME NEW c \in Clients, FlushRefresh(c) PROVE OwnInv'
  BY <1>4, OwnPublish, Zenon
<1>5. CASE Worker
  <2>1. CASE WorkerUnmarked \/ WorkerStore
    BY <2>1, OwnCache, Zenon
  <2>2. CASE WorkerResolve
    <3>1. UNCHANGED <<generation, snapshots, published, results>>
      BY <2>2, Zenon DEF WorkerResolve, registryVars, cacheVars
    <3> QED BY <1>2, <2>2, <3>1, HandResolve, Zenon DEF OwnInv
  <2>3. CASE WorkerSymbolize
    <3>1. UNCHANGED <<generation, snapshots, published, results>>
      BY <2>3, Zenon DEF WorkerSymbolize, registryVars, cacheVars
    <3> QED BY <1>2, <2>3, <3>1, HandSymbolize, Zenon DEF OwnInv
  <2>4. CASE \/ WorkerTake \/ WorkerSleep \/ WorkerExit \/ WorkerMarked
             \/ WorkerFailCallback \/ WorkerFailExit \/ WorkerCallback \/ WorkerFinish
    <3>1. /\ UNCHANGED <<generation, snapshots, published, results, modules>>
          /\ worker # "resolve" /\ worker' # "store"
      BY <2>4, Zenon DEF WorkerTake, WorkerSleep, WorkerExit, WorkerMarked, WorkerFailCallback,
         WorkerFailExit, WorkerCallback, WorkerFinish, registryVars, cacheVars, workVars
    <3>2. worker' = "resolve" => item' \in QueueItems
      BY Zenon DEF IInv, WorkInv
    <3>3. modules' = << >>
      BY <1>1, <3>1, Zenon DEF HandInv
    <3>4. HandInv'
      BY <3>1, <3>2, <3>3, HandEmpty, Zenon
    <3> QED BY <1>2, <3>1, <3>4, Zenon DEF OwnInv
  <2> QED BY <1>5, <2>1, <2>2, <2>3, <2>4, Zenon DEF Worker
<1>6. CASE (\E key \in Keys : Submit(key)) \/ (\E id \in Ids : Release(id))
  BY <1>6, OwnCache, Zenon
<1> QED BY <1>3, <1>4, <1>5, <1>6, Zenon DEF Next, Flush

(* No frame of a resolved result is attributed to an image that its own
   generation was not published with, and no function name comes from another
   image, whichever images are loaded and unloaded, lists published and evicted
   while the stack is queued or being resolved. *)
THEOREM ResultsOwnGeneration == Spec => []OwnGeneration
<1>1. OwnInv => OwnGeneration
  BY Zenon DEF OwnInv, PastInv, TrueFrames, TrueFrame, OwnGeneration
<1> QED BY <1>1, InitInv, NextInv, OwnInit, OwnNext, PTL DEF Spec
================================================================================
