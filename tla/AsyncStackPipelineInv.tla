------------------------- MODULE AsyncStackPipelineInv -------------------------
(***************************************************************************)
(* The inductive invariant of the asynchronous stack pipeline, for any     *)
(* number of clients, stacks, images, identities and generations and any   *)
(* capacity: it holds initially, and submissions, releases and the steps   *)
(* in which the worker takes from the queue keep it.                       *)
(***************************************************************************)
EXTENDS AsyncStackPipeline, TLAPS

(* What the worker holds at each point of its loop. *)
WorkInv ==
    /\ worker \in {"mark", "resolve", "store", "callback"} => item \in QueueItems
    /\ worker = "store" => /\ completed \in Results
                           /\ completed.state \in {"resolved", "failed"}
                           /\ completed.raw = item.raw
    /\ worker \in {"gone", "failCallbacks"} => stopping /\ queue = << >>
    /\ failed # << >> => worker = "failCallbacks"
    /\ joined => worker = "gone"

(* The lists that are published have an image, or none, for every address. *)
LEMMA ListTypes ==
    ASSUME NEW l \in ModuleLists \cup {NothingLoaded}, NEW pc \in Pcs
    PROVE  l[pc] \in Images \cup {NoImage}
BY StacksAssumption, Zenon DEF NothingLoaded

(* A resolved frame is an image, or none. *)
LEMMA ResolveType ==
    ASSUME TypeOK, NEW pc \in Pcs, NEW g \in Generations
    PROVE  Resolve(pc, g) \in Images \cup {NoImage}
BY ListTypes, Zenon DEF Resolve, TypeOK, RegistryTypeOK

(* Trimming keeps generations mapped to lists. *)
LEMMA NewestType ==
    ASSUME NEW lists \in [Generations -> ModuleLists \cup {NothingLoaded, Evicted}]
    PROVE  Newest(lists) \in [Generations -> ModuleLists \cup {NothingLoaded, Evicted}]
BY Zenon DEF Newest

(* Trimming a FIFO of identities leaves one, and so does removing from it. *)
LEMMA OrderTypes ==
    ASSUME NEW order \in Seq(Ids), NEW id \in Ids
    PROVE  /\ Trimmed(order) \in Seq(Ids)
           /\ Removed(order, id) \in Seq(Ids)
           /\ Members(Removed(order, id)) \subseteq Members(order)
           /\ Members(order) \subseteq Ids
           /\ Members(Trimmed(order)) \subseteq Members(order)
           /\ Members(Overflow(order)) \subseteq Members(order)
<1>1. Members(order) \subseteq Ids
  BY DEF Members
<1>2. Overflow(order) \in Seq(Ids) /\ Members(Overflow(order)) \subseteq Members(order)
  BY BoundsAssumption DEF Overflow, Members
<1>3. Trimmed(order) \in Seq(Ids) /\ Members(Trimmed(order)) \subseteq Members(order)
  BY <1>2 DEF Trimmed, Members
<1>4. Removed(order, id) \in Seq(Ids) /\ Members(Removed(order, id)) \subseteq Members(order)
  <2>1. CASE id \in Members(order)
    <3> DEFINE at == CHOOSE n \in DOMAIN order : order[n] = id
    <3>1. at \in DOMAIN order
      BY <2>1, Zenon DEF Members
    <3>2. Removed(order, id) = SubSeq(order, 1, at - 1) \o SubSeq(order, at + 1, Len(order))
      BY <2>1, Zenon DEF Removed
    <3> HIDE DEF at
    <3>3. at \in 1..Len(order)
      BY <3>1
    <3> DEFINE a == SubSeq(order, 1, at - 1)  b == SubSeq(order, at + 1, Len(order))
    <3>4. /\ a \in Seq(Ids) /\ Len(a) = at - 1
          /\ \A n \in 1..(at - 1) : a[n] = order[n]
      BY <3>3
    <3>5. /\ b \in Seq(Ids) /\ Len(b) = Len(order) - at
          /\ \A n \in 1..(Len(order) - at) : b[n] = order[at + n]
      BY <3>3
    <3> HIDE DEF a, b
    <3>6. a \o b \in Seq(Ids)
      BY <3>4, <3>5
    <3>7. ASSUME NEW n \in DOMAIN (a \o b)
          PROVE  \E k \in DOMAIN order : (a \o b)[n] = order[k]
      <4>1. n \in 1..(Len(order) - 1)
        BY <3>3, <3>4, <3>5
      <4>2. CASE n < at
        BY <3>3, <3>4, <3>5, <4>1, <4>2
      <4>3. CASE n >= at
        <5>1. (a \o b)[n] = b[n - (at - 1)]
          BY <3>3, <3>4, <3>5, <4>1, <4>3
        <5>2. n - (at - 1) \in 1..(Len(order) - at) /\ at + (n - (at - 1)) = n + 1
          BY <3>3, <4>1, <4>3
        <5>3. (a \o b)[n] = order[n + 1]
          BY <3>5, <5>1, <5>2, Zenon
        <5> QED BY <4>1, <5>3, <3>3
      <4> QED BY <4>1, <4>2, <4>3, <3>3
    <3> QED BY <3>2, <3>6, <3>7, Zenon DEF Members, a, b
  <2>2. CASE id \notin Members(order)
    BY <2>2, Zenon DEF Removed
  <2> QED BY <2>1, <2>2, Zenon
<1> QED BY <1>1, <1>2, <1>3, <1>4, Zenon

(* Appending adds one member, and it is never the one that overflows. *)
LEMMA AppendMembers ==
    ASSUME NEW order \in Seq(Ids), NEW id \in Ids
    PROVE  /\ Append(order, id) \in Seq(Ids)
           /\ Members(Append(order, id)) = Members(order) \cup {id}
           /\ Members(Overflow(Append(order, id))) \subseteq Members(order)
<1> DEFINE longer == Append(order, id)
<1>1. /\ longer \in Seq(Ids) /\ Len(longer) = Len(order) + 1
      /\ \A n \in 1..Len(order) : longer[n] = order[n]
      /\ longer[Len(order) + 1] = id
  OBVIOUS
<1> HIDE DEF longer
<1>2. Members(longer) = Members(order) \cup {id}
  <2>1. DOMAIN longer = DOMAIN order \cup {Len(order) + 1}
    BY <1>1
  <2>2. DOMAIN order = 1..Len(order)
    OBVIOUS
  <2> QED BY <1>1, <2>1, <2>2 DEF Members
<1>3. \A n \in DOMAIN Overflow(longer) : n \in 1..Len(order) /\ Overflow(longer)[n] = order[n]
  BY <1>1, BoundsAssumption DEF Overflow
<1> QED BY <1>1, <1>2, <1>3 DEF Members, longer

(* Erasing ids leaves the caches well typed. *)
LEMMA ErasedTypes ==
    ASSUME NEW unique \in [Keys -> Ids \cup {NoId}], NEW keys \in [Ids -> Keys \cup {NoKey}],
           NEW res \in [Ids -> Results \cup {NoResult}], NEW E
    PROVE  /\ ErasedUnique(unique, keys, E) \in [Keys -> Ids \cup {NoId}]
           /\ ErasedKeys(keys, E) \in [Ids -> Keys \cup {NoKey}]
           /\ ErasedResults(res, E) \in [Ids -> Results \cup {NoResult}]
BY Zenon DEF ErasedUnique, ErasedKeys, ErasedResults

(* The queue and the worker's item are the pending results, in id order. *)
QueueInv ==
    /\ \A n \in DOMAIN queue : /\ results[queue[n].id].state = "pending"
                              /\ results[queue[n].id].raw = queue[n].raw
    /\ \A m, n \in DOMAIN queue : m < n => queue[m].id < queue[n].id
    /\ worker \in {"mark", "resolve", "store"} =>
          /\ results[item.id].state = "pending" /\ results[item.id].raw = item.raw
          /\ \A n \in DOMAIN queue : item.id < queue[n].id
    /\ \A i \in Ids : results[i].state = "pending" =>
          \/ \E n \in DOMAIN queue : queue[n].id = i
          \/ worker \in {"mark", "resolve", "store"} /\ item.id = i

(* Results, keys and the two FIFOs agree. *)
MemoryInv ==
    /\ \A i \in Ids : results[i] # NoResult => i < next_id
    /\ \A i \in Ids : id_to_key[i] = results[i].raw
    /\ \A i \in Members(dropped_order) : results[i].state \in {"none", "dropped"}
    /\ \A i \in Members(result_order) : results[i].state \in {"none", "resolved", "failed"}
    /\ \A i \in Members(dropped_order) \cup Members(result_order) : i < next_id

FailedOrdered == \A m, n \in DOMAIN failed : m < n => failed[m] < failed[n]

CacheInv == QueueInv /\ MemoryInv /\ FailedOrdered
IInv == TypeOK /\ WorkInv /\ CacheInv /\ DedupExact

(* No raw stack has the key that stands for none. *)
LEMMA NoKeyIsNone == NoKey \notin Keys
BY DEF NoKey, Keys, Generations

(* A result without a state is no result; any other is well formed. *)
LEMMA NoneIsNoResult ==
    ASSUME CacheTypeOK, NEW i \in Ids
    PROVE  /\ results[i].state = "none" <=> results[i] = NoResult
           /\ results[i] # NoResult => results[i] \in Results /\ results[i].raw \in Keys
BY DEF CacheTypeOK, NoResult, Results

(* A dedup entry names a result that is there and was not dropped. *)
LEMMA EntryIsLive ==
    ASSUME CacheTypeOK, DedupExact, NEW k \in Keys, unique_stacks[k] # NoId
    PROVE  /\ unique_stacks[k] \in Ids
           /\ results[unique_stacks[k]].state \notin {"none", "dropped"}
<1>1. unique_stacks[k] \in Ids
  BY Zenon DEF CacheTypeOK
<1>2. results[unique_stacks[k]].raw = k /\ results[unique_stacks[k]].state # "dropped"
  BY Zenon DEF DedupExact
<1>3. results[unique_stacks[k]] # NoResult
  BY <1>2, NoKeyIsNone DEF NoResult
<1> QED BY <1>1, <1>2, <1>3, NoneIsNoResult, Zenon

(* The initial state satisfies the invariant. *)
LEMMA InitInv == Init => IInv
<1> SUFFICES ASSUME Init PROVE IInv
  BY Zenon
<1>1. published \in [Generations -> ModuleLists \cup {NothingLoaded, Evicted}]
  BY Zenon DEF Init, Generations
<1>2. worker \in {"wait", "gone"} /\ stopping \in BOOLEAN /\ (worker = "gone" => stopping)
  BY Zenon DEF Init
<1>3. TypeOK
  <2>1. snapshots \in [Generations -> ModuleLists \cup {NothingLoaded, Evicted}]
    BY <1>1, NewestType, Zenon DEF Init
  <2>2. generation \in Generations /\ next_id \in 1..(MaxId + 1)
    BY BoundsAssumption DEF Init, Generations
  <2>3. RegistryTypeOK
    BY <1>1, <2>1, <2>2, Zenon DEF Init, RegistryTypeOK
  <2>4. LifeTypeOK
    BY <1>2, Zenon DEF Init, LifeTypeOK
  <2>5. CacheTypeOK
    BY <2>2 DEF Init, CacheTypeOK
  <2>6. WorkTypeOK
    BY <1>2 DEF Init, WorkTypeOK
  <2> QED BY <2>3, <2>4, <2>5, <2>6, Zenon DEF TypeOK
<1>4. WorkInv
  BY <1>2, Zenon DEF Init, WorkInv
<1>5. CacheInv
  <2>1. Members(dropped_order) = {} /\ Members(result_order) = {}
    BY DEF Init, Members
  <2> QED BY <1>2, <2>1 DEF Init, CacheInv, QueueInv, MemoryInv, FailedOrdered, NoResult
<1>6. DedupExact
  BY Zenon DEF Init, DedupExact, NoResult, NoId
<1> QED BY <1>3, <1>4, <1>5, <1>6, Zenon DEF IInv

(* DedupExact, of these tables. *)
DedupOf(unique, keys, res) ==
    /\ \A k \in Keys : unique[k] # NoId =>
          res[unique[k]].raw = k /\ keys[unique[k]] = k /\ res[unique[k]].state # "dropped"
    /\ \A i \in Ids : res[i].state \notin {"none", "dropped"} => unique[res[i].raw] = i

(* Erasing results together with their dedup entries keeps the index exact. *)
LEMMA ErasedDedup ==
    ASSUME NEW unique \in [Keys -> Ids \cup {NoId}], NEW keys \in [Ids -> Keys \cup {NoKey}],
           NEW res \in [Ids -> Results \cup {NoResult}], NEW E \in SUBSET Ids,
           DedupOf(unique, keys, res),
           unique_stacks' = ErasedUnique(unique, keys, E),
           id_to_key' = ErasedKeys(keys, E),
           results' = ErasedResults(res, E)
    PROVE  DedupExact'
<1>1. \A i \in Ids : IF i \in E THEN results'[i] = NoResult
                    ELSE results'[i] = res[i] /\ id_to_key'[i] = keys[i]
  BY Zenon DEF ErasedResults, ErasedKeys
<1>2. \A k \in Keys : unique_stacks'[k] = IF unique[k] \in E THEN NoId ELSE unique[k]
  BY Zenon DEF DedupOf, ErasedUnique, Ids, NoId
<1>3. ASSUME NEW k \in Keys, unique_stacks'[k] # NoId
      PROVE  /\ results'[unique_stacks'[k]].raw = k /\ id_to_key'[unique_stacks'[k]] = k
             /\ results'[unique_stacks'[k]].state # "dropped"
  <2>1. unique_stacks'[k] = unique[k] /\ unique[k] \in Ids \ E
    BY <1>2, <1>3
  <2> QED BY <1>1, <2>1, <1>3 DEF DedupOf
<1>4. ASSUME NEW i \in Ids, results'[i].state \notin {"none", "dropped"}
      PROVE  unique_stacks'[results'[i].raw] = i
  <2>1. i \notin E /\ results'[i] = res[i]
    BY <1>1, <1>4 DEF NoResult
  <2>2. res[i].raw \in Keys
    BY <1>4, <2>1 DEF Results, NoResult
  <2> QED BY <1>2, <1>4, <2>1, <2>2, Zenon DEF DedupOf
<1> QED BY <1>3, <1>4, Zenon DEF DedupExact

(* Ids in the queue and in the worker's hands are ids. *)
LEMMA WorkIds ==
    ASSUME TypeOK, WorkInv
    PROVE  /\ \A n \in DOMAIN queue : queue[n] \in QueueItems /\ queue[n].id \in Ids
           /\ worker \in {"mark", "resolve", "store", "callback"} =>
                 item.id \in Ids /\ item.raw \in Keys
<1>1. \A n \in DOMAIN queue : queue[n] \in QueueItems
  BY DEF TypeOK, CacheTypeOK
<1> QED BY <1>1, Zenon DEF WorkInv, QueueItems

(* The queue stays right when only results that are not pending change. *)
LEMMA QueueInvKept ==
    ASSUME TypeOK, WorkInv, QueueInv, queue' = queue, worker' = worker, item' = item,
           \A i \in Ids : /\ results[i].state = "pending" => results'[i] = results[i]
                          /\ results'[i].state = "pending" => results[i].state = "pending"
    PROVE  QueueInv'
BY WorkIds DEF QueueInv

(* The three kinds of unchanged things. *)
LEMMA CacheStutter ==
    ASSUME CacheInv, DedupExact,
           UNCHANGED <<cacheVars, item, failed, queue>>,
           worker' \in {"mark", "resolve", "store"} <=> worker \in {"mark", "resolve", "store"}
    PROVE  CacheInv' /\ DedupExact'
<1>1. CacheInv'
  BY DEF CacheInv, QueueInv, MemoryInv, FailedOrdered, cacheVars, Members
<1>2. DedupExact'
  BY Zenon DEF DedupExact, cacheVars
<1> QED BY <1>1, <1>2, Zenon

(* A step that leaves the registry alone keeps its types. *)
LEMMA RegistryTypeStutter == RegistryTypeOK /\ UNCHANGED registryVars => RegistryTypeOK'
BY Zenon DEF RegistryTypeOK, registryVars

(* A step that leaves shutdown, the worker's mark and the callers alone keeps
   their types. *)
LEMMA LifeTypeStutter ==
    LifeTypeOK /\ UNCHANGED <<lifeVars, stopping, marked, client>> => LifeTypeOK'
BY Zenon DEF LifeTypeOK, lifeVars

(* A step that leaves the caches and the queue alone keeps their types. *)
LEMMA CacheTypeStutter == CacheTypeOK /\ UNCHANGED <<cacheVars, queue>> => CacheTypeOK'
BY Zenon DEF CacheTypeOK, cacheVars

(* A step that leaves the worker's items alone keeps their types. *)
LEMMA WorkTypeStutter == WorkTypeOK /\ UNCHANGED <<workVars, worker>> => WorkTypeOK'
BY Zenon DEF WorkTypeOK, workVars

(* Results and keys still agree when ids are forgotten and the ones in fresh are
   written anew. *)
LEMMA MemoryInvKept ==
    ASSUME CacheTypeOK, MemoryInv, next_id' \in Nat, next_id <= next_id', NEW fresh \in SUBSET Ids,
           \A i \in Ids \ fresh : \/ results'[i] = results[i] /\ id_to_key'[i] = id_to_key[i]
                                  \/ results'[i] = NoResult /\ id_to_key'[i] = NoKey,
           \A i \in fresh : i < next_id' /\ id_to_key'[i] = results'[i].raw,
           \A i \in Members(dropped_order') :
              \/ i \in Members(dropped_order) \ fresh
              \/ i \in fresh /\ results'[i].state = "dropped",
           \A i \in Members(result_order') :
              \/ i \in Members(result_order) \ fresh
              \/ i \in fresh /\ results'[i].state \in {"resolved", "failed"}
    PROVE  MemoryInv'
<1>1. Members(dropped_order) \subseteq Ids /\ Members(result_order) \subseteq Ids
  BY DEF CacheTypeOK, Members
<1>2. next_id \in Nat /\ \A i \in Ids : i \in Nat
  BY DEF CacheTypeOK, Ids
<1>3. \A i \in Ids : results'[i] # NoResult => i < next_id'
  BY <1>2 DEF MemoryInv
<1>4. \A i \in Ids : id_to_key'[i] = results'[i].raw
  BY DEF MemoryInv, NoResult
<1>5. \A i \in Members(dropped_order') : results'[i].state \in {"none", "dropped"} /\ i < next_id'
  BY <1>1, <1>2 DEF MemoryInv, NoResult
<1>6. \A i \in Members(result_order') :
         results'[i].state \in {"none", "resolved", "failed"} /\ i < next_id'
  BY <1>1, <1>2 DEF MemoryInv, NoResult
<1> QED BY <1>3, <1>4, <1>5, <1>6, Zenon DEF MemoryInv

(* What every submission that gets an identity leaves alone, and that the
   identity is a new one. *)
LEMMA SubmitFacts ==
    ASSUME IInv, NEW key \in Keys, Submit(key)
    PROVE  /\ next_id \in Ids /\ next_id' = next_id + 1 /\ next_id' \in 1..(MaxId + 1)
           /\ results[next_id] = NoResult /\ unique_stacks[key] = NoId /\ ~stopping
           /\ UNCHANGED <<registryVars, lifeVars, workVars, stopping, result_order, client>>
           /\ SubmitAccepted(key, next_id) \/ SubmitDropped(key, next_id)
           /\ \A i \in Members(dropped_order) \cup Members(result_order) : i \in Ids /\ i < next_id
<1>1. /\ next_id \in Ids /\ next_id' = next_id + 1 /\ unique_stacks[key] = NoId /\ ~stopping
      /\ UNCHANGED <<registryVars, lifeVars, workVars, stopping, result_order, client>>
      /\ SubmitAccepted(key, next_id) \/ SubmitDropped(key, next_id)
  BY Zenon DEF Submit
<1>2. CacheTypeOK /\ MemoryInv
  BY Zenon DEF IInv, TypeOK, CacheInv
<1>3. next_id' \in 1..(MaxId + 1) /\ results[next_id] = NoResult
  BY <1>1, <1>2, BoundsAssumption DEF MemoryInv, Ids
<1>4. \A i \in Members(dropped_order) \cup Members(result_order) : i \in Ids /\ i < next_id
  BY <1>2 DEF MemoryInv, CacheTypeOK, Members
<1> QED BY <1>1, <1>3, <1>4, Zenon

(* What an accepted submission writes. *)
LEMMA AcceptedFacts ==
    ASSUME IInv, NEW key \in Keys, Submit(key), SubmitAccepted(key, next_id)
    PROVE  /\ unique_stacks' = [unique_stacks EXCEPT ![key] = next_id]
           /\ id_to_key'[next_id] = key
           /\ results'[next_id].state = "pending" /\ results'[next_id].raw = key
           /\ \A i \in Ids \ {next_id} : results'[i] = results[i] /\ id_to_key'[i] = id_to_key[i]
           /\ queue' = Append(queue, [id |-> next_id, raw |-> key])
           /\ worker' = IF worker = "asleep" THEN "wait" ELSE worker
           /\ UNCHANGED <<dropped_order, result_order>>
           /\ CacheTypeOK'
<1>1. /\ unique_stacks' = [unique_stacks EXCEPT ![key] = next_id]
      /\ id_to_key' = [id_to_key EXCEPT ![next_id] = key]
      /\ results' = [results EXCEPT ![next_id] = [state |-> "pending", raw |-> key, frames |-> << >>]]
      /\ queue' = Append(queue, [id |-> next_id, raw |-> key])
      /\ worker' = IF worker = "asleep" THEN "wait" ELSE worker
      /\ UNCHANGED <<dropped_order, result_order>>
  BY Zenon DEF Submit, SubmitAccepted
<1>2. CacheTypeOK /\ next_id \in Ids /\ next_id' \in 1..(MaxId + 1)
  BY SubmitFacts, Zenon DEF IInv, TypeOK
<1>3. [state |-> "pending", raw |-> key, frames |-> << >>] \in Results
  BY DEF Results
<1>4. queue' \in Seq(QueueItems)
  BY <1>1, <1>2 DEF CacheTypeOK, QueueItems
<1>5. CacheTypeOK'
  BY <1>1, <1>2, <1>3, <1>4, Zenon DEF CacheTypeOK
<1>6. /\ id_to_key'[next_id] = key
      /\ results'[next_id].state = "pending" /\ results'[next_id].raw = key
      /\ \A i \in Ids \ {next_id} : results'[i] = results[i] /\ id_to_key'[i] = id_to_key[i]
  BY <1>1, <1>2, Zenon DEF CacheTypeOK
<1> QED BY <1>1, <1>5, <1>6, Zenon

(* An accepted stack is the last of the queue. *)
LEMMA AcceptedQueue ==
    ASSUME IInv, NEW key \in Keys, Submit(key), SubmitAccepted(key, next_id)
    PROVE  QueueInv'
<1>1. /\ queue \in Seq(QueueItems) /\ next_id \in Ids /\ results[next_id] = NoResult
      /\ queue' = Append(queue, [id |-> next_id, raw |-> key])
      /\ item' = item
      /\ worker' \in {"mark", "resolve", "store"} <=> worker \in {"mark", "resolve", "store"}
  <2>1. next_id \in Ids /\ results[next_id] = NoResult
    BY SubmitFacts, Zenon
  <2> QED BY <2>1, Zenon DEF Submit, SubmitAccepted, IInv, TypeOK, CacheTypeOK, workVars
<1>2. /\ results'[next_id].state = "pending" /\ results'[next_id].raw = key
      /\ \A i \in Ids \ {next_id} : results'[i] = results[i] /\ id_to_key'[i] = id_to_key[i]
  BY AcceptedFacts, Zenon
<1>3. QueueInv /\ \A i \in Ids : results[i].state = "pending" => i < next_id /\ i # next_id
  BY <1>1 DEF IInv, CacheInv, MemoryInv, NoResult
<1>4. /\ \A n \in DOMAIN queue : queue[n].id \in Ids
      /\ worker \in {"mark", "resolve", "store"} => item.id \in Ids
  BY WorkIds, Zenon DEF IInv
<1>5. /\ \A n \in DOMAIN queue : queue'[n] = queue[n] /\ n < Len(queue) + 1
      /\ DOMAIN queue' = DOMAIN queue \cup {Len(queue) + 1}
      /\ queue'[Len(queue) + 1] = [id |-> next_id, raw |-> key]
      /\ DOMAIN queue \subseteq Nat /\ Len(queue) \in Nat
  BY <1>1
<1>6. \A n \in DOMAIN queue : queue[n].id < next_id /\ results'[queue[n].id] = results[queue[n].id]
  BY <1>2, <1>3, <1>4, Zenon DEF QueueInv
<1>7. \A n \in DOMAIN queue' : /\ results'[queue'[n].id].state = "pending"
                              /\ results'[queue'[n].id].raw = queue'[n].raw
  BY <1>2, <1>3, <1>5, <1>6 DEF QueueInv
<1>8. \A m, n \in DOMAIN queue' : m < n => queue'[m].id < queue'[n].id
  BY <1>3, <1>5, <1>6 DEF QueueInv
<1>9. worker' \in {"mark", "resolve", "store"} =>
         /\ results'[item'.id].state = "pending" /\ results'[item'.id].raw = item'.raw
         /\ \A n \in DOMAIN queue' : item'.id < queue'[n].id
  BY <1>1, <1>2, <1>3, <1>4, <1>5 DEF QueueInv
<1>10. \A i \in Ids : results'[i].state = "pending" =>
          \/ \E n \in DOMAIN queue' : queue'[n].id = i
          \/ worker' \in {"mark", "resolve", "store"} /\ item'.id = i
  BY <1>1, <1>2, <1>3, <1>5 DEF QueueInv
<1> QED BY <1>7, <1>8, <1>9, <1>10, Zenon DEF QueueInv

(* The dedup index is exact again with the entry of an accepted stack. *)
LEMMA AcceptedDedup ==
    ASSUME IInv, NEW key \in Keys, Submit(key), SubmitAccepted(key, next_id)
    PROVE  DedupExact'
<1>1. /\ next_id \in Ids /\ next_id # NoId /\ results[next_id] = NoResult
      /\ unique_stacks[key] = NoId /\ CacheTypeOK /\ DedupExact
  BY SubmitFacts DEF IInv, TypeOK, Ids, NoId
<1>2. /\ results'[next_id].state = "pending" /\ results'[next_id].raw = key
      /\ id_to_key'[next_id] = key
      /\ \A i \in Ids \ {next_id} : results'[i] = results[i] /\ id_to_key'[i] = id_to_key[i]
  BY AcceptedFacts, Zenon
<1>3. unique_stacks'[key] = next_id /\ \A k \in Keys \ {key} : unique_stacks'[k] = unique_stacks[k]
  BY <1>1, Zenon DEF SubmitAccepted, CacheTypeOK
<1>4. \A k \in Keys : unique_stacks[k] # NoId => unique_stacks[k] \in Ids \ {next_id}
  BY <1>1, EntryIsLive DEF NoResult
<1>5. ASSUME NEW i \in Ids \ {next_id}, results[i].state \notin {"none", "dropped"}
      PROVE  results[i].raw \in Keys \ {key} /\ unique_stacks[results[i].raw] = i
  <2>1. results[i].raw \in Keys /\ unique_stacks[results[i].raw] = i
    BY <1>1, <1>5, NoneIsNoResult, Zenon DEF DedupExact
  <2> QED BY <1>1, <2>1 DEF Ids, NoId
<1>6. ASSUME NEW k \in Keys, unique_stacks'[k] # NoId
      PROVE  /\ results'[unique_stacks'[k]].raw = k /\ id_to_key'[unique_stacks'[k]] = k
             /\ results'[unique_stacks'[k]].state # "dropped"
  <2>1. CASE k = key
    BY <1>2, <1>3, <2>1, Zenon
  <2>2. CASE k # key
    BY <1>1, <1>2, <1>3, <1>4, <1>6, <2>2 DEF DedupExact
  <2> QED BY <2>1, <2>2, Zenon
<1>7. ASSUME NEW i \in Ids, results'[i].state \notin {"none", "dropped"}
      PROVE  unique_stacks'[results'[i].raw] = i
  <2>1. CASE i = next_id
    BY <1>2, <1>3, <2>1, Zenon
  <2>2. CASE i # next_id
    BY <1>2, <1>3, <1>5, <1>7, <2>2
  <2> QED BY <2>1, <2>2, Zenon
<1> QED BY <1>6, <1>7, Zenon DEF DedupExact

(* An accepted submission keeps the invariant. *)
LEMMA AcceptedInv ==
    ASSUME IInv, NEW key \in Keys, Submit(key), SubmitAccepted(key, next_id)
    PROVE  IInv'
<1>1. /\ next_id \in Ids /\ next_id' = next_id + 1 /\ next_id' \in 1..(MaxId + 1)
      /\ \A i \in Members(dropped_order) \cup Members(result_order) : i \in Ids /\ i < next_id
  BY SubmitFacts, Zenon
<1>2. /\ results'[next_id].state = "pending" /\ results'[next_id].raw = key
      /\ id_to_key'[next_id] = key
      /\ \A i \in Ids \ {next_id} : results'[i] = results[i] /\ id_to_key'[i] = id_to_key[i]
      /\ CacheTypeOK'
  BY AcceptedFacts, Zenon
<1>3. UNCHANGED <<registryVars, lifeVars, workVars, stopping, client, dropped_order, result_order>>
      /\ worker' = IF worker = "asleep" THEN "wait" ELSE worker
  BY Zenon DEF Submit, SubmitAccepted
<1>4. RegistryTypeOK' /\ LifeTypeOK' /\ WorkTypeOK'
  BY <1>3, Zenon DEF IInv, TypeOK, RegistryTypeOK, LifeTypeOK, WorkTypeOK, registryVars, lifeVars, workVars
<1>5. WorkInv'
  <2>1. worker \notin {"gone", "failCallbacks"}
    BY Zenon DEF Submit, IInv, WorkInv
  <2> QED BY <1>3, <2>1, Zenon DEF IInv, WorkInv, workVars, lifeVars
<1>6. MemoryInv'
  <2>1. CacheTypeOK /\ MemoryInv /\ next_id' \in Nat /\ next_id <= next_id'
    BY <1>1 DEF IInv, TypeOK, CacheInv, Ids
  <2>2. \A i \in {next_id} : i < next_id' /\ id_to_key'[i] = results'[i].raw
    <3>1. next_id < next_id'
      BY <1>1 DEF Ids
    <3> QED BY <1>2, <3>1, Zenon
  <2>3. /\ \A i \in Members(dropped_order') : i \in Members(dropped_order) \ {next_id}
        /\ \A i \in Members(result_order') : i \in Members(result_order) \ {next_id}
    BY <1>1, <1>3 DEF Ids
  <2>4. {next_id} \in SUBSET Ids
    BY <1>1, Zenon
  <2> QED BY <1>2, <2>1, <2>2, <2>3, <2>4, MemoryInvKept, Zenon
<1>7. FailedOrdered'
  BY <1>3, Zenon DEF IInv, CacheInv, FailedOrdered, workVars
<1> QED BY <1>2, <1>4, <1>5, <1>6, <1>7, AcceptedQueue, AcceptedDedup, Zenon DEF IInv, TypeOK, CacheInv

(* What a dropped submission writes: its own result, and the oldest dropped ones
   are forgotten. *)
LEMMA DroppedFacts ==
    ASSUME IInv, NEW key \in Keys, Submit(key), SubmitDropped(key, next_id)
    PROVE  /\ results'[next_id].state = "dropped" /\ results'[next_id].raw = key
           /\ id_to_key'[next_id] = key
           /\ \A i \in Ids \ {next_id} :
                 \/ results'[i] = results[i] /\ id_to_key'[i] = id_to_key[i]
                 \/ /\ results[i].state \in {"none", "dropped"}
                    /\ results'[i] = NoResult /\ id_to_key'[i] = NoKey
           /\ Members(dropped_order') \subseteq Members(dropped_order) \cup {next_id}
           /\ unique_stacks' = unique_stacks
           /\ CacheTypeOK'
<1> DEFINE order == Append(dropped_order, next_id)
           gone == Members(Overflow(order))
           keys == [id_to_key EXCEPT ![next_id] = key]
           kept == [results EXCEPT ![next_id] = [state |-> "dropped", raw |-> key, frames |-> << >>]]
<1>1. /\ dropped_order' = Trimmed(order)
      /\ unique_stacks' = ErasedUnique(unique_stacks, keys, gone)
      /\ id_to_key' = ErasedKeys(keys, gone)
      /\ results' = ErasedResults(kept, gone)
      /\ UNCHANGED <<queue, result_order>>
  BY Zenon DEF Submit, SubmitDropped
<1>2. /\ next_id \in Ids /\ next_id' \in 1..(MaxId + 1)
      /\ \A i \in Members(dropped_order) \cup Members(result_order) : i \in Ids /\ i < next_id
  BY SubmitFacts, Zenon
<1>3. CacheTypeOK /\ MemoryInv /\ DedupExact
  BY Zenon DEF IInv, TypeOK, CacheInv
<1>4. order \in Seq(Ids) /\ Members(order) = Members(dropped_order) \cup {next_id}
      /\ gone \subseteq Members(dropped_order)
  BY <1>2, <1>3, AppendMembers, Zenon DEF CacheTypeOK
<1>5. Trimmed(order) \in Seq(Ids) /\ Members(Trimmed(order)) \subseteq Members(order)
  BY <1>2, <1>4, OrderTypes, Zenon
<1>6. \A i \in gone : i \in Ids /\ i # next_id /\ results[i].state \in {"none", "dropped"}
  BY <1>2, <1>3, <1>4 DEF MemoryInv, Ids
<1>7. keys \in [Ids -> Keys \cup {NoKey}] /\ kept \in [Ids -> Results \cup {NoResult}]
  BY <1>2, <1>3 DEF CacheTypeOK, Results
<1>8. /\ kept[next_id].state = "dropped" /\ kept[next_id].raw = key /\ keys[next_id] = key
      /\ \A i \in Ids \ {next_id} : kept[i] = results[i] /\ keys[i] = id_to_key[i]
  BY <1>2, <1>3, Zenon DEF CacheTypeOK
<1>9. \A k \in Keys : unique_stacks[k] \notin gone
  <2>1. NoId \notin Ids
    BY DEF Ids, NoId
  <2> QED BY <1>3, <1>6, <2>1, EntryIsLive, Zenon
<1> HIDE DEF order, gone, keys, kept
<1>10. unique_stacks' = unique_stacks
  <2>1. unique_stacks \in [Keys -> Ids \cup {NoId}]
    BY <1>3, Zenon DEF CacheTypeOK
  <2>2. unique_stacks' = ErasedUnique(unique_stacks, keys, gone)
    BY <1>1, Zenon
  <2> QED BY <1>9, <2>1, <2>2, Zenon DEF ErasedUnique
<1>11. \A i \in Ids : /\ results'[i] = IF i \in gone THEN NoResult ELSE kept[i]
                     /\ id_to_key'[i] = IF i \in gone THEN NoKey ELSE keys[i]
  BY <1>1, Zenon DEF ErasedResults, ErasedKeys
<1>12. CacheTypeOK'
  BY <1>1, <1>2, <1>3, <1>5, <1>7, <1>10, Zenon DEF CacheTypeOK, ErasedResults, ErasedKeys
<1>13. Members(dropped_order') \subseteq Members(dropped_order) \cup {next_id}
  BY <1>1, <1>4, <1>5, Zenon
<1>14. ASSUME NEW i \in Ids \ {next_id}
       PROVE  \/ results'[i] = results[i] /\ id_to_key'[i] = id_to_key[i]
              \/ /\ results[i].state \in {"none", "dropped"}
                 /\ results'[i] = NoResult /\ id_to_key'[i] = NoKey
  BY <1>6, <1>8, <1>11, Zenon
<1> QED BY <1>2, <1>6, <1>8, <1>10, <1>11, <1>12, <1>13, <1>14, Zenon

(* A dropped submission keeps the invariant. *)
LEMMA DroppedInv ==
    ASSUME IInv, NEW key \in Keys, Submit(key), SubmitDropped(key, next_id)
    PROVE  IInv'
<1>1. /\ next_id \in Ids /\ next_id' = next_id + 1 /\ results[next_id] = NoResult
      /\ \A i \in Members(dropped_order) \cup Members(result_order) : i \in Ids /\ i < next_id
  BY SubmitFacts, Zenon
<1>2. /\ results'[next_id].state = "dropped" /\ results'[next_id].raw = key
      /\ id_to_key'[next_id] = key
      /\ \A i \in Ids \ {next_id} :
            \/ results'[i] = results[i] /\ id_to_key'[i] = id_to_key[i]
            \/ /\ results[i].state \in {"none", "dropped"}
               /\ results'[i] = NoResult /\ id_to_key'[i] = NoKey
      /\ Members(dropped_order') \subseteq Members(dropped_order) \cup {next_id}
      /\ unique_stacks' = unique_stacks
      /\ CacheTypeOK'
  BY DroppedFacts, Zenon
<1>3. UNCHANGED <<registryVars, lifeVars, workVars, stopping, client, result_order, queue, worker>>
  BY Zenon DEF Submit, SubmitDropped
<1>4. RegistryTypeOK' /\ LifeTypeOK' /\ WorkTypeOK' /\ WorkInv'
  BY <1>3 DEF IInv, TypeOK, RegistryTypeOK, LifeTypeOK, WorkTypeOK, WorkInv, registryVars, lifeVars,
              workVars
<1>5. MemoryInv'
  <2>1. CacheTypeOK /\ MemoryInv /\ next_id' \in Nat /\ next_id <= next_id'
    BY <1>1 DEF IInv, TypeOK, CacheInv, Ids
  <2>2. \A i \in {next_id} : i < next_id' /\ id_to_key'[i] = results'[i].raw
    <3>1. next_id < next_id'
      BY <1>1 DEF Ids
    <3> QED BY <1>2, <3>1, Zenon
  <2>3. /\ \A i \in Members(dropped_order') :
              \/ i \in Members(dropped_order) \ {next_id}
              \/ i \in {next_id} /\ results'[i].state = "dropped"
        /\ \A i \in Members(result_order') : i \in Members(result_order) \ {next_id}
    <3>1. next_id \notin Members(dropped_order) \cup Members(result_order)
      BY <1>1 DEF Ids
    <3>2. result_order' = result_order
      BY <1>3, Zenon
    <3> QED BY <1>2, <3>1, <3>2, Zenon
  <2>4. {next_id} \in SUBSET Ids
    BY <1>1, Zenon
  <2> QED BY <1>2, <2>1, <2>2, <2>3, <2>4, MemoryInvKept, Zenon
<1>6. QueueInv'
  <2>1. \A i \in Ids : /\ results[i].state = "pending" => results'[i] = results[i]
                       /\ results'[i].state = "pending" => results[i].state = "pending"
    BY <1>1, <1>2 DEF NoResult
  <2>2. TypeOK /\ WorkInv /\ QueueInv /\ queue' = queue /\ worker' = worker /\ item' = item
    BY <1>3, Zenon DEF IInv, CacheInv, workVars
  <2> QED BY <2>1, <2>2, QueueInvKept, Zenon
<1>7. FailedOrdered'
  BY <1>3, Zenon DEF IInv, CacheInv, FailedOrdered, workVars
<1>8. DedupExact'
  <2>1. CacheTypeOK /\ DedupExact
    BY Zenon DEF IInv, TypeOK
  <2>2. ASSUME NEW k \in Keys, unique_stacks[k] # NoId
        PROVE  LET i == unique_stacks[k] IN results'[i] = results[i] /\ id_to_key'[i] = id_to_key[i]
    BY <1>1, <1>2, <2>1, <2>2, EntryIsLive DEF NoResult
  <2>3. \A i \in Ids : results'[i].state \notin {"none", "dropped"} => results'[i] = results[i]
    BY <1>2 DEF NoResult
  <2> QED BY <1>2, <2>1, <2>2, <2>3 DEF DedupExact
<1> QED BY <1>2, <1>4, <1>5, <1>6, <1>7, <1>8, Zenon DEF IInv, TypeOK, CacheInv

(* A submission keeps the invariant. *)
LEMMA SubmitInv ==
    ASSUME IInv, NEW key \in Keys, Submit(key)
    PROVE  IInv'
BY SubmitFacts, AcceptedInv, DroppedInv, Zenon

(* Releasing a finished or dropped result keeps the invariant. *)
LEMMA ReleaseInv ==
    ASSUME IInv, NEW id \in Ids, Release(id)
    PROVE  IInv'
<1>1. /\ results[id].state \notin {"none", "pending"}
      /\ unique_stacks' = ErasedUnique(unique_stacks, id_to_key, {id})
      /\ id_to_key' = ErasedKeys(id_to_key, {id})
      /\ results' = ErasedResults(results, {id})
      /\ result_order' = Removed(result_order, id)
      /\ dropped_order' = Removed(dropped_order, id)
      /\ UNCHANGED <<registryVars, lifeVars, workVars, stopping, next_id, queue, worker, client>>
  BY Zenon DEF Release
<1>2. TypeOK /\ CacheTypeOK /\ WorkInv /\ QueueInv /\ MemoryInv /\ DedupExact
  BY Zenon DEF IInv, TypeOK, CacheInv
<1>3. RegistryTypeOK' /\ LifeTypeOK' /\ WorkTypeOK' /\ WorkInv' /\ FailedOrdered'
  <2>1. RegistryTypeOK' /\ WorkTypeOK' /\ FailedOrdered'
    BY <1>1, <1>2, Zenon DEF IInv, TypeOK, CacheInv, RegistryTypeOK, WorkTypeOK, FailedOrdered,
                             registryVars, workVars
  <2>2. LifeTypeOK'
    BY <1>1, <1>2, Zenon DEF TypeOK, LifeTypeOK, lifeVars, workVars
  <2>3. WorkInv'
    BY <1>1, <1>2, Zenon DEF WorkInv, workVars, lifeVars
  <2> QED BY <2>1, <2>2, <2>3, Zenon
<1>4. /\ unique_stacks \in [Keys -> Ids \cup {NoId}] /\ id_to_key \in [Ids -> Keys \cup {NoKey}]
      /\ results \in [Ids -> Results \cup {NoResult}]
      /\ result_order \in Seq(Ids) /\ dropped_order \in Seq(Ids)
      /\ next_id \in Nat /\ {id} \in SUBSET Ids
  BY <1>2 DEF CacheTypeOK
<1>5. /\ Removed(result_order, id) \in Seq(Ids)
      /\ Members(Removed(result_order, id)) \subseteq Members(result_order)
      /\ Removed(dropped_order, id) \in Seq(Ids)
      /\ Members(Removed(dropped_order, id)) \subseteq Members(dropped_order)
  BY <1>4, OrderTypes, Zenon
<1>6. CacheTypeOK'
  <2>1. /\ ErasedUnique(unique_stacks, id_to_key, {id}) \in [Keys -> Ids \cup {NoId}]
        /\ ErasedKeys(id_to_key, {id}) \in [Ids -> Keys \cup {NoKey}]
        /\ ErasedResults(results, {id}) \in [Ids -> Results \cup {NoResult}]
    BY <1>4, ErasedTypes, Zenon
  <2>2. next_id' = next_id /\ queue' = queue
    BY <1>1, Zenon
  <2> QED BY <1>1, <1>2, <1>5, <2>1, <2>2, Zenon DEF CacheTypeOK
<1>7. DedupExact'
  <2>1. DedupOf(unique_stacks, id_to_key, results)
    BY <1>2, Zenon DEF DedupExact, DedupOf
  <2>2. /\ unique_stacks' = ErasedUnique(unique_stacks, id_to_key, {id})
        /\ id_to_key' = ErasedKeys(id_to_key, {id}) /\ results' = ErasedResults(results, {id})
        /\ {id} \in SUBSET Ids
    BY <1>1, Zenon
  <2> QED BY <1>4, <2>1, <2>2, ErasedDedup, Zenon
<1>8. \A i \in Ids : \/ results'[i] = results[i] /\ id_to_key'[i] = id_to_key[i]
                     \/ results'[i] = NoResult /\ id_to_key'[i] = NoKey /\ results[i].state # "pending"
  BY <1>1, Zenon DEF ErasedResults, ErasedKeys
<1>9. QueueInv'
  <2>1. \A i \in Ids : /\ results[i].state = "pending" => results'[i] = results[i]
                       /\ results'[i].state = "pending" => results[i].state = "pending"
    BY <1>8 DEF NoResult
  <2>2. queue' = queue /\ worker' = worker /\ item' = item
    BY <1>1, Zenon DEF workVars
  <2> QED BY <1>2, <2>1, <2>2, QueueInvKept, Zenon
<1>10. MemoryInv'
  <2>1. next_id' \in Nat /\ next_id <= next_id'
    BY <1>1, <1>4
  <2>2. /\ \A i \in Members(dropped_order') : i \in Members(dropped_order)
        /\ \A i \in Members(result_order') : i \in Members(result_order)
    BY <1>1, <1>5, Zenon
  <2> QED BY <1>2, <1>8, <2>1, <2>2, MemoryInvKept, Zenon
<1> QED BY <1>3, <1>6, <1>7, <1>9, <1>10, Zenon DEF IInv, TypeOK, CacheInv

(* Taking an item keeps the invariant. *)
LEMMA TakeInv == IInv /\ WorkerTake => IInv'
<1> SUFFICES ASSUME IInv, WorkerTake PROVE IInv'
  BY Zenon
<1>1. /\ worker = "wait" /\ queue # << >> /\ item' = Head(queue) /\ queue' = Tail(queue)
      /\ worker' \in {"mark", "resolve"}
      /\ UNCHANGED <<registryVars, lifeVars, cacheVars, modules, completed, marked, failed, stopping,
                     client>>
  BY Zenon DEF WorkerTake
<1>2. queue \in Seq(QueueItems) /\ failed = << >> /\ CacheTypeOK /\ QueueInv /\ MemoryInv /\ DedupExact
  BY <1>1, Zenon DEF IInv, TypeOK, CacheTypeOK, WorkInv, CacheInv
<1>3. /\ item' = queue[1] /\ item' \in QueueItems /\ queue' \in Seq(QueueItems)
      /\ 1 \in DOMAIN queue
      /\ \A n \in DOMAIN queue' : n + 1 \in DOMAIN queue /\ queue'[n] = queue[n + 1] /\ n \in Nat
      /\ \A n \in DOMAIN queue : n = 1 \/ (n - 1 \in DOMAIN queue' /\ queue'[n - 1] = queue[n])
      /\ DOMAIN queue \subseteq Nat \ {0}
  <2>1. queue \in Seq(QueueItems) /\ queue # << >> /\ item' = Head(queue) /\ queue' = Tail(queue)
    BY <1>1, <1>2, Zenon
  <2> QED BY <2>1
<1>4. RegistryTypeOK' /\ LifeTypeOK' /\ CacheTypeOK' /\ WorkTypeOK' /\ WorkInv'
  <2>1. RegistryTypeOK' /\ LifeTypeOK'
    BY <1>1, Zenon DEF IInv, TypeOK, RegistryTypeOK, LifeTypeOK, registryVars, lifeVars
  <2>2. CacheTypeOK' /\ WorkTypeOK'
    BY <1>1, <1>3, Zenon DEF IInv, TypeOK, CacheTypeOK, WorkTypeOK, cacheVars
  <2>3. WorkInv'
    BY <1>1, <1>3, Zenon DEF IInv, WorkInv, lifeVars
  <2> QED BY <2>1, <2>2, <2>3, Zenon
<1>5. results' = results
  BY <1>1, Zenon DEF cacheVars
<1>6. QueueInv'
  <2>1. \A n \in DOMAIN queue' : results[queue'[n].id].state = "pending"
                              /\ results[queue'[n].id].raw = queue'[n].raw
    BY <1>2, <1>3 DEF QueueInv
  <2>2. \A m, n \in DOMAIN queue' : m < n => queue'[m].id < queue'[n].id
    <3>1. \A m, n \in DOMAIN queue' : m < n => m + 1 < n + 1
      BY <1>3
    <3>2. \A m, n \in DOMAIN queue : m < n => queue[m].id < queue[n].id
      BY <1>2, Zenon DEF QueueInv
    <3>3. \A n \in DOMAIN queue' : n + 1 \in DOMAIN queue /\ queue'[n] = queue[n + 1]
      BY <1>3, Zenon
    <3> QED BY <3>1, <3>2, <3>3, Zenon
  <2>3. /\ results[item'.id].state = "pending" /\ results[item'.id].raw = item'.raw
        /\ \A n \in DOMAIN queue' : item'.id < queue'[n].id
    <3>1. \A n \in DOMAIN queue' : 1 < n + 1
      BY <1>3
    <3>2. /\ results[queue[1].id].state = "pending" /\ results[queue[1].id].raw = queue[1].raw
          /\ \A n \in DOMAIN queue : 1 < n => queue[1].id < queue[n].id
      BY <1>2, <1>3, Zenon DEF QueueInv
    <3>3. /\ item' = queue[1]
          /\ \A n \in DOMAIN queue' : n + 1 \in DOMAIN queue /\ queue'[n] = queue[n + 1]
      BY <1>3, Zenon
    <3> QED BY <3>1, <3>2, <3>3, Zenon
  <2>4. ASSUME NEW i \in Ids, results[i].state = "pending"
        PROVE  (\E n \in DOMAIN queue' : queue'[n].id = i) \/ item'.id = i
    <3>1. PICK n \in DOMAIN queue : queue[n].id = i
      BY <1>1, <1>2, <2>4, Zenon DEF QueueInv
    <3>2. n = 1 \/ (n - 1 \in DOMAIN queue' /\ queue'[n - 1] = queue[n])
      BY <1>3, Zenon
    <3> QED BY <1>3, <3>1, <3>2, Zenon
  <2> QED BY <1>1, <1>5, <2>1, <2>2, <2>3, <2>4, Zenon DEF QueueInv
<1>7. MemoryInv' /\ DedupExact' /\ FailedOrdered'
  <2>1. /\ results' = results /\ id_to_key' = id_to_key /\ next_id' = next_id
        /\ unique_stacks' = unique_stacks /\ dropped_order' = dropped_order
        /\ result_order' = result_order /\ failed' = failed
    BY <1>1, Zenon DEF cacheVars
  <2>2. MemoryInv'
    BY <1>2, <2>1 DEF MemoryInv
  <2>3. DedupExact'
    BY <1>2, <2>1, Zenon DEF DedupExact
  <2>4. FailedOrdered'
    BY <2>1, Zenon DEF FailedOrdered, IInv, CacheInv
  <2> QED BY <2>2, <2>3, <2>4, Zenon
<1> QED BY <1>4, <1>6, <1>7, Zenon DEF IInv, TypeOK, CacheInv

(* What the worker gives up on is every pending id, oldest first. *)
LEMMA DoomedFacts ==
    ASSUME IInv, worker = "mark",
           NEW doomed, doomed = <<item.id>> \o [n \in DOMAIN queue |-> queue[n].id]
    PROVE  /\ doomed \in Seq(Ids)
           /\ \A m, n \in DOMAIN doomed : m < n => doomed[m] < doomed[n]
           /\ \A i \in Ids : i \in Members(doomed) <=> results[i].state = "pending"
<1> USE DEF IInv, TypeOK, CacheInv
<1> DEFINE ids == [n \in DOMAIN queue |-> queue[n].id]
<1>1. item.id \in Ids /\ \A n \in DOMAIN queue : queue[n].id \in Ids
  BY WorkIds, Zenon
<1>2. ids \in Seq(Ids) /\ Len(ids) = Len(queue) /\ Len(queue) \in Nat /\ DOMAIN queue = 1..Len(queue)
      /\ \A n \in 1..Len(queue) : ids[n] = queue[n].id
  <2>1. Len(queue) \in Nat /\ DOMAIN queue = 1..Len(queue)
    BY DEF CacheTypeOK
  <2>2. ids \in [1..Len(queue) -> Ids]
    BY <1>1, <2>1, Zenon
  <2> QED BY <2>1, <2>2
<1> HIDE DEF ids
<1>3. /\ doomed \in Seq(Ids) /\ DOMAIN doomed = 1..(Len(queue) + 1) /\ doomed[1] = item.id
      /\ \A n \in 1..Len(queue) : doomed[n + 1] = queue[n].id
  BY <1>1, <1>2 DEF ids
<1>4. ASSUME NEW m \in DOMAIN doomed, NEW n \in DOMAIN doomed, m < n
      PROVE  doomed[m] < doomed[n]
  <2>1. n - 1 \in 1..Len(queue) /\ doomed[n] = queue[n - 1].id
    BY <1>2, <1>3, <1>4
  <2>2. CASE m = 1
    BY <1>2, <1>3, <2>1, <2>2, Zenon DEF QueueInv
  <2>3. CASE m > 1
    <3>1. m - 1 \in 1..Len(queue) /\ doomed[m] = queue[m - 1].id /\ m - 1 < n - 1
      BY <1>2, <1>3, <1>4, <2>3
    <3> QED BY <1>2, <2>1, <3>1 DEF QueueInv
  <2> QED BY <1>2, <1>3, <2>2, <2>3
<1>5. ASSUME NEW i \in Ids
      PROVE  i \in Members(doomed) <=> results[i].state = "pending"
  <2>1. ASSUME results[i].state = "pending" PROVE i \in Members(doomed)
    <3>1. CASE item.id = i
      <4>1. 1 \in DOMAIN doomed /\ doomed[1] = i
        BY <1>2, <1>3, <3>1
      <4> QED BY <4>1, Zenon DEF Members
    <3>2. ASSUME NEW n \in DOMAIN queue, queue[n].id = i PROVE i \in Members(doomed)
      <4>1. n + 1 \in DOMAIN doomed /\ doomed[n + 1] = i
        BY <1>2, <1>3, <3>2
      <4> QED BY <4>1, Zenon DEF Members
    <3> QED BY <2>1, <3>1, <3>2, Zenon DEF QueueInv
  <2>2. ASSUME NEW m \in DOMAIN doomed, doomed[m] = i PROVE results[i].state = "pending"
    <3>1. CASE m = 1
      BY <1>3, <2>2, <3>1, Zenon DEF QueueInv
    <3>2. CASE m # 1
      <4>1. m - 1 \in DOMAIN queue /\ queue[m - 1].id = i
        BY <1>2, <1>3, <2>2, <3>2
      <4> QED BY <4>1, Zenon DEF QueueInv
    <3> QED BY <3>1, <3>2, Zenon
  <2> QED BY <2>1, <2>2, Zenon DEF Members
<1> QED BY <1>3, <1>4, <1>5, Zenon

(* Failing everything that was accepted keeps the invariant. *)
LEMMA UnmarkedInv == IInv /\ WorkerUnmarked => IInv'
<1> SUFFICES ASSUME IInv, WorkerUnmarked PROVE IInv'
  BY Zenon
<1> USE DEF IInv, TypeOK, CacheInv
<1> DEFINE doomed == <<item.id>> \o [n \in DOMAIN queue |-> queue[n].id]
<1>1. /\ worker = "mark"
      /\ results' = [i \in Ids |-> IF i \in Members(doomed) /\ results[i] # NoResult
                                   THEN [results[i] EXCEPT !.state = "failed"]
                                   ELSE results[i]]
      /\ failed' = doomed
      /\ queue' = << >> /\ item' = NoItem /\ stopping' = TRUE /\ worker' = "failCallbacks"
      /\ UNCHANGED <<next_id, unique_stacks, id_to_key, result_order, dropped_order, modules,
                     completed, joined>>
  BY Zenon DEF WorkerUnmarked, lifeVars
<1>2. /\ doomed \in Seq(Ids)
      /\ \A m, n \in DOMAIN doomed : m < n => doomed[m] < doomed[n]
      /\ \A i \in Ids : i \in Members(doomed) <=> results[i].state = "pending"
  BY <1>1, DoomedFacts, Zenon
<1> HIDE DEF doomed
<1>3. \A i \in Ids : IF results[i].state = "pending"
                     THEN /\ results'[i] \in Results /\ results'[i].state = "failed"
                          /\ results'[i].raw = results[i].raw
                     ELSE results'[i] = results[i]
  <2> SUFFICES ASSUME NEW i \in Ids
               PROVE  IF results[i].state = "pending"
                      THEN /\ results'[i] \in Results /\ results'[i].state = "failed"
                           /\ results'[i].raw = results[i].raw
                      ELSE results'[i] = results[i]
    BY Zenon
  <2>1. CASE results[i].state = "pending"
    <3>1. results[i] # NoResult /\ results[i] \in Results
      BY <2>1, NoneIsNoResult, Zenon
    <3>2. results'[i] = [results[i] EXCEPT !.state = "failed"]
      BY <1>1, <1>2, <2>1, <3>1, Zenon
    <3> QED BY <2>1, <3>1, <3>2, Zenon DEF Results
  <2>2. CASE results[i].state # "pending"
    BY <1>1, <1>2, <2>2, Zenon
  <2> QED BY <2>1, <2>2, Zenon
<1>4. RegistryTypeOK' /\ LifeTypeOK' /\ CacheTypeOK' /\ WorkTypeOK'
  <2>1. RegistryTypeOK'
    BY RegistryTypeStutter, Zenon DEF WorkerUnmarked
  <2>2. LifeTypeOK'
    BY <1>1, Zenon DEF LifeTypeOK, WorkerUnmarked, lifeVars
  <2>3. results' \in [Ids -> Results \cup {NoResult}]
    <3>1. \A i \in Ids : results'[i] \in Results \cup {NoResult}
      BY <1>3, Zenon DEF CacheTypeOK
    <3>2. results' = [i \in Ids |-> results'[i]]
      BY <1>1, Zenon
    <3> QED BY <3>1, <3>2, Zenon
  <2>4. CacheTypeOK' /\ WorkTypeOK'
    BY <1>1, <1>2, <2>3 DEF CacheTypeOK, WorkTypeOK
  <2> QED BY <2>1, <2>2, <2>4, Zenon
<1>5. WorkInv'
  BY <1>1, Zenon DEF WorkInv
<1>6. QueueInv'
  <2>1. \A i \in Ids : results'[i].state # "pending"
    BY <1>3, Zenon
  <2>2. DOMAIN queue' = {}
    BY <1>1
  <2> QED BY <1>1, <2>1, <2>2, Zenon DEF QueueInv
<1>7. MemoryInv'
  <2>1. Members(dropped_order) \subseteq Ids /\ Members(result_order) \subseteq Ids
    BY DEF CacheTypeOK, Members
  <2>2. \A i \in Ids : results'[i] # NoResult => i < next_id
    BY <1>3 DEF MemoryInv, NoResult
  <2> QED BY <1>1, <1>3, <2>1, <2>2, Zenon DEF MemoryInv
<1>8. DedupExact'
  <2>1. \A k \in Keys : unique_stacks[k] # NoId => unique_stacks[k] \in Ids
    BY Zenon DEF CacheTypeOK
  <2>2. \A i \in Ids : results'[i].raw = results[i].raw
    BY <1>3, Zenon
  <2>3. ASSUME NEW k \in Keys, unique_stacks[k] # NoId
        PROVE  /\ results'[unique_stacks[k]].raw = k /\ id_to_key[unique_stacks[k]] = k
               /\ results'[unique_stacks[k]].state # "dropped"
    BY <1>3, <2>1, <2>2, <2>3, Zenon DEF DedupExact
  <2>4. ASSUME NEW i \in Ids, results'[i].state \notin {"none", "dropped"}
        PROVE  unique_stacks[results'[i].raw] = i
    BY <1>3, <2>2, <2>4, Zenon DEF DedupExact
  <2> QED BY <1>1, <2>3, <2>4 DEF DedupExact
<1>9. FailedOrdered'
  BY <1>1, <1>2, Zenon DEF FailedOrdered
<1> QED BY <1>4, <1>5, <1>6, <1>7, <1>8, <1>9, Zenon
================================================================================
