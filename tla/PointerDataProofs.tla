--------------------------- MODULE PointerDataProofs ---------------------------
(***************************************************************************)
(* What one step of the tracker (module PointerData) does to the books,    *)
(* for any threads, addresses, shards, stacks and sizes: what the thread   *)
(* knows of its shard, its locals and its record, which bytes each counter *)
(* holds for which address, which stack references change hands, and how   *)
(* the peaks follow.  Module AccountingProofs adds the handlers' own steps *)
(* and module BooksProofs the sums over all addresses and threads.         *)
(***************************************************************************)
EXTENDS PointerData, TLAPS

-------------------------------------------------------------------------------
(* Types, with the counters and what is computed from them left signed *)

AnyCalls == [op : {"none", "alloc", "free", "realloc", "munmap", "mremap"},
             ptr : Keys \cup {NoKey}, old : Keys \cup {NoKey},
             size : Nat, type : MemTypes, hash_index : Nat,
             displaced : Records \cup {NoRecord}, previous : Records \cup {NoRecord},
             delta : Int, total : Int]

Slots == Records \cup {NoRecord}

Signed == [used : Int, host : Int, dma : Int]

TrackerOK ==
    /\ pointers \in [Keys -> Records \cup {NoRecord}]
    /\ shardMutex \in [Shards -> Threads \cup {NoThread}]
    /\ current \in Signed
    /\ peak \in Signed
    /\ pc \in [Threads -> Labels]
    /\ call \in [Threads -> AnyCalls]

(* The stack table is well formed: indices start past the empty index and below
   the next one to hand out, and every frame has a reference. *)
FramesOK ==
    /\ key_to_index \in [Stacks -> Nat]
    /\ cur_hash_index \in Nat /\ cur_hash_index >= 2
    /\ DOMAIN frames \subseteq 2..(cur_hash_index - 1)
    /\ \A i \in DOMAIN frames : frames[i] \in [references : Nat \ {0}, stack : Stacks]

FrameInv == FramesOK /\ KeysNameFrames

-------------------------------------------------------------------------------
(* What a thread knows at its label *)

AddLabels == {"undoType", "addUsed", "addType", "addPeak"}
RemapLabels == {"remapUndoType", "remapUsed", "remapType", "remapPeak"}
LockedLabels == AddLabels \cup RemapLabels \cup {"takeType", "restoreType"}
SnapLabels == {"snapshot", "snapActive", "snapClaim", "snapRecheck", "snapLocked",
               "snapRelease"}

(* The shards it holds. *)
ShardsHeld(t) ==
    /\ pc[t] \in LockedLabels => shardMutex[ShardFor[call[t].ptr]] = t
    /\ pc[t] \in RemapLabels => shardMutex[ShardFor[call[t].old]] = t

(* The locals that are set, and the stack references that are not. *)
LocalsSet(t) ==
    /\ pc[t] = "idle" => call[t] = NoCall
    /\ pc[t] # "idle" => call[t].ptr \in Keys
    /\ pc[t] \in RemapLabels \cup {"remap"} => call[t].old \in Keys
    /\ pc[t] \in RemapLabels => call[t].size - call[t].delta \in Nat
    /\ pc[t] \in {"take", "done"} => call[t].previous = NoRecord
    /\ pc[t] \in {"takeType", "restore", "restoreType"} => call[t].previous # NoRecord
    /\ pc[t] \in {"undoType", "remapUndoType"} => call[t].displaced # NoRecord
    /\ call[t].displaced # NoRecord =>
          pc[t] \in AddLabels \cup RemapLabels \cup SnapLabels \cup {"dropDisplaced"}

(* The record it makes. *)
Made(t) == [size |-> call[t].size, hash_index |-> call[t].hash_index, mem_type |-> call[t].type]

(* The records at the addresses it works on. *)
RecordsKnown(t) ==
    LET c == call[t] IN
    /\ pc[t] \in {"undoType", "remapUndoType"} => pointers[c.ptr] = c.displaced
    /\ pc[t] \in {"addUsed", "remapUsed", "taken", "restore"} => pointers[c.ptr] = NoRecord
    /\ pc[t] \in {"remapUndoType", "remapUsed"} => pointers[c.old] = NoRecord
    /\ pc[t] \in {"takeType", "restoreType"} => pointers[c.ptr] = c.previous
    /\ pc[t] \in {"addType", "remapType"} => pointers[c.ptr] = Made(t)

Knows(t) == ShardsHeld(t) /\ LocalsSet(t) /\ RecordsKnown(t)

-------------------------------------------------------------------------------
(* What a step of thread t does to the other threads *)

OthersKept(t) == \A u \in Threads : u # t => pc'[u] = pc[u] /\ call'[u] = call[u]

(* A shard is taken when free and given up by its holder. *)
ShardStep(t) ==
    \A s \in Shards : \/ shardMutex'[s] = shardMutex[s]
                      \/ shardMutex[s] \in {NoThread, t} /\ shardMutex'[s] \in {NoThread, t}

(* A record is written by a thread that holds its shard or finds it free, and
   made only at the address the thread's call is about. *)
RecordStep(t) ==
    \A k \in Keys : \/ pointers'[k] = pointers[k]
                    \/ /\ shardMutex[ShardFor[k]] \in {NoThread, t}
                       /\ \/ pointers'[k] = NoRecord
                          \/ k = call[t].ptr /\ pc[t] \notin {"idle", "added", "done"}

-------------------------------------------------------------------------------
(* The bytes a counter holds for an address: those of the record there, except
   while the thread that holds the shard is between two updates. *)

Worker(k) == shardMutex[ShardFor[k]]

Of(n, type, size) == IF Counter(type) = n THEN size ELSE 0
SizeAt(k) == IF pointers[k] = NoRecord THEN 0 ELSE pointers[k].size
TypeAt(k, n) ==
    IF pointers[k] = NoRecord THEN 0 ELSE Of(n, pointers[k].mem_type, pointers[k].size)

(* What Remap still counts for the record it is moving. *)
Moving(t) == call[t].size - call[t].delta

UsedBy(t, k) ==
    IF call[t].ptr = k /\ pc[t] \in {"undoType", "takeType", "remapUndoType"} THEN 0
    ELSE IF call[t].old = k /\ pc[t] \in {"remapUndoType", "remapUsed"} THEN Moving(t)
    ELSE SizeAt(k)

TypedBy(t, k, n) ==
    IF call[t].ptr = k /\ pc[t] \in {"addType", "restoreType"} THEN 0
    ELSE IF \/ call[t].old = k /\ pc[t] \in {"remapUndoType", "remapUsed"}
            \/ call[t].ptr = k /\ pc[t] = "remapType"
    THEN Of(n, call[t].type, Moving(t))
    ELSE TypeAt(k, n)

Used(k) == IF Worker(k) \in Threads THEN UsedBy(Worker(k), k) ELSE SizeAt(k)
Typed(k, n) == IF Worker(k) \in Threads THEN TypedBy(Worker(k), k, n) ELSE TypeAt(k, n)

(* The charge of k stays as it is; the counters follow the charge of x. *)
Kept(k) == Used(k)' = Used(k) /\ \A n : Typed(k, n)' = Typed(k, n)
Counted(x) ==
    /\ current'.used = current.used + (Used(x)' - Used(x))
    /\ current'.host = current.host + (Typed(x, "host")' - Typed(x, "host"))
    /\ current'.dma = current.dma + (Typed(x, "dma")' - Typed(x, "dma"))

(* A step changes no charge, one, or moves one from x to y. *)
ChargeNone == UNCHANGED current /\ \A k \in Keys : Kept(k)
ChargeOne(x) == Counted(x) /\ \A k \in Keys : k # x => Kept(k)
ChargeTwo(x, y) ==
    /\ x # y /\ \A k \in Keys : k \notin {x, y} => Kept(k)
    /\ current'.used = current.used + (Used(x)' - Used(x)) + (Used(y)' - Used(y))
    /\ current'.host = current.host /\ current'.dma = current.dma
    /\ \A n : Typed(x, n)' - Typed(x, n) = Typed(y, n) - Typed(y, n)'
Charged ==
    \/ ChargeNone
    \/ \E x \in Keys : ChargeOne(x)
    \/ \E x \in Keys, y \in Keys : ChargeTwo(x, y)

OnlyAt(x) == \A k \in Keys : k # x => pointers'[k] = pointers[k]

UsedMoves(n) ==
    current'.used = current.used + n /\ current'.host = current.host /\ current'.dma = current.dma
TypeMoves(type, n) ==
    /\ current'.used = current.used
    /\ current'.host = current.host + Of("host", type, n)
    /\ current'.dma = current.dma + Of("dma", type, n)

(* Thread t is between two updates of the charge of k. *)
ChargeLabels == {"undoType", "takeType", "remapUndoType", "addType", "restoreType",
                 "remapType", "remapUsed"}
Touches(t, k) ==
    \/ call[t].ptr = k /\ pc[t] \in ChargeLabels \ {"remapUsed"}
    \/ call[t].old = k /\ pc[t] \in {"remapUndoType", "remapUsed"}

(* A step charges no address its thread does not work on. *)
LEMMA ChargeElsewhere ==
    ASSUME NEW t, OthersKept(t), ShardStep(t), NEW k \in Keys,
           pointers'[k] = pointers[k], t \in Threads => ~Touches(t, k) /\ ~Touches(t, k)'
    PROVE  Kept(k)
  <1>1. SizeAt(k)' = SizeAt(k) /\ \A n : TypeAt(k, n)' = TypeAt(k, n)
    BY Zenon DEF SizeAt, TypeAt
  <1>2. ShardFor[k] \in Shards
    BY ShardForAssumption, Zenon
  <1>3. CASE Worker(k) \in Threads /\ Worker(k) # t
    <2> DEFINE u == Worker(k)
    <2>1. u' = u
      BY <1>2, <1>3, ThreadsAssumption, Zenon DEF ShardStep, Worker
    <2>2. pc'[u] = pc[u] /\ call'[u] = call[u]
      BY <1>3, Zenon DEF OthersKept
    <2>3. UsedBy(u, k)' = UsedBy(u, k) /\ \A n : TypedBy(u, k, n)' = TypedBy(u, k, n)
      BY <1>1, <2>1, <2>2, Zenon DEF UsedBy, TypedBy, Moving
    <2> QED
      BY <1>3, <2>1, <2>3, Zenon DEF Kept, Used, Typed
  <1>4. CASE ~(Worker(k) \in Threads /\ Worker(k) # t)
    <2>1. Worker(k) \in Threads => Worker(k) = t
      BY <1>4, Zenon
    <2>2. Worker(k)' \in Threads => Worker(k)' = t
      BY <1>2, <2>1, ThreadsAssumption, Zenon DEF ShardStep, Worker
    <2>3. t \in Threads => /\ UsedBy(t, k) = SizeAt(k) /\ UsedBy(t, k)' = SizeAt(k)'
                           /\ \A n : /\ TypedBy(t, k, n) = TypeAt(k, n)
                                     /\ TypedBy(t, k, n)' = TypeAt(k, n)'
      BY Zenon DEF UsedBy, TypedBy, Touches, ChargeLabels
    <2> QED
      BY <1>1, <2>1, <2>2, <2>3, Zenon DEF Kept, Used, Typed
  <1> QED
    BY <1>3, <1>4, Zenon

-------------------------------------------------------------------------------
(* The references of the stacks and the peaks, over one step of thread t *)

RefsOf(i) == IF i \in DOMAIN frames THEN frames[i].references ELSE 0

(* A reference to i changes hands, is taken or is given up at one address. *)
Referenced(t) ==
    \E x \in Keys :
        /\ OnlyAt(x)
        /\ \A i \in Nat \ {0, 1} :
              (Recorded(x, i)' + Holds(t, i)') - RefsOf(i)'
                = (Recorded(x, i) + Holds(t, i)) - RefsOf(i)

(* The stacks that calls hold a reference to are in the table. *)
HoldersCounted ==
    \A t \in Threads : \A i \in Nat \ {0, 1} : Holds(t, i) # 0 => i \in DOMAIN frames

RaisingLabels == {"addType", "addPeak", "remapType", "remapPeak"}

(* A restored record raises no peak. *)
RestoreLabels == {"restore", "restoreType"}
RestoreStays(t) == pc'[t] \in RestoreLabels => pc[t] \in RestoreLabels

(* A counter rises with its peak or under a call that is about to raise it. *)
Peaked(t) ==
    /\ call'[t].total \in {call[t].total, current'.used, 0}
    /\ peak'.used \in {peak.used, call[t].total} /\ peak'.used >= peak.used
    /\ peak'.host \in {peak.host, current'.host} /\ peak'.host >= peak.host
    /\ peak'.dma \in {peak.dma, current'.dma} /\ peak'.dma >= peak.dma
    /\ pc[t] \notin RestoreLabels =>
          /\ current'.host <= current.host \/ current'.host <= peak'.host
          /\ current'.dma <= current.dma \/ current'.dma <= peak'.dma
          /\ \/ /\ current'.used <= current.used
                /\ pc[t] \in RaisingLabels =>
                      \/ call[t].total <= peak'.used
                      \/ pc'[t] \in RaisingLabels /\ call'[t].total = call[t].total
             \/ pc'[t] \in RaisingLabels /\ call'[t].total = current'.used

(* The locals that the books use stay as they are: what is being recorded, and
   the records in the thread's hands. *)
SameTarget(t) ==
    /\ call'[t].ptr = call[t].ptr /\ call'[t].old = call[t].old /\ call'[t].size = call[t].size
    /\ call'[t].type = call[t].type /\ call'[t].hash_index = call[t].hash_index
    /\ call'[t].delta = call[t].delta
SameLocals(t) ==
    /\ SameTarget(t)
    /\ call'[t].displaced = call[t].displaced /\ call'[t].previous = call[t].previous

(* What every step of thread t establishes. *)
Progress(t) ==
    /\ TrackerOK' /\ Knows(t)'
    /\ OthersKept(t) /\ ShardStep(t) /\ RecordStep(t)
    /\ Charged /\ Referenced(t) /\ Peaked(t) /\ RestoreStays(t)

(* The references a thread holds are zero or one for each local. *)
LEMMA RefTypes ==
    ASSUME FrameInv
    PROVE  \A i : /\ RefsOf(i) \in Int
                  /\ \A k : Recorded(k, i) \in Int
                  /\ \A t : Adding(t, i) \in Int /\ Displaced(t, i) \in Int /\ Detached(t, i) \in Int
  <1>1. \A i : RefsOf(i) \in Int
    BY DEF FrameInv, FramesOK, RefsOf
  <1> QED
    BY <1>1 DEF Recorded, Adding, Displaced, Detached, One

(* References change hands with the stack table left alone. *)
LEMMA RefMoves ==
    ASSUME FrameInv, NEW t, NEW x \in Keys, OnlyAt(x), UNCHANGED frames,
           \A i \in Nat \ {0, 1} :
              Recorded(x, i)' + (Adding(t, i)' + Displaced(t, i)' + Detached(t, i)')
                = Recorded(x, i) + (Adding(t, i) + Displaced(t, i) + Detached(t, i))
    PROVE  Referenced(t)
  <1>1. ASSUME NEW i \in Nat \ {0, 1}
        PROVE  (Recorded(x, i)' + Holds(t, i)') - RefsOf(i)'
                = (Recorded(x, i) + Holds(t, i)) - RefsOf(i)
    <2>1. RefsOf(i)' = RefsOf(i)
      BY Zenon DEF RefsOf
    <2>2. Recorded(x, i)' + Holds(t, i)' = Recorded(x, i) + Holds(t, i)
      BY Zenon DEF Holds
    <2> QED
      BY <2>1, <2>2, Zenon
  <1> QED
    BY <1>1, Zenon DEF Referenced

(* A step that leaves the tracker alone between two updates leaves its charges,
   its references and its peaks alone. *)
LEMMA PlainStep ==
    ASSUME FrameInv, NEW t \in Threads, NEW x \in Keys, OthersKept(t), ShardStep(t),
           UNCHANGED <<pointers, current, peak, frames>>, current \in Signed, peak \in Signed,
           pc[t] \notin ChargeLabels \cup RaisingLabels, pc'[t] \notin ChargeLabels,
           call'[t].total \in {call[t].total, 0},
           \A i : /\ Adding(t, i)' = Adding(t, i) /\ Displaced(t, i)' = Displaced(t, i)
                  /\ Detached(t, i)' = Detached(t, i)
    PROVE  Charged /\ Referenced(t) /\ Peaked(t)
  <1>1. Charged
    <2>1. \A k \in Keys : ~Touches(t, k) /\ ~Touches(t, k)'
      BY Zenon DEF Touches, ChargeLabels
    <2> QED
      BY <2>1, ChargeElsewhere, Zenon DEF Charged, ChargeNone
  <1>2. Referenced(t)
    <2>1. OnlyAt(x) /\ \A i : Recorded(x, i)' = Recorded(x, i)
      BY Zenon DEF OnlyAt, Recorded
    <2> QED
      BY <2>1, RefMoves, Zenon
  <1>3. Peaked(t)
    BY DEF Peaked, Signed
  <1> QED
    BY <1>1, <1>2, <1>3, Zenon

(* A local of a call is set to a value of its type. *)
LEMMA LocalTyped ==
    ASSUME NEW c \in AnyCalls
    PROVE  /\ \A v \in Nat : [c EXCEPT !.hash_index = v] \in AnyCalls
           /\ \A v \in MemTypes : [c EXCEPT !.type = v] \in AnyCalls
           /\ \A v \in Int : /\ [c EXCEPT !.delta = v] \in AnyCalls
                            /\ [c EXCEPT !.total = v] \in AnyCalls
           /\ \A v \in Slots : /\ [c EXCEPT !.displaced = v] \in AnyCalls
                              /\ [c EXCEPT !.previous = v] \in AnyCalls
  BY DEF AnyCalls, Slots

(* The same, in the calls of all threads. *)
LEMMA CallTyped ==
    ASSUME NEW f \in [Threads -> AnyCalls], NEW t \in Threads
    PROVE  /\ \A v \in Nat : [f EXCEPT ![t].hash_index = v] \in [Threads -> AnyCalls]
           /\ \A v \in MemTypes : [f EXCEPT ![t].type = v] \in [Threads -> AnyCalls]
           /\ \A v \in Int : /\ [f EXCEPT ![t].delta = v] \in [Threads -> AnyCalls]
                            /\ [f EXCEPT ![t].total = v] \in [Threads -> AnyCalls]
           /\ \A v \in Slots :
                 /\ [f EXCEPT ![t].displaced = v] \in [Threads -> AnyCalls]
                 /\ [f EXCEPT ![t].previous = v] \in [Threads -> AnyCalls]
  <1>1. f[t] \in AnyCalls
    BY Zenon
  <1> QED
    BY <1>1, LocalTyped, Zenon

(* One address is charged, and the counters follow it. *)
LEMMA ChargesOne ==
    ASSUME NEW t \in Threads, NEW x \in Keys, OthersKept(t), ShardStep(t), OnlyAt(x),
           call[t].ptr = x, call'[t].ptr = x, Counted(x),
           pc[t] \notin {"remapUndoType", "remapUsed"}, pc'[t] \notin {"remapUndoType", "remapUsed"}
    PROVE  Charged
  <1>1. \A k \in Keys : k # x => ~Touches(t, k) /\ ~Touches(t, k)'
    BY Zenon DEF Touches
  <1>2. \A k \in Keys : k # x => Kept(k)
    BY <1>1, ChargeElsewhere, Zenon DEF OnlyAt
  <1> QED
    BY <1>2, Zenon DEF Charged, ChargeOne

(* The numbers a step of thread t computes with. *)
Numbers(t) ==
    /\ current.used \in Int /\ current.host \in Int /\ current.dma \in Int
    /\ peak.used \in Int /\ peak.host \in Int /\ peak.dma \in Int
    /\ call[t].size \in Nat /\ call[t].delta \in Int /\ call[t].total \in Int
    /\ call[t].hash_index \in Nat /\ call[t].type \in MemTypes

(* The records it works on. *)
Slotted(t) ==
    /\ \A k \in Keys : pointers[k] # NoRecord => pointers[k] \in Records
    /\ call[t].displaced # NoRecord => call[t].displaced \in Records
    /\ call[t].previous # NoRecord => call[t].previous \in Records

(* The record a call makes is one, with the call's size, stack and type. *)
LEMMA MadeTyped ==
    ASSUME NEW t, Numbers(t)
    PROVE  /\ Made(t) \in Records
           /\ Made(t).size = call[t].size /\ Made(t).hash_index = call[t].hash_index
           /\ Made(t).mem_type = call[t].type
  BY Zenon DEF Made, Numbers, Records

(* A step of current_used. *)
LEMMA UsedCounted ==
    ASSUME current \in Signed, NEW n \in Int
    PROVE  /\ current' = [current EXCEPT !.used = @ + n] => UsedMoves(n) /\ current' \in Signed
           /\ current' = [current EXCEPT !.used = @ - n] => UsedMoves(0 - n) /\ current' \in Signed
  BY DEF Signed, UsedMoves

(* A step of the counter of a memory type. *)
LEMMA TypeCounted ==
    ASSUME current \in Signed, NEW type \in MemTypes, NEW n \in Int
    PROVE  /\ current' = [current EXCEPT ![Counter(type)] = @ + n] =>
                 TypeMoves(type, n) /\ current' \in Signed
           /\ current' = [current EXCEPT ![Counter(type)] = @ - n] =>
                 TypeMoves(type, 0 - n) /\ current' \in Signed
  BY DEF Signed, TypeMoves, Counter, Of

(* The counters of the memory types rise with their peaks. *)
TypesPeaked ==
    /\ peak'.used = peak.used /\ peak'.host >= peak.host /\ peak'.dma >= peak.dma
    /\ peak'.host \in {peak.host, current'.host} /\ peak'.dma \in {peak.dma, current'.dma}
    /\ current'.host <= current.host \/ current'.host <= peak'.host
    /\ current'.dma <= current.dma \/ current'.dma <= peak'.dma

(* So they do when growth raises the peak of the counter that grows. *)
LEMMA TypeRaised ==
    ASSUME current \in Signed, peak \in Signed, NEW type \in MemTypes, NEW d \in Int,
           current' = [current EXCEPT ![Counter(type)] = @ + d],
           \/ /\ d >= 0
              /\ peak' = [peak EXCEPT ![Counter(type)] =
                            RaisePeak(Counter(type), current[Counter(type)] + d)]
           \/ d < 0 /\ peak' = peak
    PROVE  TypesPeaked /\ peak' \in Signed
  <1>1. CASE Counter(type) = "host"
    BY <1>1 DEF Signed, RaisePeak, TypesPeaked
  <1>2. CASE Counter(type) = "dma"
    BY <1>2 DEF Signed, RaisePeak, TypesPeaked
  <1> QED
    BY <1>1, <1>2, Zenon DEF Counter

(* They are numbers in a state of the types above. *)
LEMMA NumbersTyped ==
    ASSUME TrackerOK, NEW t \in Threads
    PROVE  Numbers(t) /\ Slotted(t)
  <1>1. call[t] \in AnyCalls
    BY Zenon DEF TrackerOK
  <1> QED
    BY <1>1, Zenon DEF TrackerOK, Signed, AnyCalls, Numbers, Slotted

-------------------------------------------------------------------------------
(* The stack table *)

(* AddBacktrace, new stack or repeated, keeps the key and frame tables in step. *)
LEMMA FrameAdd ==
    ASSUME FrameInv, NEW t \in Threads, AddBacktrace(t)
    PROVE  FrameInv'
  <1> USE DEF FrameInv, FramesOK, KeysNameFrames
  <1>1. PICK raw \in Stacks \cup {NoStack} :
          \/ raw = NoStack /\ UNCHANGED frameVars
          \/ /\ raw # NoStack /\ key_to_index[raw] = 0
             /\ cur_hash_index' = cur_hash_index + 1
             /\ frames' = [i \in DOMAIN frames \cup {cur_hash_index} |->
                             IF i = cur_hash_index
                             THEN [references |-> 1, stack |-> raw] ELSE frames[i]]
             /\ key_to_index' = [key_to_index EXCEPT ![raw] = cur_hash_index]
          \/ /\ raw # NoStack /\ key_to_index[raw] # 0
             /\ frames' = [frames EXCEPT ![key_to_index[raw]].references = @ + 1]
             /\ UNCHANGED <<key_to_index, cur_hash_index>>
    BY Zenon DEF AddBacktrace
  <1>2. CASE raw = NoStack
    BY <1>1, <1>2, Zenon DEF frameVars
  <1>3. CASE raw # NoStack /\ key_to_index[raw] = 0
    <2>1. FramesOK'
      BY <1>1, <1>3
    <2>2. KeysNameFrames'
      BY <1>1, <1>3
    <2> QED
      BY <2>1, <2>2, Zenon
  <1>4. CASE raw # NoStack /\ key_to_index[raw] # 0
    <2>1. /\ DOMAIN frames' = DOMAIN frames
          /\ \A i \in DOMAIN frames :
                /\ frames'[i] \in [references : Nat \ {0}, stack : Stacks]
                /\ frames'[i].stack = frames[i].stack
      BY <1>1, <1>4
    <2> QED
      BY <1>1, <1>4, <2>1, Zenon
  <1> QED
    BY <1>2, <1>3, <1>4, Zenon

(* RemoveBacktrace, last reference or not, keeps the key and frame tables in step. *)
LEMMA FrameRemove ==
    ASSUME FrameInv, NEW index, RemoveBacktrace(index)
    PROVE  FrameInv'
  <1> USE DEF FrameInv, FramesOK, KeysNameFrames
  <1>1. CASE UNCHANGED frameVars
    BY <1>1, Zenon DEF frameVars
  <1>2. CASE index \in DOMAIN frames /\ frames[index].references = 1 /\ ~UNCHANGED frameVars
    BY <1>2 DEF RemoveBacktrace
  <1>3. CASE index \in DOMAIN frames /\ frames[index].references # 1 /\ ~UNCHANGED frameVars
    <2>1. /\ DOMAIN frames' = DOMAIN frames
          /\ \A i \in DOMAIN frames :
                /\ frames'[i] \in [references : Nat \ {0}, stack : Stacks]
                /\ frames'[i].stack = frames[i].stack
      BY <1>3 DEF RemoveBacktrace
    <2>2. UNCHANGED <<key_to_index, cur_hash_index>>
      BY <1>3, Zenon DEF RemoveBacktrace
    <2> QED
      BY <2>1, <2>2, Zenon
  <1> QED
    BY <1>1, <1>2, <1>3, Zenon DEF RemoveBacktrace

(* AddBacktrace sets the call's index and adds the reference it stands for. *)
LEMMA AddedRefs ==
    ASSUME FrameInv, NEW t \in Threads, AddBacktrace(t)
    PROVE  \E h \in Nat : /\ call' = [call EXCEPT ![t].hash_index = h]
                          /\ \A i \in Nat \ {0, 1} : RefsOf(i)' = RefsOf(i) + One(h = i)
  <1>1. PICK raw \in Stacks \cup {NoStack} :
          \/ /\ raw = NoStack /\ UNCHANGED frameVars
             /\ call' = [call EXCEPT ![t].hash_index = kBacktraceEmptyIndex]
          \/ /\ raw # NoStack /\ key_to_index[raw] = 0
             /\ call' = [call EXCEPT ![t].hash_index = cur_hash_index]
             /\ frames' = [i \in DOMAIN frames \cup {cur_hash_index} |->
                             IF i = cur_hash_index
                             THEN [references |-> 1, stack |-> raw] ELSE frames[i]]
          \/ /\ raw # NoStack /\ key_to_index[raw] # 0
             /\ call' = [call EXCEPT ![t].hash_index = key_to_index[raw]]
             /\ frames' = [frames EXCEPT ![key_to_index[raw]].references = @ + 1]
    BY Zenon DEF AddBacktrace
  <1>2. CASE raw = NoStack
    <2>1. /\ call' = [call EXCEPT ![t].hash_index = kBacktraceEmptyIndex]
          /\ frames' = frames
      BY <1>1, <1>2, Zenon DEF frameVars
    <2>2. \A i \in Nat \ {0, 1} : RefsOf(i)' = RefsOf(i) + One(kBacktraceEmptyIndex = i)
      BY <2>1 DEF RefsOf, One, kBacktraceEmptyIndex, FrameInv, FramesOK
    <2> QED
      BY <2>1, <2>2, Zenon DEF kBacktraceEmptyIndex
  <1>3. CASE raw # NoStack /\ key_to_index[raw] = 0
    <2>1. \A i \in Nat \ {0, 1} : RefsOf(i)' = RefsOf(i) + One(cur_hash_index = i)
      BY <1>1, <1>3 DEF RefsOf, One, FrameInv, FramesOK
    <2> QED
      BY <1>1, <1>3, <2>1, Zenon DEF FrameInv, FramesOK
  <1>4. CASE raw # NoStack /\ key_to_index[raw] # 0
    <2>1. PICK h \in DOMAIN frames : h = key_to_index[raw]
      BY <1>1, <1>4, Zenon DEF FrameInv, KeysNameFrames
    <2>2. \A i \in Nat \ {0, 1} : RefsOf(i)' = RefsOf(i) + One(h = i)
      BY <1>1, <1>4, <2>1 DEF RefsOf, One, FrameInv, FramesOK
    <2>3. h \in Nat /\ call' = [call EXCEPT ![t].hash_index = h]
      BY <1>1, <1>4, <2>1, Zenon DEF FrameInv, FramesOK
    <2> QED
      BY <2>2, <2>3, Zenon
  <1> QED
    BY <1>2, <1>3, <1>4, Zenon

(* RemoveBacktrace gives up one reference of a stack in the table. *)
LEMMA RemovedRefs ==
    ASSUME FrameInv, NEW index \in Nat, RemoveBacktrace(index)
    PROVE  \A i \in Nat \ {0, 1} :
              RefsOf(i)' = RefsOf(i) - One(index = i /\ i \in DOMAIN frames)
  <1>1. CASE index <= kBacktraceEmptyIndex \/ index \notin DOMAIN frames
    <2>1. frames' = frames
      BY <1>1, Zenon DEF RemoveBacktrace, frameVars
    <2> QED
      BY <1>1, <2>1 DEF RefsOf, One, kBacktraceEmptyIndex, FrameInv, FramesOK
  <1>2. CASE index > kBacktraceEmptyIndex /\ index \in DOMAIN frames
    <2>1. CASE frames[index].references = 1
      BY <1>2, <2>1 DEF RemoveBacktrace, RefsOf, One, kBacktraceEmptyIndex, FrameInv, FramesOK
    <2>2. CASE frames[index].references # 1
      BY <1>2, <2>2 DEF RemoveBacktrace, RefsOf, One, kBacktraceEmptyIndex, FrameInv, FramesOK
    <2> QED
      BY <2>1, <2>2, Zenon
  <1> QED
    BY <1>1, <1>2 DEF kBacktraceEmptyIndex

-------------------------------------------------------------------------------
(* Add *)

(* Every step of Add keeps the books of its thread. *)
LEMMA AddInv ==
    ASSUME FrameInv, TrackerOK, HoldersCounted, NEW t \in Threads, Knows(t),
           \/ AddBacktrace(t) \/ AddLock(t) \/ AddUndoType(t) \/ AddUsed(t)
           \/ AddType(t) \/ AddPeak(t) \/ DropDisplaced(t)
    PROVE  Progress(t)
  <1>1. Numbers(t) /\ Slotted(t)
    BY NumbersTyped, Zenon
  <1> USE <1>1
  (* The stack reference is taken before the shard. *)
  <1>2. CASE AddBacktrace(t)
    <2>1. PICK x \in Keys : x = call[t].ptr
      BY <1>2, Zenon DEF AddBacktrace, Knows, LocalsSet
    <2>2. /\ pc[t] = "add"
      BY <1>2, <2>1, Zenon DEF Knows, frameVars, AddBacktrace
    <2>3. PICK h \in Nat : /\ call' = [call EXCEPT ![t].hash_index = h]
                           /\ \A i \in Nat \ {0, 1} : RefsOf(i)' = RefsOf(i) + One(h = i)
      BY <1>2, AddedRefs, Zenon
    <2>4. /\ pc'[t] = "insert" /\ call'[t].total = call[t].total
          /\ call'[t].ptr = x /\ call'[t].old = call[t].old
          /\ call'[t].displaced = call[t].displaced /\ call'[t].previous = call[t].previous
          /\ call'[t].hash_index = h
          /\ pointers' = pointers /\ OnlyAt(x) /\ current' = current
      BY <1>2, <2>1, <2>2, <2>3 DEF TrackerOK, Goto, SameLocals, SameTarget, OnlyAt, Worker,
         AnyCalls, tableVars, AddBacktrace
    <2>5. peak' = peak /\ shardMutex' = shardMutex
      BY <1>2, <2>1, <2>2, Zenon DEF TrackerOK, Signed, tableVars, AddBacktrace
    <2>6. call' \in [Threads -> AnyCalls]
      <3>1. PICK v \in Nat : v = h
        BY Zenon DEF Numbers
      <3>2. call \in [Threads -> AnyCalls] /\ call' = [call EXCEPT ![t].hash_index = v]
        BY <1>2, <2>1, <2>3, <3>1, Zenon DEF TrackerOK, AddBacktrace
      <3>3. [call EXCEPT ![t].hash_index = v] \in [Threads -> AnyCalls]
        BY <3>1, <3>2, CallTyped, Zenon
      <3> QED
        BY <3>2, <3>3, Zenon
    <2> USE <1>2, <2>1, <2>2, <2>4, <2>5
    <2>7. TrackerOK'
      BY <2>6, Zenon DEF TrackerOK, tableVars, Goto, Labels, AddBacktrace
    <2>8. OthersKept(t) /\ ShardStep(t) /\ RecordStep(t)
      BY Zenon DEF TrackerOK, OthersKept, ShardStep, RecordStep, Worker, Goto, tableVars, AddBacktrace
    <2>9. Knows(t)'
      BY Zenon DEF SameLocals, SameTarget, Knows, ShardsHeld, LocalsSet, RecordsKnown, LockedLabels,
         AddLabels, RemapLabels, SnapLabels, Worker
    <2>10. Charged
      <3>1. \A k \in Keys : ~Touches(t, k) /\ ~Touches(t, k)'
        BY Zenon DEF Touches, ChargeLabels
      <3> QED
        BY <2>8, <3>1, ChargeElsewhere, Zenon DEF Charged, ChargeNone
    <2>11. Referenced(t)
      <3>1. \A i \in Nat \ {0, 1} :
              /\ Recorded(x, i)' = Recorded(x, i) /\ Adding(t, i) = 0 /\ Adding(t, i)' = One(h = i)
              /\ Displaced(t, i)' = Displaced(t, i) /\ Detached(t, i)' = Detached(t, i)
        BY Zenon DEF Recorded, Adding, Displaced, Detached, One
      <3> QED
        BY <2>3, <3>1, RefTypes DEF Referenced, Holds, One
    <2>12. Peaked(t) /\ RestoreStays(t)
      BY DEF Numbers, Peaked, RestoreStays, RestoreLabels, RaisingLabels, frameVars
    <2> QED
      BY <2>7, <2>8, <2>9, <2>10, <2>11, <2>12, Zenon DEF Progress
  (* The shard is taken and a record at the address is found. *)
  <1>3. CASE AddLock(t)
    <2>1. PICK x \in Keys : x = call[t].ptr
      BY <1>3, Zenon DEF AddLock, Knows, LocalsSet
    <2>2. /\ pc[t] = "insert" /\ call[t].displaced = NoRecord /\ Worker(x) = NoThread
          /\ SizeAt(x) \in Nat /\ \A n : TypeAt(x, n) \in Nat
      BY <1>3, <2>1, Zenon DEF Knows, LocalsSet, AddLabels, RemapLabels, SnapLabels, LockFree, Worker,
         SizeAt, TypeAt, Of, TrackerOK, Records, AddLock
    <2>3. /\ pc'[t] = IF pointers[x] = NoRecord THEN "addUsed" ELSE "undoType"
          /\ pointers' = pointers /\ OnlyAt(x) /\ Worker(x)' = t
          /\ peak' = peak /\ frames' = frames
      BY <1>3, <2>1, <2>2, ShardForAssumption, Zenon DEF TrackerOK, Goto, SameLocals, SameTarget,
         OnlyAt, Worker, Lock, frameVars, AddLock
    <2>4. \/ pointers[x] = NoRecord /\ call' = call
          \/ pointers[x] # NoRecord /\ call' = [call EXCEPT ![t].displaced = pointers[x]]
      BY <1>3, <2>1, Zenon DEF AddLock
    <2>5. /\ SameTarget(t) /\ call'[t].total = call[t].total
          /\ call'[t].displaced = pointers[x] /\ call'[t].previous = call[t].previous
      BY <2>2, <2>4 DEF TrackerOK, AnyCalls, SameTarget
    <2>6. UsedMoves(0 - SizeAt(x)) /\ current' \in Signed
      BY <1>3, <2>1, <2>2 DEF TrackerOK, Signed, Numbers, SizeAt, UsedMoves, AddLock
    <2>7. call' \in [Threads -> AnyCalls]
      <3>1. PICK v \in Slots : v = pointers[x]
        BY Zenon DEF TrackerOK, Numbers, Slots
      <3>2. call \in [Threads -> AnyCalls] /\ (call' = call \/ call' = [call EXCEPT ![t].displaced = v])
        BY <1>3, <2>1, <2>4, <3>1, Zenon DEF TrackerOK, frameVars
      <3>3. [call EXCEPT ![t].displaced = v] \in [Threads -> AnyCalls]
        BY <3>1, <3>2, CallTyped, Zenon
      <3> QED
        BY <3>2, <3>3, Zenon
    <2> USE <1>3, <2>1, <2>2, <2>3, <2>6, <2>5
    <2>8. TrackerOK'
      BY <2>7 DEF TrackerOK, Lock, Goto, Labels, AddLock
    <2>9. OthersKept(t) /\ ShardStep(t) /\ RecordStep(t)
      BY Zenon DEF TrackerOK, OthersKept, ShardStep, RecordStep, Worker, Goto, Lock, LockFree, AddLock
    <2>10. Knows(t)'
      BY Zenon DEF SameLocals, SameTarget, Knows, ShardsHeld, LocalsSet, RecordsKnown, LockedLabels,
         AddLabels, RemapLabels, SnapLabels, Worker
    <2>11. Charged
      <3>1. Used(x) = SizeAt(x) /\ \A n : Typed(x, n) = TypeAt(x, n)
        BY ThreadsAssumption, Zenon DEF Used, UsedBy, Typed, TypedBy, SizeAt, TypeAt
      <3>2. Used(x)' = 0 /\ \A n : Typed(x, n)' = TypeAt(x, n)
        BY ThreadsAssumption, Zenon DEF SameLocals, SameTarget, Used, UsedBy, Typed, TypedBy, SizeAt,
           TypeAt
      <3>3. Counted(x)
        BY <3>1, <3>2 DEF Numbers, Counted, UsedMoves, Of
      <3> QED
        BY <2>9, <3>3, ChargesOne, Zenon DEF SameLocals, SameTarget
    <2>12. Referenced(t)
      <3>1. \A i \in Nat \ {0, 1} :
              Recorded(x, i)' + (Adding(t, i)' + Displaced(t, i)' + Detached(t, i)')
                = Recorded(x, i) + (Adding(t, i) + Displaced(t, i) + Detached(t, i))
        BY Zenon DEF SameLocals, SameTarget, Recorded, Adding, Displaced, Detached, One
      <3> QED
        BY <3>1, RefMoves, Zenon
    <2>13. Peaked(t) /\ RestoreStays(t)
      BY DEF Numbers, Peaked, RestoreStays, RestoreLabels, RaisingLabels, UsedMoves
    <2> QED
      BY <2>8, <2>9, <2>10, <2>11, <2>12, <2>13, Zenon DEF Progress
  (* The displaced record is erased under the shard. *)
  <1>4. CASE AddUndoType(t)
    <2>1. PICK x \in Keys : x = call[t].ptr
      BY <1>4, Zenon DEF AddUndoType, Knows, LocalsSet
    <2>2. /\ pc[t] = "undoType" /\ call[t].displaced \in Records /\ call[t].displaced.size \in Nat
          /\ call[t].displaced.mem_type \in MemTypes
          /\ Worker(x) = t /\ pointers[x] = call[t].displaced /\ call[t].displaced # NoRecord
      BY <1>4, <2>1, Zenon DEF Knows, Slotted, Records, LocalsSet, RecordsKnown, ShardsHeld,
         LockedLabels, AddLabels, Worker, AddUndoType
    <2>3. /\ pc'[t] = "addUsed" /\ SameLocals(t) /\ call'[t].total = call[t].total
          /\ pointers'[x] = NoRecord /\ OnlyAt(x) /\ Worker(x)' = t
          /\ peak' = peak /\ frames' = frames
      BY <1>4, <2>1, <2>2, Zenon DEF TrackerOK, Goto, SameLocals, SameTarget, OnlyAt, Worker,
         frameVars, AddUndoType
    <2>4. TypeMoves(call[t].displaced.mem_type, 0 - call[t].displaced.size) /\ current' \in Signed
      <3>1. call[t].displaced.size \in Int /\ call[t].displaced.mem_type \in MemTypes
        BY <2>2 DEF Numbers
      <3>2. /\ current \in Signed
            /\ current' = [current EXCEPT ![Counter(call[t].displaced.mem_type)] = @ - call[t].displaced.size]
        BY <1>4, Zenon DEF TrackerOK, AddUndoType
      <3> QED
        BY <3>1, <3>2, TypeCounted, Zenon
    <2> USE <1>4, <2>1, <2>2, <2>3, <2>4
    <2>5. TrackerOK'
      BY Zenon DEF TrackerOK, frameVars, Goto, Labels, AddUndoType
    <2>6. OthersKept(t) /\ ShardStep(t) /\ RecordStep(t)
      BY Zenon DEF TrackerOK, OthersKept, ShardStep, RecordStep, Worker, Goto, AddUndoType
    <2>7. Knows(t)'
      BY Zenon DEF SameLocals, SameTarget, Knows, ShardsHeld, LocalsSet, RecordsKnown, LockedLabels,
         AddLabels, RemapLabels, SnapLabels, Worker
    <2>8. Charged
      <3>1. Used(x) = 0 /\ \A n : Typed(x, n) = Of(n, call[t].displaced.mem_type, call[t].displaced.size)
        BY ThreadsAssumption, Zenon DEF Used, UsedBy, Typed, TypedBy, SizeAt, TypeAt
      <3>2. Used(x)' = 0 /\ \A n : Typed(x, n)' = 0
        BY ThreadsAssumption, Zenon DEF SameLocals, SameTarget, Used, UsedBy, Typed, TypedBy, SizeAt,
           TypeAt
      <3>3. Counted(x)
        BY <3>1, <3>2 DEF Numbers, Counted, TypeMoves, Of
      <3> QED
        BY <2>6, <3>3, ChargesOne, Zenon DEF SameLocals, SameTarget
    <2>9. Referenced(t)
      <3>1. \A i \in Nat \ {0, 1} :
              Recorded(x, i)' + (Adding(t, i)' + Displaced(t, i)' + Detached(t, i)')
                = Recorded(x, i) + (Adding(t, i) + Displaced(t, i) + Detached(t, i))
        BY DEF SameLocals, SameTarget, Recorded, Adding, Displaced, Detached, One
      <3> QED
        BY <3>1, RefMoves, Zenon
    <2>10. Peaked(t) /\ RestoreStays(t)
      BY DEF Numbers, Peaked, RestoreStays, RestoreLabels, RaisingLabels, TypeMoves, Of
    <2> QED
      BY <2>5, <2>6, <2>7, <2>8, <2>9, <2>10, Zenon DEF Progress
  (* The new record is written under the shard. *)
  <1>5. CASE AddUsed(t)
    <2>1. PICK x \in Keys : x = call[t].ptr
      BY <1>5, Zenon DEF AddUsed, Knows, LocalsSet
    <2>2. /\ pc[t] = "addUsed" /\ Worker(x) = t /\ pointers[x] = NoRecord
      BY <1>5, <2>1, Zenon DEF Knows, RecordsKnown, ShardsHeld, LockedLabels, AddLabels, Worker,
         AddUsed
    <2>3. PICK r \in Records : r = Made(t)
      BY MadeTyped, Zenon
    <2>4. r.size = call[t].size /\ r.hash_index = call[t].hash_index /\ r.mem_type = call[t].type
      BY <2>3, MadeTyped, Zenon
    <2>5. /\ pc'[t] = "addType" /\ SameLocals(t) /\ call'[t].total = current'.used
          /\ pointers'[x] = r /\ r # NoRecord /\ OnlyAt(x) /\ Worker(x)' = t
          /\ peak' = peak /\ frames' = frames
      BY <1>5, <2>1, <2>2, <2>3, NoRecordAssumption DEF TrackerOK, Goto, SameLocals, SameTarget,
         OnlyAt, Worker, Made, Signed, frameVars, AddUsed
    <2>6. UsedMoves(call[t].size) /\ current' \in Signed
      <3>1. call[t].size \in Int
        BY <2>2 DEF Numbers
      <3>2. current \in Signed /\ current' = [current EXCEPT !.used = @ + call[t].size]
        BY <1>5, Zenon DEF TrackerOK, AddUsed
      <3> QED
        BY <3>1, <3>2, UsedCounted, Zenon
    <2>7. call' \in [Threads -> AnyCalls]
      <3>1. PICK v \in Int : v = current.used + call[t].size
        BY DEF Numbers
      <3>2. call \in [Threads -> AnyCalls] /\ call' = [call EXCEPT ![t].total = v]
        BY <1>5, <2>1, <3>1, Zenon DEF TrackerOK, AddUsed
      <3>3. [call EXCEPT ![t].total = v] \in [Threads -> AnyCalls]
        BY <3>1, <3>2, CallTyped, Zenon
      <3> QED
        BY <3>2, <3>3, Zenon
    <2> USE <1>5, <2>1, <2>2, <2>5, <2>6, <2>4
    <2>8. TrackerOK'
      BY <2>3, <2>7, Zenon DEF TrackerOK, frameVars, Made, Goto, Labels, AddUsed
    <2>9. OthersKept(t) /\ ShardStep(t) /\ RecordStep(t)
      BY Zenon DEF TrackerOK, OthersKept, ShardStep, RecordStep, Worker, Goto, AddUsed
    <2>10. Knows(t)'
      <3>1. Made(t)' = r
        BY <2>3, Zenon DEF Made, SameLocals, SameTarget
      <3> QED
        BY <3>1, Zenon DEF SameLocals, SameTarget, Knows, ShardsHeld, LocalsSet, RecordsKnown,
           LockedLabels, AddLabels, RemapLabels, SnapLabels, Worker
    <2>11. Charged
      <3>1. Used(x) = 0 /\ \A n : Typed(x, n) = 0
        BY ThreadsAssumption, Zenon DEF Used, UsedBy, Typed, TypedBy, SizeAt, TypeAt
      <3>2. Used(x)' = call[t].size /\ \A n : Typed(x, n)' = 0
        BY ThreadsAssumption, Zenon DEF SameLocals, SameTarget, Used, UsedBy, Typed, TypedBy, SizeAt,
           TypeAt
      <3>3. Counted(x)
        BY <3>1, <3>2 DEF Numbers, Counted, UsedMoves, Of
      <3> QED
        BY <2>9, <3>3, ChargesOne, Zenon DEF SameLocals, SameTarget
    <2>12. Referenced(t)
      <3>1. \A i \in Nat \ {0, 1} :
              Recorded(x, i)' + (Adding(t, i)' + Displaced(t, i)' + Detached(t, i)')
                = Recorded(x, i) + (Adding(t, i) + Displaced(t, i) + Detached(t, i))
        BY DEF SameLocals, SameTarget, Recorded, Adding, Displaced, Detached, One
      <3> QED
        BY <3>1, RefMoves, Zenon
    <2>13. Peaked(t) /\ RestoreStays(t)
      BY DEF Numbers, Peaked, RestoreStays, RestoreLabels, RaisingLabels, UsedMoves
    <2> QED
      BY <2>8, <2>9, <2>10, <2>11, <2>12, <2>13, Zenon DEF Progress
  (* Only counters and their peaks change. *)
  <1>6. CASE AddType(t)
    <2>1. PICK x \in Keys : x = call[t].ptr
      BY <1>6, Zenon DEF AddType, Knows, LocalsSet
    <2>2. /\ pc[t] = "addType" /\ Worker(x) = t /\ pointers[x] = Made(t)
      BY <1>6, <2>1, Zenon DEF Knows, RecordsKnown, ShardsHeld, LockedLabels, AddLabels, Worker,
         AddType
    <2>3. PICK r \in Records : r = Made(t)
      BY MadeTyped, Zenon
    <2>4. r.size = call[t].size /\ r.hash_index = call[t].hash_index /\ r.mem_type = call[t].type
      BY <2>3, MadeTyped, Zenon
    <2>5. /\ pc'[t] = "addPeak" /\ SameLocals(t) /\ call'[t].total = call[t].total
          /\ pointers' = pointers /\ pointers[x] = r /\ r # NoRecord /\ OnlyAt(x) /\ Worker(x)' = t
          /\ frames' = frames
      BY <1>6, <2>1, <2>2, <2>3, NoRecordAssumption, Zenon DEF TrackerOK, Goto, SameLocals, SameTarget,
         OnlyAt, Worker, frameVars, AddType
    <2>6. TypeMoves(call[t].type, call[t].size) /\ current' \in Signed
      <3>1. call[t].size \in Int /\ call[t].type \in MemTypes
        BY <2>2 DEF Numbers
      <3>2. current \in Signed /\ current' = [current EXCEPT ![Counter(call[t].type)] = @ + call[t].size]
        BY <1>6, Zenon DEF TrackerOK, AddType
      <3> QED
        BY <3>1, <3>2, TypeCounted, Zenon
    <2>7. TypesPeaked /\ peak' \in Signed
      <3>1. PICK d \in Int, type \in MemTypes : d = call[t].size /\ type = call[t].type /\ d >= 0
        BY DEF Numbers
      <3>2. /\ current \in Signed /\ peak \in Signed
            /\ current' = [current EXCEPT ![Counter(type)] = @ + d]
        BY <1>6, <3>1, Zenon DEF TrackerOK, AddType
      <3>3. \/ /\ d >= 0
               /\ peak' = [peak EXCEPT ![Counter(type)] =
                             RaisePeak(Counter(type), current[Counter(type)] + d)]
            \/ d < 0 /\ peak' = peak
        BY <1>6, <3>1, Zenon DEF AddType
      <3> QED
        BY <3>2, <3>3, TypeRaised, Zenon
    <2> USE <1>6, <2>1, <2>2, <2>5, <2>6, <2>4
    <2>8. TrackerOK'
      BY <2>7, Zenon DEF TrackerOK, frameVars, Goto, Labels, AddType
    <2>9. OthersKept(t) /\ ShardStep(t) /\ RecordStep(t)
      BY Zenon DEF TrackerOK, OthersKept, ShardStep, RecordStep, Worker, Goto, AddType
    <2>10. Knows(t)'
      <3>1. Made(t)' = r
        BY <2>3, Zenon DEF Made, SameLocals, SameTarget
      <3> QED
        BY <3>1, Zenon DEF SameLocals, SameTarget, Knows, ShardsHeld, LocalsSet, RecordsKnown,
           LockedLabels, AddLabels, RemapLabels, SnapLabels, Worker
    <2>11. Charged
      <3>1. Used(x) = call[t].size /\ \A n : Typed(x, n) = 0
        BY ThreadsAssumption, Zenon DEF Used, UsedBy, Typed, TypedBy, SizeAt, TypeAt
      <3>2. Used(x)' = call[t].size /\ \A n : Typed(x, n)' = Of(n, call[t].type, call[t].size)
        BY ThreadsAssumption, Zenon DEF SameLocals, SameTarget, Used, UsedBy, Typed, TypedBy, SizeAt,
           TypeAt
      <3>3. Counted(x)
        BY <3>1, <3>2 DEF Numbers, Counted, TypeMoves, Of
      <3> QED
        BY <2>9, <3>3, ChargesOne, Zenon DEF SameLocals, SameTarget
    <2>12. Referenced(t)
      <3>1. \A i \in Nat \ {0, 1} :
              Recorded(x, i)' + (Adding(t, i)' + Displaced(t, i)' + Detached(t, i)')
                = Recorded(x, i) + (Adding(t, i) + Displaced(t, i) + Detached(t, i))
        BY Zenon DEF SameLocals, SameTarget, Recorded, Adding, Displaced, Detached, One
      <3> QED
        BY <3>1, RefMoves, Zenon
    <2>13. Peaked(t) /\ RestoreStays(t)
      BY <2>7 DEF Numbers, Peaked, RestoreStays, RestoreLabels, RaisingLabels, TypeMoves,
         TypesPeaked
    <2> QED
      BY <2>8, <2>9, <2>10, <2>11, <2>12, <2>13, Zenon DEF Progress
  (* The peak is raised and the shard given up. *)
  <1>7. CASE AddPeak(t)
    <2>1. PICK x \in Keys : x = call[t].ptr
      BY <1>7, Zenon DEF AddPeak, Knows, LocalsSet
    <2>2. /\ pc[t] = "addPeak" /\ Worker(x) = t
      BY <1>7, <2>1, Zenon DEF Knows, ShardsHeld, LockedLabels, AddLabels, Worker, AddPeak
    <2>3. /\ pc'[t] \in {"snapshot", "dropDisplaced"} /\ SameLocals(t)
          /\ call'[t].total = call[t].total
          /\ pointers' = pointers /\ OnlyAt(x) /\ current' = current /\ frames' = frames
      BY <1>7, <2>1, <2>2, Zenon DEF TrackerOK, Goto, SameLocals, SameTarget, OnlyAt, Worker,
         frameVars, AddPeak
    <2>4. peak' = [peak EXCEPT !.used = RaisePeak("used", call[t].total)]
      BY <1>7, <2>1, <2>2, Zenon DEF TrackerOK, Signed, frameVars, AddPeak
    <2> USE <1>7, <2>1, <2>2, <2>3, <2>4
    <2>5. TrackerOK'
      BY Zenon DEF TrackerOK, Numbers, Signed, RaisePeak, Unlock, Goto, Labels, AddPeak
    <2>6. OthersKept(t) /\ ShardStep(t) /\ RecordStep(t)
      BY Zenon DEF TrackerOK, OthersKept, ShardStep, RecordStep, Worker, Goto, Unlock, AddPeak
    <2>7. Knows(t)'
      BY Zenon DEF SameLocals, SameTarget, Knows, ShardsHeld, LocalsSet, RecordsKnown, LockedLabels,
         AddLabels, RemapLabels, SnapLabels, Worker
    <2>8. Charged
      <3>1. \A k \in Keys : ~Touches(t, k) /\ ~Touches(t, k)'
        BY Zenon DEF Touches, ChargeLabels
      <3> QED
        BY <2>6, <3>1, ChargeElsewhere, Zenon DEF Charged, ChargeNone
    <2>9. Referenced(t)
      <3>1. \A i \in Nat \ {0, 1} :
              Recorded(x, i)' + (Adding(t, i)' + Displaced(t, i)' + Detached(t, i)')
                = Recorded(x, i) + (Adding(t, i) + Displaced(t, i) + Detached(t, i))
        BY Zenon DEF SameLocals, SameTarget, Recorded, Adding, Displaced, Detached, One
      <3> QED
        BY <3>1, RefMoves, Zenon
    <2>10. Peaked(t) /\ RestoreStays(t)
      BY DEF Numbers, Peaked, RestoreStays, RestoreLabels, RaisingLabels, TrackerOK, Signed,
         RaisePeak
    <2> QED
      BY <2>5, <2>6, <2>7, <2>8, <2>9, <2>10, Zenon DEF Progress
  (* The displaced record is forgotten with its reference. *)
  <1>8. CASE DropDisplaced(t)
    <2>1. PICK x \in Keys : x = call[t].ptr
      BY <1>8, Zenon DEF DropDisplaced, Knows, LocalsSet
    <2>2. /\ pc[t] = "dropDisplaced"
      BY <1>8, <2>1, Zenon DEF Knows, frameVars, DropDisplaced
    <2>3. /\ pc'[t] = "added" /\ call'[t].total = 0
          /\ call'[t].ptr = x /\ call'[t].old = call[t].old
          /\ call'[t].displaced = NoRecord /\ call'[t].previous = call[t].previous
          /\ pointers' = pointers /\ OnlyAt(x) /\ current' = current
      BY <1>8, <2>1, <2>2 DEF TrackerOK, Goto, SameLocals, SameTarget, OnlyAt, Worker,
         tableVars, DropDisplaced
    <2>4. peak' = peak /\ shardMutex' = shardMutex
      BY <1>8, <2>1, <2>2, Zenon DEF TrackerOK, Signed, tableVars, DropDisplaced
    <2>5. call' \in [Threads -> AnyCalls]
      <3> DEFINE f == [call EXCEPT ![t].displaced = NoRecord]
                 g == [f EXCEPT ![t].total = 0]
      <3>1. NoRecord \in Slots /\ 0 \in Int /\ kBacktraceExitIndex \in Nat
        BY DEF Slots, kBacktraceExitIndex
      <3>2. call' = [g EXCEPT ![t].hash_index = kBacktraceExitIndex]
        BY <1>8, Zenon DEF DropDisplaced
      <3>3. f \in [Threads -> AnyCalls]
        BY <3>1, CallTyped, Zenon DEF TrackerOK
      <3> HIDE DEF f
      <3>4. g \in [Threads -> AnyCalls]
        BY <3>1, <3>3, CallTyped, Zenon
      <3> HIDE DEF g
      <3> QED
        BY <3>1, <3>2, <3>4, CallTyped, Zenon
    <2> USE <1>8, <2>1, <2>2, <2>3, <2>4
    <2>6. TrackerOK'
      BY <2>5, Zenon DEF TrackerOK, tableVars, Goto, Labels, DropDisplaced
    <2>7. OthersKept(t) /\ ShardStep(t) /\ RecordStep(t)
      BY Zenon DEF TrackerOK, OthersKept, ShardStep, RecordStep, Worker, Goto, tableVars,
         DropDisplaced
    <2>8. Knows(t)'
      BY Zenon DEF SameLocals, SameTarget, Knows, ShardsHeld, LocalsSet, RecordsKnown, LockedLabels,
         AddLabels, RemapLabels, SnapLabels, Worker
    <2>9. Charged
      <3>1. \A k \in Keys : ~Touches(t, k) /\ ~Touches(t, k)'
        BY Zenon DEF Touches, ChargeLabels
      <3> QED
        BY <2>7, <3>1, ChargeElsewhere, Zenon DEF Charged, ChargeNone
    <2>10. Referenced(t)
      <3>1. \A i \in Nat \ {0, 1} : RefsOf(i)' = RefsOf(i) - Displaced(t, i)
        <4>1. CASE call[t].displaced = NoRecord
          BY <4>1, RefTypes DEF DropDisplaced, frameVars, RefsOf, Displaced, One
        <4>2. CASE call[t].displaced # NoRecord
          <5>1. PICK h \in Nat : h = call[t].displaced.hash_index
            BY <4>2, Zenon DEF Slotted, Records
          <5>2. \A i \in Nat \ {0, 1} : RefsOf(i)' = RefsOf(i) - One(h = i /\ i \in DOMAIN frames)
            BY <4>2, <5>1, RemovedRefs, Zenon DEF DropDisplaced
          <5>3. \A i \in Nat \ {0, 1} : h = i => i \in DOMAIN frames
            <6>1. \A i \in Nat \ {0, 1} : h = i => Holds(t, i) # 0
              BY <4>2, <5>1 DEF Holds, Adding, Displaced, Detached, One
            <6> QED
              BY <6>1, Zenon DEF HoldersCounted
          <5> QED
            BY <4>2, <5>1, <5>2, <5>3, Zenon DEF Displaced, One
        <4> QED
          BY <4>1, <4>2, Zenon
      <3>2. \A i \in Nat \ {0, 1} :
              /\ Recorded(x, i)' = Recorded(x, i) /\ Adding(t, i)' = 0 /\ Adding(t, i) = 0
              /\ Displaced(t, i)' = 0 /\ Detached(t, i)' = Detached(t, i)
        BY Zenon DEF Recorded, Adding, Displaced, Detached, One
      <3> QED
        BY <3>1, <3>2, RefTypes DEF Referenced, Holds
    <2>11. Peaked(t) /\ RestoreStays(t)
      BY DEF Numbers, Peaked, RestoreStays, RestoreLabels, RaisingLabels, frameVars
    <2> QED
      BY <2>6, <2>7, <2>8, <2>9, <2>10, <2>11, Zenon DEF Progress
  <1> QED
    BY <1>2, <1>3, <1>4, <1>5, <1>6, <1>7, <1>8, Zenon

--------------------------------------------------------------------------------
(* TakeEntry, RestoreEntry and Remap. *)

(* Counters that do not rise. *)
Falls == current'.used <= current.used /\ current'.host <= current.host /\ current'.dma <= current.dma

(* A step that takes bytes from the total lets no counter rise. *)
LEMMA UsedFalls ==
    ASSUME NEW t, Numbers(t), NEW n \in Nat, UsedMoves(0 - n)
    PROVE  Falls
  BY DEF Numbers, UsedMoves, Falls

(* Nor does one that takes them from a type. *)
LEMMA TypeFalls ==
    ASSUME NEW t, Numbers(t), NEW n \in Nat, NEW type, TypeMoves(type, 0 - n)
    PROVE  Falls
  BY DEF Numbers, TypeMoves, Of, Falls

(* The peaks follow a step that raises no counter, or that restores a record. *)
LEMMA PeakStays ==
    ASSUME NEW t, Numbers(t), peak' = peak, call'[t].total = call[t].total,
           pc[t] \in RestoreLabels \/ (pc[t] \notin RaisingLabels /\ pc'[t] \notin RestoreLabels /\ Falls)
    PROVE  Peaked(t) /\ RestoreStays(t)
  <1>1. peak'.used >= peak.used /\ peak'.host >= peak.host /\ peak'.dma >= peak.dma
    BY DEF Numbers
  <1> QED
    BY <1>1, Zenon DEF Peaked, RestoreStays, Falls

(* So they do when a type's counter rises with its peak and the total stands. *)
LEMMA TypePeakStays ==
    ASSUME NEW t, Numbers(t), TypesPeaked, current'.used = current.used,
           call'[t].total = call[t].total,
           pc[t] \in RaisingLabels, pc'[t] \in RaisingLabels, pc'[t] \notin RestoreLabels
    PROVE  Peaked(t) /\ RestoreStays(t)
  <1>1. current'.used <= current.used /\ peak'.used >= peak.used
    BY DEF Numbers, TypesPeaked
  <1> QED
    BY <1>1, Zenon DEF Peaked, RestoreStays, TypesPeaked

(* And when the total rises and the call goes on to raise its peak. *)
LEMMA UsedPeakStays ==
    ASSUME NEW t, Numbers(t), NEW n \in Int, UsedMoves(n), peak' = peak,
           call'[t].total = current'.used,
           pc'[t] \in RaisingLabels, pc'[t] \notin RestoreLabels
    PROVE  Peaked(t) /\ RestoreStays(t)
  <1>1. /\ current'.host <= current.host /\ current'.dma <= current.dma
        /\ peak'.used >= peak.used /\ peak'.host >= peak.host /\ peak'.dma >= peak.dma
    BY DEF Numbers, UsedMoves
  <1> QED
    BY <1>1, Zenon DEF Peaked, RestoreStays

(* A record is referenced by its holder or not at all. *)
Bits == {0, 1}

(* A displaced record that its call takes over is still one reference, ... *)
LEMMA HandedOver ==
    ASSUME NEW x, NEW t, NEW i, NEW v \in Bits, NEW c \in Bits, NEW d \in Bits,
           Detached(t, i) = d, Detached(t, i)' = d,
           Recorded(x, i) = v, Adding(t, i) = c, Displaced(t, i) = 0,
           Recorded(x, i)' = 0, Adding(t, i)' = c, Displaced(t, i)' = v
    PROVE  Recorded(x, i)' + (Adding(t, i)' + Displaced(t, i)' + Detached(t, i)')
             = Recorded(x, i) + (Adding(t, i) + Displaced(t, i) + Detached(t, i))
  BY DEF Bits

(* ... and so is one that the call gives to the table. *)
LEMMA HandedIn ==
    ASSUME NEW x, NEW t, NEW i, NEW v \in Bits, NEW c \in Bits, NEW d \in Bits,
           Detached(t, i) = d, Detached(t, i)' = d,
           Recorded(x, i) = 0, Adding(t, i) = v, Displaced(t, i) = c,
           Recorded(x, i)' = v, Adding(t, i)' = 0, Displaced(t, i)' = c
    PROVE  Recorded(x, i)' + (Adding(t, i)' + Displaced(t, i)' + Detached(t, i)')
             = Recorded(x, i) + (Adding(t, i) + Displaced(t, i) + Detached(t, i))
  BY DEF Bits

(* One address takes all that the total loses, ... *)
LEMMA CountedFall ==
    ASSUME NEW t, Numbers(t), NEW x, NEW n \in Nat, UsedMoves(0 - n), Used(x) = n, Used(x)' = 0,
           Typed(x, "host") \in Nat, Typed(x, "dma") \in Nat, \A c : Typed(x, c)' = Typed(x, c)
    PROVE  Counted(x)
  BY DEF Numbers, UsedMoves, Counted

(* ... or all that it gains, ... *)
LEMMA CountedRise ==
    ASSUME NEW t, Numbers(t), NEW x, NEW n \in Nat, UsedMoves(n), Used(x) = 0, Used(x)' = n,
           Typed(x, "host") \in Nat, Typed(x, "dma") \in Nat, \A c : Typed(x, c)' = Typed(x, c)
    PROVE  Counted(x)
  BY DEF Numbers, UsedMoves, Counted

(* ... or all that a type loses, ... *)
LEMMA CountedTypeFall ==
    ASSUME NEW t, Numbers(t), NEW x, NEW n \in Nat, NEW type, TypeMoves(type, 0 - n),
           Used(x) \in Nat, Used(x)' = Used(x),
           \A c : Typed(x, c) = Of(c, type, n) /\ Typed(x, c)' = 0
    PROVE  Counted(x)
  BY DEF Numbers, TypeMoves, Counted, Of

(* ... or all that it gains. *)
LEMMA CountedTypeRise ==
    ASSUME NEW t, Numbers(t), NEW x, NEW n \in Nat, NEW type, TypeMoves(type, n),
           Used(x) \in Nat, Used(x)' = Used(x),
           \A c : Typed(x, c) = 0 /\ Typed(x, c)' = Of(c, type, n)
    PROVE  Counted(x)
  BY DEF Numbers, TypeMoves, Counted, Of

(* Every step of TakeEntry and RestoreEntry keeps the books of its thread. *)
LEMMA TakeInv ==
    ASSUME FrameInv, TrackerOK, HoldersCounted, NEW t \in Threads, Knows(t),
           \/ TakeEntry(t) \/ TakeEntryType(t) \/ RestoreEntry(t) \/ RestoreEntryType(t)
    PROVE  Progress(t)
  <1>1. Numbers(t) /\ Slotted(t)
    BY NumbersTyped, Zenon
  <1> USE <1>1
  (* The record is found under the shard, or there is none. *)
  <1>2. CASE TakeEntry(t)
    <2>1. PICK x \in Keys : x = call[t].ptr
      BY <1>2, Zenon DEF TakeEntry, Knows, LocalsSet
    <2>2. /\ pc[t] = "take" /\ call[t].previous = NoRecord /\ Worker(x) = NoThread
          /\ SizeAt(x) \in Nat /\ \A n : TypeAt(x, n) \in Nat
      BY <1>2, <2>1, Zenon DEF Knows, LocalsSet, LockFree, Worker, SizeAt, TypeAt, Of, TrackerOK,
         Records, TakeEntry
    <2>3. /\ pc'[t] = IF pointers[x] = NoRecord THEN "taken" ELSE "takeType"
          /\ pointers' = pointers /\ OnlyAt(x)
          /\ Worker(x)' = IF pointers[x] = NoRecord THEN NoThread ELSE t
          /\ peak' = peak /\ frames' = frames
      BY <1>2, <2>1, <2>2, ShardForAssumption, Zenon DEF TrackerOK, Goto, SameLocals, SameTarget,
         OnlyAt, Worker, Lock, frameVars, TakeEntry
    <2>4. \/ pointers[x] = NoRecord /\ call' = call
          \/ pointers[x] # NoRecord /\ call' = [call EXCEPT ![t].previous = pointers[x]]
      BY <1>2, <2>1, Zenon DEF TakeEntry
    <2>5. /\ SameTarget(t) /\ call'[t].total = call[t].total
          /\ call'[t].previous = pointers[x] /\ call'[t].displaced = call[t].displaced
      BY <2>2, <2>4 DEF TrackerOK, AnyCalls, SameTarget
    <2>6. UsedMoves(0 - SizeAt(x)) /\ current' \in Signed
      BY <1>2, <2>1, <2>2 DEF TrackerOK, Signed, Numbers, SizeAt, UsedMoves, TakeEntry
    <2>7. call' \in [Threads -> AnyCalls]
      <3>1. PICK v \in Slots : v = pointers[x]
        BY Zenon DEF TrackerOK, Numbers, Slots
      <3>2. call \in [Threads -> AnyCalls] /\ (call' = call \/ call' = [call EXCEPT ![t].previous = v])
        BY <1>2, <2>1, <2>4, <3>1, Zenon DEF TrackerOK, frameVars
      <3>3. [call EXCEPT ![t].previous = v] \in [Threads -> AnyCalls]
        BY <3>1, <3>2, CallTyped, Zenon
      <3> QED
        BY <3>2, <3>3, Zenon
    <2> USE <1>2, <2>1, <2>2, <2>3, <2>6, <2>5
    <2>8. TrackerOK'
      BY <2>7 DEF TrackerOK, Lock, Goto, Labels, TakeEntry
    <2>9. OthersKept(t) /\ ShardStep(t) /\ RecordStep(t)
      BY DEF TrackerOK, OthersKept, ShardStep, RecordStep, Worker, Goto, Lock, LockFree,
         TakeEntry
    <2>10. Knows(t)'
      BY Zenon DEF SameLocals, SameTarget, Knows, ShardsHeld, LocalsSet, RecordsKnown, LockedLabels,
         AddLabels, RemapLabels, SnapLabels, Worker
    <2>11. Charged
      <3>1. Used(x) = SizeAt(x) /\ \A n : Typed(x, n) = TypeAt(x, n)
        BY ThreadsAssumption, Zenon DEF Used, UsedBy, Typed, TypedBy, SizeAt, TypeAt
      <3>2. Used(x)' = 0 /\ \A n : Typed(x, n)' = TypeAt(x, n)
        BY ThreadsAssumption, Zenon DEF SameLocals, SameTarget, Used, UsedBy, Typed, TypedBy, SizeAt,
           TypeAt
      <3>3. Counted(x)
        BY <3>1, <3>2, CountedFall, Zenon DEF Numbers
      <3> QED
        BY <2>9, <3>3, ChargesOne, Zenon DEF SameLocals, SameTarget
    <2>12. Referenced(t)
      <3>1. \A i \in Nat \ {0, 1} :
              Recorded(x, i)' + (Adding(t, i)' + Displaced(t, i)' + Detached(t, i)')
                = Recorded(x, i) + (Adding(t, i) + Displaced(t, i) + Detached(t, i))
        BY Zenon DEF SameLocals, SameTarget, Recorded, Adding, Displaced, Detached, One
      <3> QED
        BY <3>1, RefMoves, Zenon
    <2>13. Peaked(t) /\ RestoreStays(t)
      <3>1. Falls
        BY UsedFalls, Zenon
      <3>2. pc[t] \notin RaisingLabels /\ pc'[t] \notin RestoreLabels
        BY Zenon DEF RaisingLabels, RestoreLabels
      <3> QED
        BY <3>1, <3>2, PeakStays, Zenon
    <2> QED
      BY <2>8, <2>9, <2>10, <2>11, <2>12, <2>13, Zenon DEF Progress
  (* The record is detached and the shard given up. *)
  <1>3. CASE TakeEntryType(t)
    <2>1. PICK x \in Keys : x = call[t].ptr
      BY <1>3, Zenon DEF TakeEntryType, Knows, LocalsSet
    <2>2. /\ pc[t] = "takeType" /\ call[t].previous \in Records /\ call[t].previous.size \in Nat
          /\ call[t].previous.mem_type \in MemTypes
          /\ Worker(x) = t /\ pointers[x] = call[t].previous /\ call[t].previous # NoRecord
      BY <1>3, <2>1, Zenon DEF Knows, Slotted, Records, LocalsSet, RecordsKnown, ShardsHeld,
         LockedLabels, AddLabels, Worker, TakeEntryType
    <2>3. /\ pc'[t] = "taken" /\ SameLocals(t) /\ call'[t].total = call[t].total
          /\ pointers'[x] = NoRecord /\ OnlyAt(x) /\ Worker(x)' = NoThread
          /\ peak' = peak /\ frames' = frames
      BY <1>3, <2>1, <2>2, ShardForAssumption, Zenon DEF TrackerOK, Goto, SameLocals, SameTarget,
         OnlyAt, Worker, Unlock, frameVars, TakeEntryType
    <2>4. TypeMoves(call[t].previous.mem_type, 0 - call[t].previous.size) /\ current' \in Signed
      <3>1. call[t].previous.size \in Int /\ call[t].previous.mem_type \in MemTypes
        BY <2>2 DEF Numbers
      <3>2. /\ current \in Signed
            /\ current' = [current EXCEPT ![Counter(call[t].previous.mem_type)] = @ - call[t].previous.size]
        BY <1>3, Zenon DEF TrackerOK, TakeEntryType
      <3> QED
        BY <3>1, <3>2, TypeCounted, Zenon
    <2> USE <1>3, <2>1, <2>2, <2>3, <2>4
    <2>5. TrackerOK'
      BY Zenon DEF TrackerOK, Unlock, Goto, Labels, TakeEntryType
    <2>6. OthersKept(t) /\ ShardStep(t) /\ RecordStep(t)
      BY Zenon DEF TrackerOK, OthersKept, ShardStep, RecordStep, Worker, Goto, Unlock, TakeEntryType
    <2>7. Knows(t)'
      BY Zenon DEF SameLocals, SameTarget, Knows, ShardsHeld, LocalsSet, RecordsKnown, LockedLabels,
         AddLabels, RemapLabels, SnapLabels, Worker
    <2>8. Charged
      <3>1. Used(x) = 0 /\ \A n : Typed(x, n) = Of(n, call[t].previous.mem_type, call[t].previous.size)
        BY ThreadsAssumption, Zenon DEF Used, UsedBy, Typed, TypedBy, SizeAt, TypeAt
      <3>2. Used(x)' = 0 /\ \A n : Typed(x, n)' = 0
        BY ThreadsAssumption, Zenon DEF SameLocals, SameTarget, Used, UsedBy, Typed, TypedBy, SizeAt,
           TypeAt
      <3>3. Counted(x)
        <4>1. Used(x) \in Nat
          BY <3>1
        <4> QED
          BY <3>1, <3>2, <4>1, CountedTypeFall, Zenon
      <3> QED
        BY <2>6, <3>3, ChargesOne, Zenon DEF SameLocals, SameTarget
    <2>9. Referenced(t)
      <3>1. \A i \in Nat \ {0, 1} :
              Recorded(x, i)' + (Adding(t, i)' + Displaced(t, i)' + Detached(t, i)')
                = Recorded(x, i) + (Adding(t, i) + Displaced(t, i) + Detached(t, i))
        <4> HIDE <1>1, <1>3, <2>4
        <4> QED
          BY DEF SameLocals, SameTarget, Recorded, Adding, Displaced, Detached, One
      <3> QED
        BY <3>1, RefMoves, Zenon
    <2>10. Peaked(t) /\ RestoreStays(t)
      <3>1. Falls
        BY TypeFalls, Zenon
      <3>2. pc[t] \notin RaisingLabels /\ pc'[t] \notin RestoreLabels
        BY Zenon DEF RaisingLabels, RestoreLabels
      <3> QED
        BY <3>1, <3>2, PeakStays, Zenon
    <2> QED
      BY <2>5, <2>6, <2>7, <2>8, <2>9, <2>10, Zenon DEF Progress
  (* The detached record goes back as it was. *)
  <1>4. CASE RestoreEntry(t)
    <2>1. PICK x \in Keys : x = call[t].ptr
      BY <1>4, Zenon DEF RestoreEntry, Knows, LocalsSet
    <2>2. /\ pc[t] = "restore" /\ call[t].previous \in Records /\ call[t].previous.size \in Nat
          /\ call[t].previous.mem_type \in MemTypes
          /\ Worker(x) = NoThread /\ pointers[x] = NoRecord /\ call[t].previous # NoRecord
      BY <1>4, <2>1, Zenon DEF Knows, Slotted, Records, LocalsSet, RecordsKnown, LockFree, Worker,
         RestoreEntry
    <2>3. /\ pc'[t] = "restoreType" /\ SameLocals(t) /\ call'[t].total = call[t].total
          /\ pointers'[x] = call[t].previous /\ OnlyAt(x) /\ Worker(x)' = t
          /\ peak' = peak /\ frames' = frames
      BY <1>4, <2>1, <2>2, ShardForAssumption, Zenon DEF TrackerOK, Goto, SameLocals, SameTarget,
         OnlyAt, Worker, Lock, frameVars, RestoreEntry
    <2>4. UsedMoves(call[t].previous.size) /\ current' \in Signed
      <3>1. call[t].previous.size \in Int
        BY <2>2 DEF Numbers
      <3>2. current \in Signed /\ current' = [current EXCEPT !.used = @ + call[t].previous.size]
        BY <1>4, Zenon DEF TrackerOK, RestoreEntry
      <3> QED
        BY <3>1, <3>2, UsedCounted, Zenon
    <2> USE <1>4, <2>1, <2>2, <2>3, <2>4
    <2>5. TrackerOK'
      BY Zenon DEF TrackerOK, Lock, Goto, Labels, RestoreEntry
    <2>6. OthersKept(t) /\ ShardStep(t) /\ RecordStep(t)
      BY Zenon DEF TrackerOK, OthersKept, ShardStep, RecordStep, Worker, Goto, Lock, LockFree,
         RestoreEntry
    <2>7. Knows(t)'
      BY Zenon DEF SameLocals, SameTarget, Knows, ShardsHeld, LocalsSet, RecordsKnown, LockedLabels,
         AddLabels, RemapLabels, SnapLabels, Worker
    <2>8. Charged
      <3>1. Used(x) = 0 /\ \A n : Typed(x, n) = 0
        BY ThreadsAssumption, Zenon DEF Used, UsedBy, Typed, TypedBy, SizeAt, TypeAt
      <3>2. Used(x)' = call[t].previous.size /\ \A n : Typed(x, n)' = 0
        BY ThreadsAssumption, Zenon DEF SameLocals, SameTarget, Used, UsedBy, Typed, TypedBy, SizeAt,
           TypeAt
      <3>3. Counted(x)
        <4>1. Typed(x, "host") \in Nat /\ Typed(x, "dma") \in Nat
          BY <3>1
        <4> QED
          BY <3>1, <3>2, <4>1, CountedRise, Zenon
      <3> QED
        BY <2>6, <3>3, ChargesOne, Zenon DEF SameLocals, SameTarget
    <2>9. Referenced(t)
      <3>1. \A i \in Nat \ {0, 1} :
              Recorded(x, i)' + (Adding(t, i)' + Displaced(t, i)' + Detached(t, i)')
                = Recorded(x, i) + (Adding(t, i) + Displaced(t, i) + Detached(t, i))
        <4> HIDE <1>1, <1>4, <2>4
        <4> QED
          BY DEF SameLocals, SameTarget, Recorded, Adding, Displaced, Detached, One
      <3> QED
        BY <3>1, RefMoves, Zenon
    <2>10. Peaked(t) /\ RestoreStays(t)
      <3>1. pc[t] \in RestoreLabels
        BY Zenon DEF RestoreLabels
      <3> QED
        BY <3>1, PeakStays, Zenon
    <2> QED
      BY <2>5, <2>6, <2>7, <2>8, <2>9, <2>10, Zenon DEF Progress
  (* The type's counter follows and the shard is given up. *)
  <1>5. CASE RestoreEntryType(t)
    <2>1. PICK x \in Keys : x = call[t].ptr
      BY <1>5, Zenon DEF RestoreEntryType, Knows, LocalsSet
    <2>2. /\ pc[t] = "restoreType" /\ call[t].previous \in Records /\ call[t].previous.size \in Nat
          /\ call[t].previous.mem_type \in MemTypes
          /\ Worker(x) = t /\ pointers[x] = call[t].previous /\ call[t].previous # NoRecord
      BY <1>5, <2>1, Zenon DEF Knows, Slotted, Records, LocalsSet, RecordsKnown, ShardsHeld,
         LockedLabels, AddLabels, Worker, RestoreEntryType
    <2>3. /\ pc'[t] = "done" /\ SameTarget(t) /\ call'[t].total = call[t].total
          /\ call'[t].previous = NoRecord /\ call'[t].displaced = call[t].displaced
          /\ pointers' = pointers /\ OnlyAt(x) /\ Worker(x)' = NoThread
          /\ peak' = peak /\ frames' = frames
      BY <1>5, <2>1, <2>2, ShardForAssumption DEF TrackerOK, Goto, SameLocals, SameTarget,
         OnlyAt, Worker, Unlock, frameVars, RestoreEntryType
    <2>4. TypeMoves(call[t].previous.mem_type, call[t].previous.size) /\ current' \in Signed
      <3>1. call[t].previous.size \in Int /\ call[t].previous.mem_type \in MemTypes
        BY <2>2 DEF Numbers
      <3>2. /\ current \in Signed
            /\ current' = [current EXCEPT ![Counter(call[t].previous.mem_type)] = @ + call[t].previous.size]
        BY <1>5, Zenon DEF TrackerOK, RestoreEntryType
      <3> QED
        BY <3>1, <3>2, TypeCounted, Zenon
    <2>5. call' \in [Threads -> AnyCalls]
      <3>1. PICK v \in Slots : v = NoRecord
        BY Zenon DEF Numbers, Slots
      <3>2. call \in [Threads -> AnyCalls] /\ call' = [call EXCEPT ![t].previous = v]
        BY <1>5, <2>1, <3>1, Zenon DEF TrackerOK, RestoreEntryType
      <3>3. [call EXCEPT ![t].previous = v] \in [Threads -> AnyCalls]
        BY <3>1, <3>2, CallTyped, Zenon
      <3> QED
        BY <3>2, <3>3, Zenon
    <2> USE <1>5, <2>1, <2>2, <2>3, <2>4
    <2>6. TrackerOK'
      BY <2>5, Zenon DEF TrackerOK, Unlock, Goto, Labels, RestoreEntryType
    <2>7. OthersKept(t) /\ ShardStep(t) /\ RecordStep(t)
      BY Zenon DEF TrackerOK, OthersKept, ShardStep, RecordStep, Worker, Goto, Unlock,
         RestoreEntryType
    <2>8. Knows(t)'
      BY Zenon DEF SameLocals, SameTarget, Knows, ShardsHeld, LocalsSet, RecordsKnown, LockedLabels,
         AddLabels, RemapLabels, SnapLabels, Worker
    <2>9. Charged
      <3>1. Used(x) = call[t].previous.size /\ \A n : Typed(x, n) = 0
        BY ThreadsAssumption, Zenon DEF Used, UsedBy, Typed, TypedBy, SizeAt, TypeAt
      <3>2. /\ Used(x)' = call[t].previous.size
            /\ \A n : Typed(x, n)' = Of(n, call[t].previous.mem_type, call[t].previous.size)
        BY ThreadsAssumption, Zenon DEF SameLocals, SameTarget, Used, UsedBy, Typed, TypedBy, SizeAt,
           TypeAt
      <3>3. Counted(x)
        BY <3>1, <3>2, CountedTypeRise, Zenon
      <3> QED
        BY <2>7, <3>3, ChargesOne, Zenon DEF SameLocals, SameTarget
    <2>10. Referenced(t)
      <3>1. \A i \in Nat \ {0, 1} :
              Recorded(x, i)' + (Adding(t, i)' + Displaced(t, i)' + Detached(t, i)')
                = Recorded(x, i) + (Adding(t, i) + Displaced(t, i) + Detached(t, i))
        BY Zenon DEF SameLocals, SameTarget, Recorded, Adding, Displaced, Detached, One
      <3> QED
        BY <3>1, RefMoves, Zenon
    <2>11. Peaked(t) /\ RestoreStays(t)
      <3>1. pc[t] \in RestoreLabels
        BY Zenon DEF RestoreLabels
      <3> QED
        BY <3>1, PeakStays, Zenon
    <2> QED
      BY <2>6, <2>7, <2>8, <2>9, <2>10, <2>11, Zenon DEF Progress
  <1> QED
    BY <1>2, <1>3, <1>4, <1>5, Zenon

(* Every step of Remap keeps the books of its thread. *)
LEMMA RemapInv ==
    ASSUME FrameInv, TrackerOK, HoldersCounted, NEW t \in Threads, Knows(t),
           \/ RemapLock(t) \/ RemapUndoType(t) \/ RemapUsed(t) \/ RemapType(t)
           \/ RemapPeak(t)
    PROVE  Progress(t)
  <1>1. Numbers(t) /\ Slotted(t)
    BY NumbersTyped, Zenon
  <1> USE <1>1
  (* Both shards are taken; the old record is lifted out, a record at the new
     address is found. *)
  <1>2. CASE RemapLock(t)
    <2>1. pc[t] = "remap"
      BY <1>2, Zenon DEF RemapLock
    <2>2. PICK x \in Keys, y \in Keys : x = call[t].ptr /\ y = call[t].old
      BY <2>1, Zenon DEF Knows, LocalsSet
    <2>3. /\ pc[t] = "remap" /\ Worker(x) = NoThread /\ Worker(y) = NoThread
          /\ call[t].displaced = NoRecord
      BY <1>2, <2>2, Zenon DEF Knows, LocalsSet, AddLabels, RemapLabels, SnapLabels, LockFree, Worker,
         RemapLock
    <2> USE <1>2, <2>2, <2>3
    <2>4. CASE pointers[y] = NoRecord
      <3>1. /\ pc'[t] = "added" /\ call' = call
            /\ UNCHANGED <<pointers, shardMutex, current, peak, frames>>
        BY <2>4, Zenon DEF TrackerOK, Goto, frameVars, RemapLock
      <3>2. TrackerOK'
        BY <2>4, <3>1, Zenon DEF TrackerOK, Goto, Labels, RemapLock
      <3>3. OthersKept(t) /\ ShardStep(t) /\ RecordStep(t)
        BY <2>4, <3>1, Zenon DEF TrackerOK, OthersKept, ShardStep, RecordStep, Goto, RemapLock
      <3>4. Knows(t)' /\ RestoreStays(t)
        BY <3>1, Zenon DEF Knows, ShardsHeld, LocalsSet, RecordsKnown, LockedLabels, AddLabels,
           RemapLabels, SnapLabels, RestoreStays, RestoreLabels
      <3>5. \A i : /\ Adding(t, i)' = Adding(t, i) /\ Displaced(t, i)' = Displaced(t, i)
                   /\ Detached(t, i)' = Detached(t, i)
        BY <3>1, Zenon DEF Adding, Displaced, Detached
      <3>6. Charged /\ Referenced(t) /\ Peaked(t)
        BY <3>1, <3>3, <3>5, PlainStep, Zenon DEF ChargeLabels, RaisingLabels, TrackerOK
      <3> QED
        BY <3>2, <3>3, <3>4, <3>6, Zenon DEF Progress
    <2>5. CASE pointers[y] # NoRecord
      <3> DEFINE rec == pointers[y]
                 d == IF x = y THEN NoRecord ELSE pointers[x]
                 l == IF d = NoRecord THEN "remapUsed" ELSE "remapUndoType"
      <3>1. /\ rec \in Records /\ d \in Slots /\ call[t].size - rec.size \in Int
            /\ rec.mem_type \in MemTypes /\ rec.hash_index \in Nat /\ rec.size \in Nat
            /\ d # NoRecord => d \in Records /\ d.size \in Nat
        BY <2>5 DEF Numbers, Slotted, Records, Slots
      <3>12. [pointers EXCEPT ![y] = NoRecord][x] = d
        BY Zenon DEF TrackerOK
      <3>2. /\ pc' = [pc EXCEPT ![t] = l] /\ Lock(t, {y, x})
            /\ call' = [call EXCEPT ![t].hash_index = rec.hash_index, ![t].type = rec.mem_type,
                                    ![t].delta = call[t].size - rec.size, ![t].displaced = d]
            /\ pointers' = [pointers EXCEPT ![y] = NoRecord]
            /\ peak' = peak /\ frames' = frames
        <4> HIDE DEF d
        <4> QED
          BY <2>5, <3>12, Zenon DEF Goto, frameVars, RemapLock
      <3>13. /\ current' = IF d = NoRecord THEN current ELSE [current EXCEPT !.used = @ - d.size]
             /\ current \in Signed
        <4> HIDE DEF d
        <4> QED
          BY <2>5, <3>12, Zenon DEF TrackerOK, RemapLock
      <3>3. UsedMoves(0 - (IF d = NoRecord THEN 0 ELSE d.size))
        <4> HIDE DEF d
        <4> QED
          BY <3>1, <3>13 DEF Signed, UsedMoves
      <3>4. /\ pc'[t] = l /\ call'[t].ptr = x /\ call'[t].old = y /\ call'[t].size = call[t].size
            /\ call'[t].type = rec.mem_type /\ call'[t].hash_index = rec.hash_index
            /\ call'[t].delta = call[t].size - rec.size /\ call'[t].total = call[t].total
            /\ call'[t].displaced = d /\ call'[t].previous = call[t].previous
        <4>1. call \in [Threads -> AnyCalls] /\ pc \in [Threads -> Labels]
          BY Zenon DEF TrackerOK
        <4> HIDE <1>1, <1>2, <2>3 DEF d, rec, l
        <4> QED
          BY <3>2, <4>1 DEF AnyCalls
      <3>11. /\ Worker(x)' = t /\ Worker(y)' = t
            /\ pointers'[y] = NoRecord /\ OnlyAt(y) /\ (x # y => pointers'[x] = pointers[x])
        BY <3>2, ShardForAssumption, Zenon DEF TrackerOK, Lock, Worker, OnlyAt
      <3>5. TrackerOK'
        <4> DEFINE f == [call EXCEPT ![t].hash_index = rec.hash_index]
                   g == [f EXCEPT ![t].type = rec.mem_type]
                   h == [g EXCEPT ![t].delta = call[t].size - rec.size]
        <4>1. f \in [Threads -> AnyCalls]
          BY <3>1, CallTyped, Zenon DEF TrackerOK
        <4> HIDE DEF f
        <4>2. g \in [Threads -> AnyCalls]
          BY <3>1, <4>1, CallTyped, Zenon
        <4> HIDE DEF g
        <4>3. h \in [Threads -> AnyCalls]
          BY <3>1, <4>2, CallTyped, Zenon
        <4> HIDE DEF h
        <4>4. [h EXCEPT ![t].displaced = d] \in [Threads -> AnyCalls]
          BY <3>1, <4>3, CallTyped, Zenon
        <4>5. call' \in [Threads -> AnyCalls]
          BY <3>2, <4>4, Zenon DEF f, g, h
        <4>6. current' \in Signed
          BY <3>1, <3>13 DEF Signed
        <4> QED
          <5>1. pointers' \in [Keys -> Records \cup {NoRecord}] /\ pc' \in [Threads -> Labels]
            BY <3>2, Zenon DEF TrackerOK, Labels
          <5>2. shardMutex' \in [Shards -> Threads \cup {NoThread}]
            BY <3>2, Zenon DEF TrackerOK, Lock
          <5> QED
            BY <3>2, <4>5, <4>6, <5>1, <5>2, Zenon DEF TrackerOK
      <3>6. OthersKept(t) /\ ShardStep(t) /\ RecordStep(t)
        BY <3>2, Zenon DEF TrackerOK, OthersKept, ShardStep, RecordStep, Lock, Worker
      <3> HIDE DEF rec, d, l
      <3>7. Knows(t)'
        <4>1. l \in {"remapUsed", "remapUndoType"} /\ (l = "remapUndoType" <=> d # NoRecord)
          BY Zenon DEF l
        <4>2. /\ l = "remapUndoType" => pointers'[x] = d
              /\ l = "remapUsed" => pointers'[x] = NoRecord
          BY <3>11, <4>1, Zenon DEF d
        <4> QED
          <5>1. ShardsHeld(t)' /\ RecordsKnown(t)'
            BY <3>4, <3>11, <4>1, <4>2, Zenon DEF ShardsHeld, RecordsKnown, LockedLabels, AddLabels,
               RemapLabels, Worker
          <5>2. LocalsSet(t)'
            BY <3>1, <3>4, <4>1 DEF Numbers, Knows, LocalsSet, AddLabels, RemapLabels,
               SnapLabels
          <5> QED
            BY <5>1, <5>2, Zenon DEF Knows
      <3>8. Charged
        <4>1. Kept(y)
          <5>1. Used(y) = rec.size /\ \A n : Typed(y, n) = Of(n, rec.mem_type, rec.size)
            BY <2>5, ThreadsAssumption, Zenon DEF Used, Typed, SizeAt, TypeAt, rec
          <5>2. Moving(t)' = rec.size
            BY <3>1, <3>4 DEF Moving, Numbers
          <5>3. Used(y)' = rec.size /\ \A n : Typed(y, n)' = Of(n, rec.mem_type, rec.size)
            BY <3>4, <3>11, <5>2, Zenon DEF Used, UsedBy, Typed, TypedBy, l, d
          <5> QED
            BY <5>1, <5>3, Zenon DEF Kept
        <4>2. ASSUME NEW k \in Keys, k # x, k # y PROVE Kept(k)
          <5>1. ~Touches(t, k) /\ ~Touches(t, k)'
            BY <3>4, <4>2, Zenon DEF Touches
          <5> QED
            BY <3>11, <3>6, <4>2, <5>1, ChargeElsewhere, Zenon DEF OnlyAt
        <4>3. CASE x = y
          <5>1. UNCHANGED current
            BY <3>13, <4>3, Zenon DEF d
          <5>2. \A k \in Keys : Kept(k)
            BY <4>1, <4>2, <4>3, Zenon
          <5> QED
            BY <5>1, <5>2, Zenon DEF Charged, ChargeNone
        <4>4. CASE x # y
          <5>1. Used(x) = SizeAt(x) /\ \A n : Typed(x, n) = TypeAt(x, n)
            BY ThreadsAssumption, Zenon DEF Used, Typed
          <5>2. Used(x)' = 0 /\ \A n : Typed(x, n)' = TypeAt(x, n)
            BY <3>4, <3>11, <4>4, Zenon DEF Used, UsedBy, Typed, TypedBy, SizeAt, TypeAt, l, d
          <5>3. SizeAt(x) = IF d = NoRecord THEN 0 ELSE d.size
            BY <4>4, Zenon DEF SizeAt, d
          <5>4. TypeAt(x, "host") \in Int /\ TypeAt(x, "dma") \in Int
            BY <3>1, <4>4 DEF TypeAt, Of, d
          <5>5. Counted(x)
            BY <3>1, <3>3, <5>1, <5>2, <5>3, <5>4 DEF Counted, UsedMoves, Numbers
          <5> QED
            BY <4>1, <4>2, <5>5, Zenon DEF Charged, ChargeOne
        <4> QED
          BY <4>3, <4>4, Zenon
      <3>9. Referenced(t)
        <4>1. \A i \in Nat \ {0, 1} :
                Recorded(y, i)' + (Adding(t, i)' + Displaced(t, i)' + Detached(t, i)')
                  = Recorded(y, i) + (Adding(t, i) + Displaced(t, i) + Detached(t, i))
          <5> HIDE <1>1, <1>2
          <5> QED
            BY <2>5, <3>4, <3>11 DEF Recorded, Adding, Displaced, Detached, One, rec, d, l
        <4> QED
          BY <3>2, <3>11, <4>1, RefMoves, Zenon
      <3>10. Peaked(t) /\ RestoreStays(t)
        <4>1. PICK n \in Nat : n = IF d = NoRecord THEN 0 ELSE d.size
          <5> HIDE DEF d
          <5> QED
            BY <3>1
        <4>2. Falls
          <5>1. UsedMoves(0 - n)
            BY <3>3, <4>1, Zenon
          <5> QED
            BY <5>1, UsedFalls, Zenon
        <4>3. pc[t] \notin RaisingLabels /\ pc'[t] \notin RestoreLabels
          <5>1. l \in {"remapUndoType", "remapUsed"}
            BY Zenon DEF l
          <5> HIDE DEF l
          <5> QED
            BY <1>2, <3>4, <5>1, Zenon DEF RemapLock, RaisingLabels, RestoreLabels
        <4> QED
          BY <3>2, <3>4, <4>2, <4>3, PeakStays, Zenon
      <3> QED
        BY <3>5, <3>6, <3>7, <3>8, <3>9, <3>10, Zenon DEF Progress
    <2> QED
      BY <2>4, <2>5, Zenon
  (* The displaced record is erased under its shard; the moved one stays charged. *)
  <1>3. CASE RemapUndoType(t)
    <2>1. PICK x \in Keys, y \in Keys : x = call[t].ptr /\ y = call[t].old
      BY <1>3, Zenon DEF RemapUndoType, Knows, LocalsSet, RemapLabels
    <2>2. /\ pc[t] = "remapUndoType" /\ call[t].displaced \in Records /\ call[t].displaced.size \in Nat
          /\ call[t].displaced.mem_type \in MemTypes
          /\ Worker(x) = t /\ pointers[x] = call[t].displaced /\ call[t].displaced # NoRecord
          /\ Worker(y) = t /\ pointers[y] = NoRecord /\ x # y
      BY <1>3, <2>1, Zenon DEF Knows, Slotted, Records, LocalsSet, RecordsKnown, ShardsHeld,
         LockedLabels, RemapLabels, Worker, RemapUndoType
    <2>3. /\ pc'[t] = "remapUsed" /\ SameLocals(t) /\ call'[t].total = call[t].total
          /\ pointers'[x] = NoRecord /\ OnlyAt(x) /\ shardMutex' = shardMutex
          /\ peak' = peak /\ frames' = frames
      BY <1>3, <2>1, <2>2, Zenon DEF TrackerOK, Goto, SameLocals, SameTarget, OnlyAt, frameVars,
         RemapUndoType
    <2>4. TypeMoves(call[t].displaced.mem_type, 0 - call[t].displaced.size) /\ current' \in Signed
      <3>1. call[t].displaced.size \in Int /\ call[t].displaced.mem_type \in MemTypes
        BY <2>2
      <3>2. /\ current \in Signed
            /\ current' = [current EXCEPT ![Counter(call[t].displaced.mem_type)] =
                                            @ - call[t].displaced.size]
        BY <1>3, Zenon DEF TrackerOK, RemapUndoType
      <3> QED
        BY <3>1, <3>2, TypeCounted, Zenon
    <2> USE <1>3, <2>1, <2>2, <2>3, <2>4
    <2>5. TrackerOK'
      BY Zenon DEF TrackerOK, Goto, Labels, RemapUndoType
    <2>6. OthersKept(t) /\ ShardStep(t) /\ RecordStep(t)
      BY Zenon DEF TrackerOK, OthersKept, ShardStep, RecordStep, Worker, Goto, RemapUndoType
    <2>7. Knows(t)'
      BY Zenon DEF SameLocals, SameTarget, Knows, ShardsHeld, LocalsSet, RecordsKnown, LockedLabels,
         AddLabels, RemapLabels, SnapLabels, OnlyAt
    <2>8. Charged
      <3>1. Used(x) = 0 /\ \A n : Typed(x, n) = Of(n, call[t].displaced.mem_type, call[t].displaced.size)
        BY Zenon DEF Used, UsedBy, Typed, TypedBy, SizeAt, TypeAt
      <3>2. Used(x)' = 0 /\ \A n : Typed(x, n)' = 0
        BY Zenon DEF SameLocals, SameTarget, Worker, Used, UsedBy, Typed, TypedBy, SizeAt, TypeAt
      <3>3. Counted(x)
        <4>1. Used(x) \in Nat
          BY <3>1
        <4> QED
          BY <3>1, <3>2, <4>1, CountedTypeFall, Zenon
      <3>4. Kept(y)
        BY Zenon DEF SameLocals, SameTarget, Worker, Kept, Used, UsedBy, Typed, TypedBy, Moving
      <3>5. ASSUME NEW k \in Keys, k # x, k # y PROVE Kept(k)
        <4>1. ~Touches(t, k) /\ ~Touches(t, k)'
          BY <3>5, Zenon DEF SameLocals, SameTarget, Touches
        <4> QED
          BY <2>6, <3>5, <4>1, ChargeElsewhere, Zenon DEF OnlyAt
      <3> QED
        BY <3>3, <3>4, <3>5, Zenon DEF Charged, ChargeOne
    <2>9. Referenced(t)
      <3>1. \A i \in Nat \ {0, 1} :
              Recorded(x, i)' + (Adding(t, i)' + Displaced(t, i)' + Detached(t, i)')
                = Recorded(x, i) + (Adding(t, i) + Displaced(t, i) + Detached(t, i))
        <4> TAKE i \in Nat \ {0, 1}
        <4>1. PICK v \in Bits, c \in Bits, d \in Bits :
                v = One(call[t].displaced.hash_index = i) /\ c = Adding(t, i) /\ d = Detached(t, i)
          BY Zenon DEF One, Bits, Adding, Detached
        <4>2. /\ Detached(t, i) = d /\ Detached(t, i)' = d
              /\ Recorded(x, i) = v /\ Adding(t, i) = c /\ Displaced(t, i) = 0
              /\ Recorded(x, i)' = 0 /\ Adding(t, i)' = c /\ Displaced(t, i)' = v
          BY <4>1, Zenon DEF SameLocals, SameTarget, Recorded, Adding, Displaced, Detached, One
        <4> HIDE <1>1, <1>3, <2>1, <2>2, <2>3, <2>4
        <4> QED
          BY <4>2, HandedOver, Zenon
      <3> QED
        BY <3>1, RefMoves, Zenon
    <2>10. Peaked(t) /\ RestoreStays(t)
      <3>1. Falls
        BY TypeFalls, Zenon
      <3>2. pc[t] \notin RaisingLabels /\ pc'[t] \notin RestoreLabels
        BY Zenon DEF RaisingLabels, RestoreLabels
      <3> QED
        BY <3>1, <3>2, PeakStays, Zenon
    <2> QED
      BY <2>5, <2>6, <2>7, <2>8, <2>9, <2>10, Zenon DEF Progress
  (* The record goes in at its new address and the growth is counted. *)
  <1>4. CASE RemapUsed(t)
    <2>1. PICK x \in Keys, y \in Keys : x = call[t].ptr /\ y = call[t].old
      BY <1>4, Zenon DEF RemapUsed, Knows, LocalsSet, RemapLabels
    <2>2. /\ pc[t] = "remapUsed" /\ Moving(t) \in Nat
          /\ Worker(x) = t /\ pointers[x] = NoRecord /\ Worker(y) = t /\ pointers[y] = NoRecord
      BY <1>4, <2>1, Zenon DEF Knows, Moving, LocalsSet, RecordsKnown, ShardsHeld, LockedLabels,
         RemapLabels, Worker, RemapUsed
    <2>3. PICK r \in Records : r = Made(t)
      BY MadeTyped, Zenon
    <2>4. r.size = call[t].size /\ r.hash_index = call[t].hash_index /\ r.mem_type = call[t].type
      BY <2>3, MadeTyped, Zenon
    <2>5. /\ pc'[t] = "remapType" /\ SameLocals(t) /\ call'[t].total = current'.used
          /\ pointers'[x] = r /\ r # NoRecord /\ OnlyAt(x) /\ shardMutex' = shardMutex
          /\ peak' = peak /\ frames' = frames
      BY <1>4, <2>1, <2>2, <2>3, NoRecordAssumption DEF TrackerOK, Goto, SameLocals, SameTarget,
         OnlyAt, Made, Signed, frameVars, RemapUsed
    <2>6. UsedMoves(call[t].delta) /\ current' \in Signed
      <3>1. call[t].delta \in Int
        BY Zenon DEF Numbers
      <3>2. current \in Signed /\ current' = [current EXCEPT !.used = @ + call[t].delta]
        BY <1>4, Zenon DEF TrackerOK, RemapUsed
      <3> QED
        BY <3>1, <3>2, UsedCounted, Zenon
    <2>7. call' \in [Threads -> AnyCalls]
      <3>1. PICK v \in Int : v = current.used + call[t].delta
        BY DEF Numbers
      <3>2. call \in [Threads -> AnyCalls] /\ call' = [call EXCEPT ![t].total = v]
        BY <1>4, <3>1, Zenon DEF TrackerOK, RemapUsed
      <3> QED
        BY <3>1, <3>2, CallTyped, Zenon
    <2> USE <1>4, <2>1, <2>2, <2>4, <2>5, <2>6
    <2>8. TrackerOK'
      BY <2>3, <2>7, Zenon DEF TrackerOK, Made, Goto, Labels, RemapUsed
    <2>9. OthersKept(t) /\ ShardStep(t) /\ RecordStep(t)
      BY Zenon DEF TrackerOK, OthersKept, ShardStep, RecordStep, Worker, Goto, RemapUsed
    <2>10. Knows(t)'
      <3>1. Made(t)' = r
        BY <2>3, Zenon DEF Made, SameLocals, SameTarget
      <3> QED
        BY <3>1, Zenon DEF SameLocals, SameTarget, Knows, ShardsHeld, LocalsSet, RecordsKnown,
           LockedLabels, AddLabels, RemapLabels, SnapLabels
    <2>11. Charged
      <3>1. /\ Used(y) = Moving(t) /\ \A n : Typed(y, n) = Of(n, call[t].type, Moving(t))
            /\ x # y => Used(x) = 0 /\ \A n : Typed(x, n) = 0
        BY Zenon DEF Used, UsedBy, Typed, TypedBy, SizeAt, TypeAt
      <3>2. /\ Used(x)' = call[t].size /\ \A n : Typed(x, n)' = Of(n, call[t].type, Moving(t))
            /\ x # y => Used(y)' = 0 /\ \A n : Typed(y, n)' = 0
        <4>1. /\ Used(x)' = UsedBy(t, x)' /\ \A n : Typed(x, n)' = TypedBy(t, x, n)'
              /\ Used(y)' = UsedBy(t, y)' /\ \A n : Typed(y, n)' = TypedBy(t, y, n)'
          BY Zenon DEF Worker, Used, Typed
        <4>2. UsedBy(t, x)' = call[t].size /\ \A n : TypedBy(t, x, n)' = Of(n, call[t].type, Moving(t))
          BY Zenon DEF SameLocals, SameTarget, Moving, UsedBy, TypedBy, SizeAt
        <4>3. x # y => UsedBy(t, y)' = 0 /\ \A n : TypedBy(t, y, n)' = 0
          BY Zenon DEF SameLocals, SameTarget, OnlyAt, UsedBy, TypedBy, SizeAt, TypeAt
        <4> QED
          BY <4>1, <4>2, <4>3, Zenon
      <3>3. ASSUME NEW k \in Keys, k # x, k # y PROVE Kept(k)
        <4>1. ~Touches(t, k) /\ ~Touches(t, k)'
          BY <3>3, Zenon DEF SameLocals, SameTarget, Touches
        <4> QED
          BY <2>9, <3>3, <4>1, ChargeElsewhere, Zenon DEF OnlyAt
      <3>4. CASE x = y
        <4>1. Counted(x)
          <5> HIDE <1>4, <2>1, <2>4, <2>5
          <5> QED
            BY <3>1, <3>2, <3>4 DEF Counted, UsedMoves, Numbers, Moving, Of
        <4> QED
          BY <3>3, <3>4, <4>1, Zenon DEF Charged, ChargeOne
      <3>5. CASE x # y
        <4>1. /\ current'.used = current.used + (Used(y)' - Used(y)) + (Used(x)' - Used(x))
              /\ current'.host = current.host /\ current'.dma = current.dma
          <5> HIDE <1>4, <2>1, <2>4, <2>5
          <5> QED
            BY <3>1, <3>2, <3>5 DEF UsedMoves, Numbers, Moving
        <4>2. \A n : Typed(y, n)' - Typed(y, n) = Typed(x, n) - Typed(x, n)'
          BY <3>1, <3>2, <3>5, Zenon DEF Of
        <4> QED
          BY <3>3, <3>5, <4>1, <4>2, Zenon DEF Charged, ChargeTwo
      <3> QED
        BY <3>4, <3>5, Zenon
    <2>12. Referenced(t)
      <3>1. \A i \in Nat \ {0, 1} :
              Recorded(x, i)' + (Adding(t, i)' + Displaced(t, i)' + Detached(t, i)')
                = Recorded(x, i) + (Adding(t, i) + Displaced(t, i) + Detached(t, i))
        <4> TAKE i \in Nat \ {0, 1}
        <4>1. PICK v \in Bits, c \in Bits, d \in Bits :
                v = One(call[t].hash_index = i) /\ c = Displaced(t, i) /\ d = Detached(t, i)
          BY Zenon DEF One, Bits, Displaced, Detached
        <4>2. /\ Detached(t, i) = d /\ Detached(t, i)' = d
              /\ Recorded(x, i) = 0 /\ Adding(t, i) = v /\ Displaced(t, i) = c
              /\ Recorded(x, i)' = v /\ Adding(t, i)' = 0 /\ Displaced(t, i)' = c
          BY <4>1, Zenon DEF SameLocals, SameTarget, Recorded, Adding, Displaced, Detached, One
        <4> HIDE <1>1, <1>4, <2>1, <2>2, <2>4, <2>5, <2>6
        <4> QED
          BY <4>2, HandedIn, Zenon
      <3> QED
        BY <3>1, RefMoves, Zenon
    <2>13. Peaked(t) /\ RestoreStays(t)
      <3>1. pc'[t] \in RaisingLabels /\ pc'[t] \notin RestoreLabels
        BY Zenon DEF RaisingLabels, RestoreLabels
      <3>2. call[t].delta \in Int
        BY Zenon DEF Numbers
      <3> QED
        BY <3>1, <3>2, UsedPeakStays, Zenon
    <2> QED
      BY <2>8, <2>9, <2>10, <2>11, <2>12, <2>13, Zenon DEF Progress
  (* The type's counter follows; only growth raises its peak. *)
  <1>5. CASE RemapType(t)
    <2>1. PICK x \in Keys : x = call[t].ptr
      BY <1>5, Zenon DEF RemapType, Knows, LocalsSet
    <2>2. /\ pc[t] = "remapType" /\ Worker(x) = t /\ pointers[x] = Made(t)
      BY <1>5, <2>1, Zenon DEF Knows, RecordsKnown, ShardsHeld, LockedLabels, RemapLabels, Worker,
         RemapType
    <2>3. PICK r \in Records : r = Made(t)
      BY MadeTyped, Zenon
    <2>4. r.size = call[t].size /\ r.hash_index = call[t].hash_index /\ r.mem_type = call[t].type
      BY <2>3, MadeTyped, Zenon
    <2>5. /\ pc'[t] = "remapPeak" /\ SameLocals(t) /\ call'[t].total = call[t].total
          /\ pointers' = pointers /\ pointers[x] = r /\ r # NoRecord /\ OnlyAt(x)
          /\ shardMutex' = shardMutex /\ Worker(x)' = t
          /\ frames' = frames
      BY <1>5, <2>1, <2>2, <2>3, NoRecordAssumption, Zenon DEF TrackerOK, Goto, SameLocals, SameTarget,
         OnlyAt, Worker, frameVars, RemapType
    <2>6. TypeMoves(call[t].type, call[t].delta) /\ current' \in Signed
      <3>1. call[t].delta \in Int /\ call[t].type \in MemTypes
        BY <2>2, Zenon DEF Numbers
      <3>2. current \in Signed /\ current' = [current EXCEPT ![Counter(call[t].type)] = @ + call[t].delta]
        BY <1>5, Zenon DEF TrackerOK, RemapType
      <3> QED
        BY <3>1, <3>2, TypeCounted, Zenon
    <2>7. TypesPeaked /\ peak' \in Signed
      <3>1. PICK d \in Int, type \in MemTypes : d = call[t].delta /\ type = call[t].type
        BY Zenon DEF Numbers
      <3>2. /\ current \in Signed /\ peak \in Signed
            /\ current' = [current EXCEPT ![Counter(type)] = @ + d]
        BY <1>5, <3>1, Zenon DEF TrackerOK, RemapType
      <3>3. \/ /\ d >= 0
               /\ peak' = [peak EXCEPT ![Counter(type)] =
                             RaisePeak(Counter(type), current[Counter(type)] + d)]
            \/ d < 0 /\ peak' = peak
        BY <1>5, <3>1 DEF RemapType
      <3> QED
        BY <3>2, <3>3, TypeRaised, Zenon
    <2> USE <1>5, <2>1, <2>2, <2>5, <2>6, <2>4
    <2>8. TrackerOK'
      BY <2>7, Zenon DEF TrackerOK, frameVars, Goto, Labels, RemapType
    <2>9. OthersKept(t) /\ ShardStep(t) /\ RecordStep(t)
      BY Zenon DEF TrackerOK, OthersKept, ShardStep, RecordStep, Worker, Goto, RemapType
    <2>10. Knows(t)'
      <3>1. Made(t)' = r
        BY <2>3, Zenon DEF Made, SameLocals, SameTarget
      <3> QED
        BY <3>1, Zenon DEF SameLocals, SameTarget, Knows, ShardsHeld, LocalsSet, RecordsKnown,
           LockedLabels, AddLabels, RemapLabels, SnapLabels, Worker
    <2>11. Charged
      <3>1. Used(x) = call[t].size /\ \A n : Typed(x, n) = Of(n, call[t].type, Moving(t))
        BY ThreadsAssumption, Zenon DEF Used, UsedBy, Typed, TypedBy, SizeAt, TypeAt
      <3>2. Used(x)' = call[t].size /\ \A n : Typed(x, n)' = Of(n, call[t].type, call[t].size)
        BY ThreadsAssumption, Zenon DEF SameLocals, SameTarget, Used, UsedBy, Typed, TypedBy, SizeAt,
           TypeAt
      <3>3. Counted(x)
        <4> HIDE <1>5, <2>1, <2>5
        <4> QED
          BY <3>1, <3>2 DEF Numbers, Counted, TypeMoves, Of, Moving
      <3> QED
        BY <2>9, <3>3, ChargesOne, Zenon DEF SameLocals, SameTarget
    <2>12. Referenced(t)
      <3>1. \A i \in Nat \ {0, 1} :
              Recorded(x, i)' + (Adding(t, i)' + Displaced(t, i)' + Detached(t, i)')
                = Recorded(x, i) + (Adding(t, i) + Displaced(t, i) + Detached(t, i))
        <4>1. \A i : Recorded(x, i)' = Recorded(x, i)
          BY Zenon DEF Recorded
        <4>2. \A i : /\ Adding(t, i)' = Adding(t, i) /\ Displaced(t, i)' = Displaced(t, i)
                     /\ Detached(t, i)' = Detached(t, i)
          BY Zenon DEF SameLocals, SameTarget, Adding, Displaced, Detached
        <4> QED
          BY <4>1, <4>2, Zenon
      <3> QED
        BY <3>1, RefMoves, Zenon
    <2>13. Peaked(t) /\ RestoreStays(t)
      <3>1. /\ pc[t] \in RaisingLabels /\ pc'[t] \in RaisingLabels
            /\ pc'[t] \notin RestoreLabels /\ current'.used = current.used
        BY Zenon DEF RaisingLabels, RestoreLabels, TypeMoves
      <3> QED
        BY <2>7, <3>1, TypePeakStays, Zenon
    <2> QED
      BY <2>8, <2>9, <2>10, <2>11, <2>12, <2>13, Zenon DEF Progress
  (* The peak is raised and the shards given up. *)
  <1>6. CASE RemapPeak(t)
    <2>1. PICK x \in Keys : x = call[t].ptr
      BY <1>6, Zenon DEF RemapPeak, Knows, LocalsSet
    <2>2. /\ pc[t] = "remapPeak" /\ Worker(x) = t
      BY <1>6, <2>1, Zenon DEF Knows, ShardsHeld, LockedLabels, RemapLabels, Worker, RemapPeak
    <2>3. /\ pc'[t] \in {"snapshot", "dropDisplaced"} /\ call'[t].total = call[t].total
          /\ call'[t].ptr = x /\ call'[t].old = call[t].old
          /\ call'[t].displaced = call[t].displaced /\ call'[t].previous = call[t].previous
          /\ call'[t].hash_index = call[t].hash_index
          /\ pointers' = pointers /\ OnlyAt(x) /\ current' = current /\ frames' = frames
      BY <1>6, <2>1, <2>2 DEF TrackerOK, Goto, SameLocals, SameTarget, OnlyAt, Worker,
         frameVars, RemapPeak
    <2>4. peak' = [peak EXCEPT !.used = RaisePeak("used", call[t].total)]
      BY <1>6, <2>1, <2>2, Zenon DEF TrackerOK, Signed, frameVars, RemapPeak
    <2>5. call' \in [Threads -> AnyCalls]
      <3>1. PICK v \in Int : v = 0
        BY DEF Numbers
      <3>2. call \in [Threads -> AnyCalls] /\ call' = [call EXCEPT ![t].delta = v]
        BY <1>6, <2>1, <3>1, Zenon DEF TrackerOK, RemapPeak
      <3>3. [call EXCEPT ![t].delta = v] \in [Threads -> AnyCalls]
        BY <3>1, <3>2, CallTyped, Zenon
      <3> QED
        BY <3>2, <3>3, Zenon
    <2> USE <1>6, <2>1, <2>2, <2>3, <2>4
    <2>6. TrackerOK'
      BY <2>5, Zenon DEF TrackerOK, Numbers, Signed, RaisePeak, Unlock, Goto, Labels, RemapPeak
    <2>7. OthersKept(t) /\ ShardStep(t) /\ RecordStep(t)
      BY Zenon DEF TrackerOK, OthersKept, ShardStep, RecordStep, Worker, Goto, Unlock, RemapPeak
    <2>8. Knows(t)'
      BY Zenon DEF SameLocals, SameTarget, Knows, ShardsHeld, LocalsSet, RecordsKnown, LockedLabels,
         AddLabels, RemapLabels, SnapLabels, Worker
    <2>9. Charged
      <3>1. \A k \in Keys : ~Touches(t, k) /\ ~Touches(t, k)'
        BY Zenon DEF Touches, ChargeLabels
      <3> QED
        BY <2>7, <3>1, ChargeElsewhere, Zenon DEF Charged, ChargeNone
    <2>10. Referenced(t)
      <3>1. \A i \in Nat \ {0, 1} :
              Recorded(x, i)' + (Adding(t, i)' + Displaced(t, i)' + Detached(t, i)')
                = Recorded(x, i) + (Adding(t, i) + Displaced(t, i) + Detached(t, i))
        BY Zenon DEF SameLocals, SameTarget, Recorded, Adding, Displaced, Detached, One
      <3> QED
        BY <3>1, RefMoves, Zenon
    <2>11. Peaked(t) /\ RestoreStays(t)
      BY DEF Numbers, Peaked, RestoreStays, RestoreLabels, RaisingLabels, TrackerOK, Signed,
         RaisePeak
    <2> QED
      BY <2>6, <2>7, <2>8, <2>9, <2>10, <2>11, Zenon DEF Progress
  <1> QED
    BY <1>2, <1>3, <1>4, <1>5, <1>6, Zenon

(* Every step of the tracker keeps the books of its thread. *)
LEMMA TrackerInv ==
    ASSUME FrameInv, TrackerOK, HoldersCounted, NEW t \in Threads, Knows(t), TrackerStep(t)
    PROVE  Progress(t)
  BY AddInv, TakeInv, RemapInv, Zenon DEF TrackerStep

(* Every step of the tracker keeps the stack table. *)
LEMMA TrackerFrames ==
    ASSUME FrameInv, NEW t \in Threads, TrackerStep(t)
    PROVE  FrameInv'
  <1>1. CASE AddBacktrace(t)
    BY <1>1, FrameAdd, Zenon
  <1>2. CASE DropDisplaced(t)
    <2>1. UNCHANGED frameVars \/ \E index : RemoveBacktrace(index)
      BY <1>2, Zenon DEF DropDisplaced
    <2> QED
      BY <2>1, FrameRemove, Zenon DEF frameVars, FrameInv, FramesOK, KeysNameFrames
  <1>3. CASE ~AddBacktrace(t) /\ ~DropDisplaced(t)
    <2>1. UNCHANGED frameVars
      <3>1. CASE AddLock(t) \/ AddUndoType(t) \/ AddUsed(t) \/ AddType(t) \/ AddPeak(t)
        BY <3>1, Zenon DEF AddLock, AddUndoType, AddUsed, AddType, AddPeak, frameVars
      <3>2. CASE TakeEntry(t) \/ TakeEntryType(t) \/ RestoreEntry(t) \/ RestoreEntryType(t)
        BY <3>2, Zenon DEF TakeEntry, TakeEntryType, RestoreEntry, RestoreEntryType, frameVars
      <3>3. CASE \/ RemapLock(t) \/ RemapUndoType(t) \/ RemapUsed(t) \/ RemapType(t)
                 \/ RemapPeak(t)
        BY <3>3, Zenon DEF RemapLock, RemapUndoType, RemapUsed, RemapType, RemapPeak, frameVars
      <3> QED
        BY <1>3, <3>1, <3>2, <3>3, Zenon DEF TrackerStep
    <2> QED
      BY <2>1, Zenon DEF frameVars, FrameInv, FramesOK, KeysNameFrames
  <1> QED
    BY <1>1, <1>2, <1>3, Zenon
===============================================================================
