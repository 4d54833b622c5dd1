--------------------------- MODULE AccountingProofs ----------------------------
(***************************************************************************)
(* What one step of an interposed call (module MallocDebug) does to the    *)
(* books, the tracker's steps included, and the inductive invariant that   *)
(* makes it so: what every call knows of its shard, its locals, its record *)
(* and its block stays true whatever the other threads and the environment *)
(* do; then where the record of every block is while calls come and go     *)
(* without mremap.  All of it holds for any threads, addresses, shards,    *)
(* stacks, sizes and features, with the peak snapshot on or off.           *)
(***************************************************************************)
EXTENDS Accounting, PointerDataProofs

(* A step of a call inside MaybeRecordPeakSnapshot, as module MallocDebug and
   the calls see it: the label moves and nothing else. *)
SnapshotMove(t) ==
    /\ pc[t] \in SnapLabels
    /\ \E l \in SnapLabels \cup {"dropDisplaced"} : Goto(t, l)
    /\ UNCHANGED <<trackerVars, call, mem, calls>>

(* Every step of a thread, with the peak snapshot on or off. *)
AnyStep(t) == Entry(t) \/ HandlerStep(t) \/ SnapshotMove(t)
AnyNext == (\E t \in Threads : AnyStep(t)) \/ Environment

-------------------------------------------------------------------------------
(* The invariant of the calls *)

BaseOK ==
    /\ TrackerOK
    /\ mem \in [Keys -> Blocks \cup {NoBlock}]
    /\ calls \in 0..MaxCalls

(* The block a call works on is its own until the handler gives it up. *)
OwnsBlock(t) ==
    pc[t] \notin {"idle", "added", "done"} =>
        mem[call[t].ptr] # NoBlock /\ mem[call[t].ptr].owner = t

CallInv ==
    /\ FrameInv /\ BaseOK
    /\ \A t \in Threads : Knows(t) /\ OwnsBlock(t)

(* A step changes only blocks that are free, the application's or its own. *)
BlockStep(t) ==
    \A k \in Keys : \/ mem'[k] = mem[k] \/ mem[k] = NoBlock
                    \/ mem[k].owner \in {NoThread, t}

(* What a step of thread t does to the other threads. *)
Effect(t) == OthersKept(t) /\ ShardStep(t) /\ RecordStep(t) /\ BlockStep(t)

(* What every step of thread t establishes; only a call that failed restores. *)
Accounted(t) ==
    /\ BaseOK' /\ Effect(t) /\ Knows(t)' /\ OwnsBlock(t)'
    /\ Charged /\ Referenced(t) /\ Peaked(t)
    /\ RestoreStays(t) \/ "fail" \in Features

(* Another thread's knowledge survives such a step: the shards it holds keep its
   records, and a record is made only at the block of the call that makes it. *)
LEMMA OtherThreads ==
    ASSUME BaseOK, NEW t, Effect(t), t \in Threads => OwnsBlock(t),
           t \notin Threads => UNCHANGED pointers,
           NEW u \in Threads, u # t, Knows(u), OwnsBlock(u)
    PROVE  Knows(u)' /\ OwnsBlock(u)'
  <1> USE ShardForAssumption, ThreadsAssumption
  <1>1. pc'[u] = pc[u] /\ call'[u] = call[u]
    BY Zenon DEF Effect, OthersKept
  <1>2. LocalsSet(u)'
    BY <1>1, Zenon DEF Knows, LocalsSet
  <1>3. ShardsHeld(u)'
    BY <1>1, Zenon DEF Knows, ShardsHeld, LocalsSet, LockedLabels, AddLabels, RemapLabels, Effect, ShardStep
  <1>4. OwnsBlock(u)'
    BY <1>1, Zenon DEF Knows, OwnsBlock, LocalsSet, Effect, BlockStep
  <1>5. RecordsKnown(u)'
    <2>1. Made(u)' = Made(u)
      BY <1>1, Zenon DEF Made
    <2>2. CASE pc[u] \in LockedLabels
      <3>1. call[u].ptr \in Keys /\ pointers'[call[u].ptr] = pointers[call[u].ptr]
        BY <2>2, Zenon DEF Knows, ShardsHeld, LocalsSet, Effect, RecordStep, LockedLabels, AddLabels, RemapLabels
      <3>2. pc[u] \in RemapLabels => pointers'[call[u].old] = pointers[call[u].old]
        BY Zenon DEF Knows, ShardsHeld, LocalsSet, Effect, RecordStep
      <3> QED
        BY <1>1, <2>1, <2>2, <3>1, <3>2, Zenon DEF Knows, RecordsKnown, RemapLabels
    <2>3. CASE pc[u] \in {"taken", "restore"}
      <3>1. /\ call[u].ptr \in Keys /\ mem[call[u].ptr].owner = u
            /\ pointers[call[u].ptr] = NoRecord
        BY <2>3, Zenon DEF Knows, LocalsSet, OwnsBlock, RecordsKnown
      <3>2. pointers'[call[u].ptr] = NoRecord
        BY <3>1, Zenon DEF Effect, RecordStep, OwnsBlock
      <3> QED
        BY <1>1, <2>3, <3>2, Zenon DEF RecordsKnown
    <2> QED
      BY <1>1, <2>2, <2>3, Zenon DEF RecordsKnown, LockedLabels, AddLabels, RemapLabels
  <1> QED
    BY <1>2, <1>3, <1>4, <1>5, Zenon DEF Knows

-------------------------------------------------------------------------------
(* The handlers' own steps, between two calls of the tracker *)

(* The labels at which a call holds no shard and no charge is half made. *)
PlainLabels ==
    {"idle", "add", "take", "remap", "restore", "taken", "added", "done", "dropDisplaced"}
        \cup SnapLabels

(* Between plain labels, a step that leaves the tables alone keeps what the call
   knows and moves no charge and no peak. *)
LEMMA HandlerMove ==
    ASSUME TrackerOK, NEW t \in Threads, OthersKept(t), pc' \in [Threads -> Labels],
           call' \in [Threads -> AnyCalls], UNCHANGED tableVars,
           pc[t] \in PlainLabels, pc'[t] \in PlainLabels, LocalsSet(t)',
           pc'[t] \in {"taken", "restore"} => pointers[call'[t].ptr] = NoRecord,
           call'[t].total \in {call[t].total, 0}
    PROVE  TrackerOK' /\ Knows(t)' /\ ShardStep(t) /\ RecordStep(t) /\ Charged /\ Peaked(t)
  <1>1. UNCHANGED <<pointers, shardMutex, current, peak>>
    BY Zenon DEF tableVars
  <1>2. TrackerOK'
    BY <1>1, Zenon DEF TrackerOK
  <1>3. ShardStep(t) /\ RecordStep(t)
    BY <1>1, Zenon DEF ShardStep, RecordStep
  <1>4. Knows(t)'
    BY <1>1, Zenon DEF Knows, ShardsHeld, RecordsKnown, LockedLabels, AddLabels, RemapLabels, PlainLabels, SnapLabels
  <1>5. Charged
    <2>1. \A k \in Keys : ~Touches(t, k) /\ ~Touches(t, k)'
      BY Zenon DEF Touches, ChargeLabels, PlainLabels, SnapLabels
    <2> QED
      BY <1>1, <1>3, <2>1, ChargeElsewhere, Zenon DEF Charged, ChargeNone
  <1>6. Peaked(t)
    <2>1. pc[t] \notin RaisingLabels
      BY Zenon DEF RaisingLabels, PlainLabels, SnapLabels
    <2> QED
      BY <1>1, <2>1 DEF Peaked, TrackerOK, Signed
  <1> QED
    BY <1>2, <1>3, <1>4, <1>5, <1>6, Zenon

(* The records in the call's hands stay there. *)
LEMMA HeldRefs ==
    ASSUME FrameInv, NEW t \in Threads, NEW x \in Keys, UNCHANGED trackerVars,
           pc[t] \in PlainLabels, pc'[t] \in PlainLabels,
           call'[t].displaced = call[t].displaced, call'[t].previous = call[t].previous
    PROVE  Referenced(t)
  <1>1. UNCHANGED <<pointers, frames>>
    BY Zenon DEF trackerVars
  <1>2. OnlyAt(x)
    BY <1>1, Zenon DEF OnlyAt
  <1>3. \A i \in Nat \ {0, 1} :
          /\ Recorded(x, i)' = Recorded(x, i) /\ Adding(t, i)' = Adding(t, i)
          /\ Displaced(t, i)' = Displaced(t, i) /\ Detached(t, i)' = Detached(t, i)
    BY <1>1, Zenon DEF Recorded, Adding, Displaced, Detached, One, PlainLabels, SnapLabels
  <1> QED
    BY <1>1, <1>2, <1>3, RefMoves, Zenon

(* The reference of the detached record is given up with the record. *)
LEMMA ReleasedRefs ==
    ASSUME FrameInv, TrackerOK, HoldersCounted, NEW t \in Threads, NEW x \in Keys,
           UNCHANGED tableVars, pc[t] \in PlainLabels, pc'[t] \in PlainLabels,
           IF call[t].previous = NoRecord THEN UNCHANGED frameVars
           ELSE RemoveBacktrace(call[t].previous.hash_index),
           call'[t].displaced = call[t].displaced, call'[t].previous = NoRecord
    PROVE  Referenced(t)
  <1>1. UNCHANGED pointers
    BY Zenon DEF tableVars
  <1>2. \A i \in Nat \ {0, 1} : RefsOf(i)' = RefsOf(i) - Detached(t, i)
    <2>1. CASE call[t].previous = NoRecord
      BY <2>1, RefTypes DEF frameVars, RefsOf, Detached, One
    <2>2. CASE call[t].previous # NoRecord
      <3>1. PICK h \in Nat : h = call[t].previous.hash_index
        BY <2>2, NumbersTyped, Zenon DEF Slotted, Records
      <3>2. \A i \in Nat \ {0, 1} : RefsOf(i)' = RefsOf(i) - One(h = i /\ i \in DOMAIN frames)
        BY <2>2, <3>1, RemovedRefs, Zenon
      <3>3. \A i \in Nat \ {0, 1} : h = i => i \in DOMAIN frames
        <4>1. \A i \in Nat \ {0, 1} : h = i => Holds(t, i) # 0
          BY <2>2, <3>1 DEF Holds, Adding, Displaced, Detached, One, PlainLabels, SnapLabels
        <4> QED
          BY <4>1, Zenon DEF HoldersCounted
      <3> QED
        BY <2>2, <3>1, <3>2, <3>3, Zenon DEF Detached, One, PlainLabels, SnapLabels
    <2> QED
      BY <2>1, <2>2, Zenon
  <1>3. \A i \in Nat \ {0, 1} :
          /\ Recorded(x, i)' = Recorded(x, i) /\ Adding(t, i)' = 0 /\ Adding(t, i) = 0
          /\ Displaced(t, i)' = Displaced(t, i) /\ Detached(t, i)' = 0
    BY <1>1, Zenon DEF Recorded, Adding, Displaced, Detached, One, PlainLabels, SnapLabels
  <1>4. OnlyAt(x)
    BY <1>1, Zenon DEF OnlyAt
  <1> QED
    BY <1>2, <1>3, <1>4, RefTypes DEF Referenced, Holds

-------------------------------------------------------------------------------
(* The handlers *)

(* A step of a handler that changes the tables in no way is accounted for by
   what it does to the call's locals and to the block. *)
LEMMA HandlerAccounted ==
    ASSUME CallInv, HoldersCounted, NEW t \in Threads, NEW x \in Keys, OthersKept(t),
           pc' \in [Threads -> Labels], call' \in [Threads -> AnyCalls], UNCHANGED tableVars,
           pc[t] \in PlainLabels, pc'[t] \in PlainLabels, LocalsSet(t)',
           pc'[t] \in {"taken", "restore"} => pointers[call'[t].ptr] = NoRecord,
           call'[t].total \in {call[t].total, 0}, call'[t].displaced = call[t].displaced,
           \/ call'[t].previous = call[t].previous /\ UNCHANGED frameVars
           \/ /\ call'[t].previous = NoRecord
              /\ IF call[t].previous = NoRecord THEN UNCHANGED frameVars
                 ELSE RemoveBacktrace(call[t].previous.hash_index),
           mem' \in [Keys -> Blocks \cup {NoBlock}], calls' \in 0..MaxCalls,
           BlockStep(t), OwnsBlock(t)', RestoreStays(t) \/ "fail" \in Features
    PROVE  Accounted(t)
  <1>1. FrameInv /\ TrackerOK
    BY Zenon DEF CallInv, BaseOK
  <1>2. TrackerOK' /\ Knows(t)' /\ ShardStep(t) /\ RecordStep(t) /\ Charged /\ Peaked(t)
    BY <1>1, HandlerMove, Zenon
  <1>3. Referenced(t)
    <2>1. CASE call'[t].previous = call[t].previous /\ UNCHANGED frameVars
      <3>1. UNCHANGED trackerVars
        BY <2>1, Zenon DEF trackerVars, tableVars, frameVars
      <3> QED
        BY <1>1, <2>1, <3>1, HeldRefs, Zenon
    <2>2. CASE /\ call'[t].previous = NoRecord
               /\ IF call[t].previous = NoRecord THEN UNCHANGED frameVars
                  ELSE RemoveBacktrace(call[t].previous.hash_index)
      BY <1>1, <2>2, ReleasedRefs, Zenon
    <2> QED
      BY <2>1, <2>2, Zenon
  <1>4. BaseOK'
    BY <1>2, Zenon DEF BaseOK
  <1> QED
    BY <1>2, <1>3, <1>4, Zenon DEF Accounted, Effect

(* The job of a call stays as it is. *)
SameJob(t) ==
    /\ call'[t].ptr = call[t].ptr /\ call'[t].op = call[t].op
    /\ call'[t].size = call[t].size /\ call'[t].type = call[t].type

(* The tracker's steps change no local of it. *)
LEMMA JobKept ==
    ASSUME call \in [Threads -> AnyCalls], NEW t \in Threads,
           \/ call' = call
           \/ \E v : \/ call' = [call EXCEPT ![t].hash_index = v]
                    \/ call' = [call EXCEPT ![t].displaced = v]
                    \/ call' = [call EXCEPT ![t].total = v]
                    \/ call' = [call EXCEPT ![t].previous = v]
    PROVE  SameJob(t)
  <1>1. CASE call' = call
    BY <1>1, Zenon DEF SameJob
  <1>2. ASSUME NEW v, call' = [call EXCEPT ![t].hash_index = v] PROVE SameJob(t)
    BY <1>2 DEF AnyCalls, SameJob
  <1>3. ASSUME NEW v, call' = [call EXCEPT ![t].displaced = v] PROVE SameJob(t)
    BY <1>3 DEF AnyCalls, SameJob
  <1>4. ASSUME NEW v, call' = [call EXCEPT ![t].total = v] PROVE SameJob(t)
    BY <1>4 DEF AnyCalls, SameJob
  <1>5. ASSUME NEW v, call' = [call EXCEPT ![t].previous = v] PROVE SameJob(t)
    BY <1>5 DEF AnyCalls, SameJob
  <1> QED
    BY <1>1, <1>2, <1>3, <1>4, <1>5, Zenon

(* The tracker's own steps leave the blocks alone. *)
LEMMA TrackerAccounted ==
    ASSUME CallInv, HoldersCounted, NEW t \in Threads, TrackerStep(t), UNCHANGED <<mem, calls>>
    PROVE  Accounted(t)
  <1>1. FrameInv /\ TrackerOK /\ Knows(t) /\ OwnsBlock(t)
    BY Zenon DEF CallInv, BaseOK
  <1>2. Progress(t)
    BY <1>1, TrackerInv, Zenon
  <1>3. pc[t] \notin {"idle", "added", "done"} /\ call'[t].ptr = call[t].ptr
    <2>1. call \in [Threads -> AnyCalls]
      BY <1>1, Zenon DEF TrackerOK
    <2>2. CASE AddBacktrace(t) \/ AddLock(t) \/ AddUndoType(t) \/ AddUsed(t)
      BY <2>1, <2>2, JobKept, Zenon DEF SameJob, AddBacktrace, AddLock, AddUndoType, AddUsed
    <2>3. CASE AddType(t) \/ AddPeak(t)
      BY <2>1, <2>3, JobKept, Zenon DEF SameJob, AddType, AddPeak
    <2>4. CASE DropDisplaced(t)
      <3>1. call' = [call EXCEPT ![t].displaced = NoRecord, ![t].total = 0,
                                 ![t].hash_index = kBacktraceExitIndex]
        BY <2>4, Zenon DEF DropDisplaced
      <3>2. call'[t].ptr = call[t].ptr
        BY <2>1, <3>1 DEF AnyCalls
      <3> QED
        BY <2>4, <3>2, Zenon DEF DropDisplaced
    <2>5. CASE TakeEntry(t) \/ TakeEntryType(t) \/ RestoreEntry(t) \/ RestoreEntryType(t)
      BY <2>1, <2>5, JobKept, Zenon DEF SameJob, TakeEntry, TakeEntryType, RestoreEntry, RestoreEntryType
    <2>6. CASE RemapLock(t)
      BY <2>1, <2>6 DEF AnyCalls, RemapLock
    <2>7. CASE RemapUndoType(t) \/ RemapUsed(t) \/ RemapType(t)
      BY <2>1, <2>7, JobKept, Zenon DEF SameJob, RemapUndoType, RemapUsed, RemapType
    <2>8. CASE RemapPeak(t)
      BY <2>1, <2>8 DEF AnyCalls, RemapPeak
    <2> QED
      BY <2>2, <2>3, <2>4, <2>5, <2>6, <2>7, <2>8, Zenon DEF TrackerStep
  <1>4. BaseOK' /\ OwnsBlock(t)' /\ BlockStep(t)
    BY <1>1, <1>2, <1>3, Zenon DEF CallInv, BaseOK, Progress, OwnsBlock, BlockStep
  <1> QED
    BY <1>2, <1>4, Zenon DEF Progress, Accounted, Effect

(* The record and its stack are given up, then the block; realloc and munmap may
   fail and restore the record; the stack of a detached record goes last. *)
LEMMA ReleaseInv ==
    ASSUME CallInv, HoldersCounted, NEW t \in Threads,
           \/ FreeBacktrace(t) \/ SysFree(t) \/ SysMunmap(t) \/ SysFailed(t) \/ ReleasePrevious(t)
    PROVE  Accounted(t)
  <1>1. TrackerOK /\ LocalsSet(t) /\ RecordsKnown(t) /\ OwnsBlock(t)
    BY Zenon DEF CallInv, BaseOK, Knows
  <1>2. pc \in [Threads -> Labels] /\ call \in [Threads -> AnyCalls] /\ call[t] \in AnyCalls
    BY <1>1, Zenon DEF TrackerOK
  <1>3. mem \in [Keys -> Blocks \cup {NoBlock}] /\ calls \in 0..MaxCalls
    BY Zenon DEF CallInv, BaseOK
  <1>4. pc[t] \in {"taken", "added"} /\ pc[t] \in PlainLabels
    BY Zenon DEF FreeBacktrace, SysFree, SysMunmap, SysFailed, ReleasePrevious, PlainLabels
  <1>5. PICK x \in Keys : x = call[t].ptr
    BY <1>1, <1>4, Zenon DEF LocalsSet
  <1>6. call[t].displaced = NoRecord
    BY <1>1, <1>4, Zenon DEF LocalsSet, AddLabels, RemapLabels, SnapLabels
  <1>7. NoRecord \in Slots
    BY Zenon DEF Slots
  (* The locals: at most the detached record is dropped. *)
  <1>8. ASSUME call' = [call EXCEPT ![t].previous = NoRecord]
        PROVE  /\ call' \in [Threads -> AnyCalls] /\ call'[t] = [call[t] EXCEPT !.previous = NoRecord]
               /\ call'[t].ptr = x /\ call'[t].previous = NoRecord
               /\ call'[t].displaced = NoRecord /\ call'[t].total = call[t].total
               /\ \A u \in Threads : u # t => call'[u] = call[u]
    <2>1. call' \in [Threads -> AnyCalls]
      BY <1>2, <1>7, <1>8, CallTyped, Zenon
    <2>2. call'[t] = [call[t] EXCEPT !.previous = NoRecord] /\ \A u \in Threads : u # t => call'[u] = call[u]
      BY <1>2, <1>8, Zenon
    <2>3. /\ call'[t].ptr = x /\ call'[t].previous = NoRecord
          /\ call'[t].displaced = NoRecord /\ call'[t].total = call[t].total
      BY <1>2, <1>5, <1>6, <2>2, Zenon DEF AnyCalls
    <2> QED
      BY <2>1, <2>2, <2>3, Zenon
  <1>9. CASE FreeBacktrace(t)
    <2>1. /\ pc[t] = "taken" /\ pc' = pc /\ UNCHANGED <<tableVars, mem, calls>>
          /\ call[t].previous # NoRecord /\ RemoveBacktrace(call[t].previous.hash_index)
          /\ call' = [call EXCEPT ![t].previous = NoRecord]
      BY <1>9, Zenon DEF FreeBacktrace
    <2> USE <1>8, <2>1
    <2>2. OthersKept(t) /\ BlockStep(t) /\ OwnsBlock(t)' /\ RestoreStays(t)
      BY <1>1, <1>5, Zenon DEF OthersKept, BlockStep, OwnsBlock, RestoreStays
    <2>3. LocalsSet(t)' /\ pointers[call'[t].ptr] = NoRecord
      BY <1>1, <1>5, Zenon DEF LocalsSet, RecordsKnown, RemapLabels
    <2> QED
      BY <1>2, <1>3, <1>4, <1>6, <2>2, <2>3, HandlerAccounted, Zenon
  <1>10. CASE ReleasePrevious(t)
    <2>1. /\ pc[t] = "added" /\ Goto(t, "done") /\ UNCHANGED <<tableVars, mem, calls>>
          /\ IF call[t].previous = NoRecord THEN UNCHANGED frameVars
             ELSE RemoveBacktrace(call[t].previous.hash_index)
          /\ call' = [call EXCEPT ![t].previous = NoRecord]
      BY <1>10, Zenon DEF ReleasePrevious
    <2>2. /\ pc' \in [Threads -> Labels] /\ pc'[t] = "done" /\ pc'[t] \in PlainLabels
          /\ \A u \in Threads : u # t => pc'[u] = pc[u]
      BY <1>2, <2>1, Zenon DEF Goto, Labels, PlainLabels
    <2> USE <1>8, <2>1, <2>2
    <2>3. OthersKept(t) /\ BlockStep(t) /\ OwnsBlock(t)' /\ RestoreStays(t)
      BY Zenon DEF OthersKept, BlockStep, OwnsBlock, RestoreStays, RestoreLabels
    <2>4. LocalsSet(t)'
      BY <1>5, Zenon DEF LocalsSet, RemapLabels
    <2> QED
      BY <1>2, <1>3, <1>4, <1>6, <2>3, <2>4, HandlerAccounted, Zenon
  (* The block is given back, or the call failed; the locals stay. *)
  <1>11. CASE SysFree(t) \/ SysMunmap(t) \/ SysFailed(t)
    <2>1. /\ pc[t] = "taken" /\ UNCHANGED <<trackerVars, call, calls>>
          /\ \/ /\ \/ Goto(t, "done") /\ call[t].previous = NoRecord
                   \/ Goto(t, "added")
                /\ mem' = [mem EXCEPT ![x] = NoBlock]
             \/ /\ "fail" \in Features /\ mem' = mem
                /\ \/ Goto(t, "done") /\ call[t].previous = NoRecord
                   \/ Goto(t, "restore") /\ call[t].previous # NoRecord
      BY <1>5, <1>11, Zenon DEF SysFree, SysMunmap, SysFailed
    <2>2. UNCHANGED tableVars /\ UNCHANGED frameVars /\ call' = call /\ calls' = calls
      BY <2>1, Zenon DEF trackerVars, tableVars, frameVars
    <2>3. /\ pc' \in [Threads -> Labels] /\ pc'[t] \in {"done", "added", "restore"}
          /\ pc'[t] \in PlainLabels /\ \A u \in Threads : u # t => pc'[u] = pc[u]
          /\ pc'[t] = "done" => call[t].previous = NoRecord
          /\ pc'[t] = "restore" => call[t].previous # NoRecord /\ mem' = mem /\ "fail" \in Features
      BY <1>2, <2>1, Zenon DEF Goto, Labels, PlainLabels
    <2>4. mem' \in [Keys -> Blocks \cup {NoBlock}] /\ \A k \in Keys : k = x \/ mem'[k] = mem[k]
      BY <1>3, <2>1, Zenon
    <2> USE <2>2, <2>3
    <2>5. OthersKept(t) /\ BlockStep(t) /\ OwnsBlock(t)' /\ (RestoreStays(t) \/ "fail" \in Features)
      BY <1>1, <1>5, <2>1, <2>4, Zenon DEF OthersKept, BlockStep, OwnsBlock, RestoreStays, RestoreLabels
    <2>6. LocalsSet(t)' /\ pointers[call'[t].ptr] = NoRecord
      BY <1>1, <1>5, <1>6, <2>1, Zenon DEF LocalsSet, RecordsKnown, RemapLabels
    <2> QED
      BY <1>2, <1>3, <1>4, <2>4, <2>5, <2>6, HandlerAccounted, Zenon
  <1> QED
    BY <1>9, <1>10, <1>11, Zenon

(* The peak snapshot moves only the label of the call. *)
LEMMA SnapshotInv ==
    ASSUME CallInv, HoldersCounted, NEW t \in Threads, SnapshotMove(t)
    PROVE  Accounted(t)
  <1>1. TrackerOK /\ LocalsSet(t) /\ OwnsBlock(t)
    BY Zenon DEF CallInv, BaseOK, Knows
  <1>2. mem \in [Keys -> Blocks \cup {NoBlock}] /\ calls \in 0..MaxCalls
    BY Zenon DEF CallInv, BaseOK
  <1>3. pc \in [Threads -> Labels] /\ call \in [Threads -> AnyCalls]
    BY <1>1, Zenon DEF TrackerOK
  <1>4. PICK l \in SnapLabels \cup {"dropDisplaced"} : Goto(t, l)
    BY Zenon DEF SnapshotMove
  <1>5. /\ pc[t] \in SnapLabels /\ UNCHANGED tableVars /\ UNCHANGED frameVars
        /\ call' = call /\ mem' = mem /\ calls' = calls
    BY Zenon DEF SnapshotMove, trackerVars, tableVars, frameVars
  <1>6. /\ pc' \in [Threads -> Labels] /\ pc'[t] = l /\ \A u \in Threads : u # t => pc'[u] = pc[u]
    BY <1>3, <1>4, Zenon DEF Goto, Labels, SnapLabels
  <1>7. PICK x \in Keys : x = call[t].ptr
    BY <1>1, <1>5, Zenon DEF LocalsSet, SnapLabels
  <1>8. pc[t] \in PlainLabels /\ pc'[t] \in PlainLabels
    BY <1>4, <1>5, <1>6, Zenon DEF PlainLabels
  <1>9. OthersKept(t) /\ BlockStep(t) /\ OwnsBlock(t)' /\ RestoreStays(t)
    BY <1>1, <1>5, <1>6, Zenon DEF OthersKept, BlockStep, OwnsBlock, RestoreStays, RestoreLabels, SnapLabels
  <1>10. LocalsSet(t)' /\ pc'[t] \notin {"taken", "restore"}
    BY <1>1, <1>5, <1>6, <1>7, Zenon DEF LocalsSet, SnapLabels, RemapLabels
  <1> QED
    BY <1>2, <1>3, <1>5, <1>6, <1>8, <1>9, <1>10, HandlerAccounted, Zenon

(* The locals a moved block leaves a call with. *)
LEMMA MovedLocals ==
    ASSUME call \in [Threads -> AnyCalls], NEW t \in Threads, NEW k \in Keys,
           call' = [call EXCEPT ![t].ptr = k, ![t].type = "HOST"]
    PROVE  /\ call' \in [Threads -> AnyCalls]
           /\ call'[t].ptr = k /\ call'[t].type = "HOST" /\ call'[t].displaced = call[t].displaced
           /\ call'[t].previous = call[t].previous /\ call'[t].size = call[t].size
           /\ call'[t].op = call[t].op /\ call'[t].total = call[t].total
           /\ \A u \in Threads : u # t => call'[u] = call[u]
  <1> DEFINE c == [[call[t] EXCEPT !.ptr = k] EXCEPT !.type = "HOST"]
  <1>1. call' = [call EXCEPT ![t] = c]
    BY Zenon
  <1>2. call[t] \in AnyCalls
    BY Zenon
  <1>3. [call[t] EXCEPT !.ptr = k] \in AnyCalls
    BY <1>2, Zenon DEF AnyCalls
  <1>4. c \in AnyCalls
    BY <1>3, Zenon DEF AnyCalls, MemTypes
  <1>5. /\ c.ptr = k /\ c.type = "HOST" /\ c.displaced = call[t].displaced
        /\ c.previous = call[t].previous /\ c.size = call[t].size
        /\ c.op = call[t].op /\ c.total = call[t].total
    BY <1>2, Zenon DEF AnyCalls
  <1> HIDE DEF c
  <1> QED
    BY <1>1, <1>4, <1>5, Zenon

(* A new block is the call's that made it. *)
LEMMA NewBlock ==
    ASSUME NEW n \in Nat, NEW m \in MemTypes, NEW t \in Threads
    PROVE  Block(n, m, t) \in Blocks /\ Block(n, m, t) # NoBlock /\ Block(n, m, t).owner = t
  <1>1. Block(n, m, t) \in Blocks /\ Block(n, m, t).owner = t
    BY Zenon DEF Block, Blocks
  <1> QED
    BY <1>1, NoBlockAssumption, Zenon

(* SysRealloc: the block moves, and the new one is the call's to record. *)
LEMMA SysReallocInv ==
    ASSUME CallInv, HoldersCounted, NEW t \in Threads, SysRealloc(t)
    PROVE  Accounted(t)
  <1>1. TrackerOK /\ LocalsSet(t) /\ OwnsBlock(t)
    BY Zenon DEF CallInv, BaseOK, Knows
  <1>2. mem \in [Keys -> Blocks \cup {NoBlock}] /\ calls \in 0..MaxCalls
    BY Zenon DEF CallInv, BaseOK
  <1>3. pc \in [Threads -> Labels] /\ call \in [Threads -> AnyCalls]
    BY <1>1, Zenon DEF TrackerOK
  <1>4. /\ pc[t] = "taken" /\ Goto(t, "add") /\ UNCHANGED tableVars /\ UNCHANGED frameVars
        /\ calls' = calls
    BY Zenon DEF SysRealloc, trackerVars, tableVars, frameVars
  <1>5. PICK x \in Keys : x = call[t].ptr
    BY <1>1, <1>4, Zenon DEF LocalsSet
  <1>6. PICK new \in Keys :
          /\ new = x \/ mem[new] = NoBlock
          /\ mem' = [mem EXCEPT ![x] = NoBlock, ![new] = Block(call[t].size, "HOST", t)]
          /\ call' = [call EXCEPT ![t].ptr = new, ![t].type = "HOST"]
    BY <1>5, Zenon DEF SysRealloc
  <1>7. PICK b \in Blocks : b = Block(call[t].size, "HOST", t) /\ b # NoBlock /\ b.owner = t
    <2>1. call[t].size \in Nat /\ "HOST" \in MemTypes
      BY <1>1, NumbersTyped, Zenon DEF Numbers, MemTypes
    <2> QED
      BY <2>1, NewBlock, Zenon
  <1>8. /\ mem' \in [Keys -> Blocks \cup {NoBlock}] /\ mem'[new] = b
        /\ \A k \in Keys : k = new \/ k = x \/ mem'[k] = mem[k]
    <2>1. mem' = [mem EXCEPT ![x] = NoBlock, ![new] = b]
      BY <1>6, <1>7, Zenon
    <2> QED
      BY <1>2, <2>1, Zenon
  <1>9. /\ call' \in [Threads -> AnyCalls] /\ call'[t].ptr = new
        /\ call'[t].displaced = call[t].displaced /\ call'[t].previous = call[t].previous
        /\ call'[t].total = call[t].total /\ \A u \in Threads : u # t => call'[u] = call[u]
    <2>1. call' = [call EXCEPT ![t].ptr = new, ![t].type = "HOST"]
      BY <1>6, Zenon
    <2> QED
      BY <1>3, <2>1, MovedLocals, Zenon
  <1>10. /\ pc' \in [Threads -> Labels] /\ pc'[t] = "add" /\ \A u \in Threads : u # t => pc'[u] = pc[u]
         /\ pc[t] \in PlainLabels /\ pc'[t] \in PlainLabels
    BY <1>3, <1>4, Zenon DEF Goto, Labels, PlainLabels
  <1>11. OthersKept(t) /\ BlockStep(t) /\ OwnsBlock(t)' /\ RestoreStays(t)
    <2>1. OthersKept(t) /\ RestoreStays(t)
      BY <1>9, <1>10, Zenon DEF OthersKept, RestoreStays, RestoreLabels
    <2>2. mem[x].owner = t
      BY <1>1, <1>4, <1>5, Zenon DEF OwnsBlock
    <2>3. BlockStep(t)
      BY <1>6, <1>8, <2>2, Zenon DEF BlockStep
    <2>4. OwnsBlock(t)'
      BY <1>7, <1>8, <1>9, Zenon DEF OwnsBlock
    <2> QED
      BY <2>1, <2>3, <2>4, Zenon
  <1>12. LocalsSet(t)'
    BY <1>1, <1>4, <1>9, <1>10, Zenon DEF LocalsSet, AddLabels, RemapLabels, SnapLabels
  <1> QED
    BY <1>2, <1>4, <1>8, <1>9, <1>10, <1>11, <1>12, HandlerAccounted, Zenon

(* Return: the call's blocks are the application's again. *)
LEMMA ReturnInv ==
    ASSUME CallInv, HoldersCounted, NEW t \in Threads, Return(t)
    PROVE  Accounted(t)
  <1>1. TrackerOK /\ LocalsSet(t)
    BY Zenon DEF CallInv, BaseOK, Knows
  <1>2. mem \in [Keys -> Blocks \cup {NoBlock}] /\ calls \in 0..MaxCalls
    BY Zenon DEF CallInv, BaseOK
  <1>3. pc \in [Threads -> Labels] /\ call \in [Threads -> AnyCalls]
    BY <1>1, Zenon DEF TrackerOK
  <1>4. /\ pc[t] = "done" /\ Goto(t, "idle") /\ UNCHANGED tableVars /\ UNCHANGED frameVars
        /\ calls' = calls /\ call' = [call EXCEPT ![t] = NoCall]
    BY Zenon DEF Return, trackerVars, tableVars, frameVars
  <1>5. /\ NoCall \in AnyCalls /\ NoCall.displaced = NoRecord /\ NoCall.previous = NoRecord
        /\ NoCall.total = 0
    BY DEF NoCall, AnyCalls, kBacktraceExitIndex, MemTypes
  <1>6. PICK x \in Keys : x = call[t].ptr
    BY <1>1, <1>4, Zenon DEF LocalsSet
  <1>7. call[t].displaced = NoRecord /\ call[t].previous = NoRecord
    BY <1>1, <1>4, Zenon DEF LocalsSet, AddLabels, RemapLabels, SnapLabels
  <1>8. /\ call' \in [Threads -> AnyCalls] /\ call'[t] = NoCall
        /\ \A u \in Threads : u # t => call'[u] = call[u]
    BY <1>3, <1>4, <1>5, Zenon
  <1>9. /\ pc' \in [Threads -> Labels] /\ pc'[t] = "idle" /\ \A u \in Threads : u # t => pc'[u] = pc[u]
        /\ pc[t] \in PlainLabels /\ pc'[t] \in PlainLabels
    BY <1>3, <1>4, Zenon DEF Goto, Labels, PlainLabels
  <1>10. mem' \in [Keys -> Blocks \cup {NoBlock}] /\ BlockStep(t)
    <2>1. ASSUME NEW k \in Keys, mem[k] # NoBlock
          PROVE  [mem[k] EXCEPT !.owner = NoThread] \in Blocks
      BY <1>2, <2>1, Zenon DEF Blocks
    <2>2. mem' = [k \in Keys |-> IF mem[k] # NoBlock /\ mem[k].owner = t
                                 THEN [mem[k] EXCEPT !.owner = NoThread] ELSE mem[k]]
      BY Zenon DEF Return
    <2> QED
      BY <1>2, <2>1, <2>2, Zenon DEF BlockStep
  <1>11. OthersKept(t) /\ OwnsBlock(t)' /\ RestoreStays(t)
    BY <1>8, <1>9, Zenon DEF OthersKept, OwnsBlock, RestoreStays, RestoreLabels
  <1>12. LocalsSet(t)'
    BY <1>5, <1>8, <1>9, Zenon DEF LocalsSet, RemapLabels
  <1> QED
    BY <1>2, <1>4, <1>5, <1>7, <1>8, <1>9, <1>10, <1>11, <1>12, HandlerAccounted, Zenon

-------------------------------------------------------------------------------
(* The entries *)

(* The locals of a call that has only been entered, with its addresses. *)
Fresh(c, k, old) ==
    /\ c \in AnyCalls /\ c.ptr = k /\ c.old = old
    /\ c.displaced = NoRecord /\ c.previous = NoRecord
    /\ c.total = 0

(* An argument of a call is set. *)
LEMMA FreshArgument ==
    ASSUME NEW c, NEW p, NEW o, Fresh(c, p, o), NEW n \in Nat, NEW m \in MemTypes,
           NEW k \in Keys, NEW op \in {"alloc", "free", "realloc", "munmap", "mremap"}
    PROVE  /\ Fresh([c EXCEPT !.op = op], p, o)
           /\ Fresh([c EXCEPT !.ptr = k], k, o)
           /\ Fresh([c EXCEPT !.old = k], p, k)
           /\ Fresh([c EXCEPT !.size = n], p, o)
           /\ Fresh([c EXCEPT !.type = m], p, o)
  BY Zenon DEF Fresh, AnyCalls

(* The locals the three kinds of call start with. *)
LEMMA FreshCalls ==
    ASSUME NEW k \in Keys, NEW old \in Keys, NEW n \in Nat, NEW m \in MemTypes,
           NEW op \in {"free", "realloc", "munmap"}
    PROVE  /\ Fresh(AllocCall(k, n, m), k, NoKey)
           /\ Fresh(DetachCall(op, k, n), k, NoKey)
           /\ Fresh(RemapCall(old, k, n), k, old)
  <1> DEFINE o == NoKey
             ops == {"alloc", "free", "realloc", "munmap", "mremap"}
             a1 == [NoCall EXCEPT !.op = "alloc"]
             a2 == [a1 EXCEPT !.ptr = k]
             a3 == [a2 EXCEPT !.size = n]
             d1 == [NoCall EXCEPT !.op = op]
             d2 == [d1 EXCEPT !.ptr = k]
             r1 == [NoCall EXCEPT !.op = "mremap"]
             r2 == [r1 EXCEPT !.old = old]
             r3 == [r2 EXCEPT !.ptr = k]
  <1>1. Fresh(NoCall, NoKey, NoKey)
    BY DEF Fresh, NoCall, AnyCalls, kBacktraceExitIndex, MemTypes
  <1>2. op \in ops /\ "alloc" \in ops /\ "mremap" \in ops
    BY Zenon
  <1>3. Fresh(a1, o, o) /\ Fresh(d1, o, o) /\ Fresh(r1, o, o)
    BY <1>1, <1>2, FreshArgument, Zenon
  <1> HIDE DEF a1, d1, r1
  <1>4. Fresh(a2, k, o) /\ Fresh(d2, k, o) /\ Fresh(r2, o, old)
    BY <1>2, <1>3, FreshArgument, Zenon
  <1> HIDE DEF a2, d2, r2
  <1>5. Fresh(a3, k, o) /\ Fresh([d2 EXCEPT !.size = n], k, o) /\ Fresh(r3, k, old)
    BY <1>2, <1>4, FreshArgument, Zenon
  <1> HIDE DEF a3, r3
  <1>6. Fresh([a3 EXCEPT !.type = m], k, o) /\ Fresh([r3 EXCEPT !.size = n], k, old)
    BY <1>2, <1>5, FreshArgument, Zenon
  <1>7. Fresh(AllocCall(k, n, m), k, NoKey)
    BY <1>6, Zenon DEF AllocCall, a1, a2, a3
  <1>8. Fresh(DetachCall(op, k, n), k, NoKey)
    BY <1>5, Zenon DEF DetachCall, d1, d2
  <1>9. Fresh(RemapCall(old, k, n), k, old)
    BY <1>6, Zenon DEF RemapCall, r1, r2, r3
  <1> QED
    BY <1>7, <1>8, <1>9, Zenon

(* A call that starts: its block is its own and nothing is held. *)
LEMMA EnterInv ==
    ASSUME CallInv, HoldersCounted, NEW t \in Threads, NEW c, NEW k \in Keys, NEW old,
           NEW l \in {"add", "take", "remap"}, Enter(t, c, l), UNCHANGED trackerVars,
           Fresh(c, k, old), l = "remap" => old \in Keys,
           mem' \in [Keys -> Blocks \cup {NoBlock}], BlockStep(t),
           mem'[k] # NoBlock, mem'[k].owner = t
    PROVE  Accounted(t)
  <1>1. TrackerOK /\ LocalsSet(t)
    BY Zenon DEF CallInv, BaseOK, Knows
  <1>2. pc \in [Threads -> Labels] /\ call \in [Threads -> AnyCalls]
    BY <1>1, Zenon DEF TrackerOK
  <1>3. /\ pc[t] = "idle" /\ Goto(t, l) /\ call' = [call EXCEPT ![t] = c]
        /\ UNCHANGED tableVars /\ UNCHANGED frameVars
    BY Zenon DEF Enter, trackerVars, tableVars, frameVars
  <1>4. calls' \in 0..MaxCalls
    <2>1. calls \in 0..MaxCalls /\ calls < MaxCalls /\ calls' = calls + 1
      BY Zenon DEF CallInv, BaseOK, Enter
    <2> QED
      BY <2>1, BoundsAssumption
  <1>5. /\ c \in AnyCalls /\ c.ptr = k /\ c.old = old /\ c.displaced = NoRecord
        /\ c.previous = NoRecord /\ c.total = 0
    BY Zenon DEF Fresh
  <1>6. /\ call' \in [Threads -> AnyCalls] /\ call'[t] = c
        /\ \A u \in Threads : u # t => call'[u] = call[u]
    BY <1>2, <1>3, <1>5, Zenon
  <1>7. /\ pc' \in [Threads -> Labels] /\ pc'[t] = l /\ \A u \in Threads : u # t => pc'[u] = pc[u]
        /\ pc[t] \in PlainLabels /\ pc'[t] \in PlainLabels
    BY <1>2, <1>3, Zenon DEF Goto, Labels, PlainLabels
  <1>8. call[t].displaced = NoRecord /\ call[t].previous = NoRecord
    <2>1. call[t] = NoCall
      BY <1>1, <1>3, Zenon DEF LocalsSet
    <2> QED
      BY <2>1 DEF NoCall
  <1>9. OthersKept(t) /\ OwnsBlock(t)' /\ RestoreStays(t)
    BY <1>5, <1>6, <1>7, Zenon DEF OthersKept, OwnsBlock, RestoreStays, RestoreLabels
  <1>10. LocalsSet(t)'
    BY <1>5, <1>6, <1>7, Zenon DEF LocalsSet, RemapLabels
  <1> QED
    BY <1>3, <1>4, <1>5, <1>6, <1>7, <1>8, <1>9, <1>10, HandlerAccounted, Zenon

(* Allocate, and a mapping that replaces one the application holds. *)
LEMMA AllocateInv ==
    ASSUME CallInv, HoldersCounted, NEW t \in Threads, NEW k \in Keys, NEW size \in Nat, NEW type \in MemTypes,
           mem[k] = NoBlock \/ mem[k].owner = NoThread,
           mem' = [mem EXCEPT ![k] = Block(size, type, t)],
           Enter(t, AllocCall(k, size, type), "add"),
           UNCHANGED trackerVars
    PROVE  Accounted(t)
  <1>1. mem \in [Keys -> Blocks \cup {NoBlock}]
    BY Zenon DEF CallInv, BaseOK
  <1>2. Block(size, type, t) \in Blocks /\ Block(size, type, t) # NoBlock
        /\ Block(size, type, t).owner = t
    BY NewBlock, Zenon
  <1>3. mem' \in [Keys -> Blocks \cup {NoBlock}] /\ mem'[k] = Block(size, type, t)
        /\ \A j \in Keys : j = k \/ mem'[j] = mem[j]
    BY <1>1, <1>2, Zenon
  <1>4. Fresh(AllocCall(k, size, type), k, NoKey)
    BY FreshCalls, Zenon
  <1>5. BlockStep(t)
    BY <1>3, Zenon DEF BlockStep
  <1> QED
    BY <1>2, <1>3, <1>4, <1>5, EnterInv, Zenon

(* Detach: the call takes over a block the application holds. *)
LEMMA DetachInv ==
    ASSUME CallInv, HoldersCounted, NEW t \in Threads, NEW k \in Keys, NEW op \in {"free", "realloc", "munmap"},
           NEW size \in Nat, mem[k] # NoBlock, mem[k].owner = NoThread, Detach(t, k, op, size)
    PROVE  Accounted(t)
  <1>1. mem \in [Keys -> Blocks \cup {NoBlock}] /\ mem[k] \in Blocks
    BY Zenon DEF CallInv, BaseOK
  <1>2. mem' \in [Keys -> Blocks \cup {NoBlock}] /\ mem'[k] # NoBlock /\ mem'[k].owner = t
        /\ \A j \in Keys : j = k \/ mem'[j] = mem[j]
    BY <1>1, NoBlockAssumption, Zenon DEF Detach, Blocks
  <1>3. Fresh(DetachCall(op, k, size), k, NoKey)
    <2>1. "HOST" \in MemTypes
      BY Zenon DEF MemTypes
    <2> QED
      BY <2>1, FreshCalls, Zenon
  <1>4. BlockStep(t)
    BY <1>2, Zenon DEF BlockStep
  <1>5. Enter(t, DetachCall(op, k, size), "take") /\ UNCHANGED trackerVars
    BY Zenon DEF Detach
  <1> QED
    BY <1>2, <1>3, <1>4, <1>5, EnterInv, Zenon

(* DebugMremap: the moved mapping, or the second one, is the call's. *)
LEMMA MremapInv ==
    ASSUME CallInv, HoldersCounted, NEW t \in Threads, DebugMremap(t)
    PROVE  Accounted(t)
  <1>1. PICK old \in Keys, new \in Keys, size \in Sizes :
          /\ Held(old, Mappings)
          /\ new = old \/ mem[new] = NoBlock \/ Held(new, Mappings)
          /\ \/ /\ mem' = [mem EXCEPT ![old] = NoBlock,
                                     ![new] = [mem[old] EXCEPT !.size = size, !.owner = t]]
                /\ Enter(t, RemapCall(old, new, size), "remap")
             \/ /\ new # old
                /\ mem' = [mem EXCEPT ![old].owner = t, ![new] = Block(size, "MMAP", t)]
                /\ Enter(t, AllocCall(new, size, "MMAP"), "add")
    BY Zenon DEF DebugMremap
  <1>2. UNCHANGED trackerVars
    BY Zenon DEF DebugMremap
  <1>3. /\ size \in Nat /\ mem \in [Keys -> Blocks \cup {NoBlock}] /\ mem[old] \in Blocks
        /\ mem[old].owner = NoThread
        /\ new = old \/ mem[new] = NoBlock \/ mem[new].owner = NoThread
    BY <1>1, SizesAssumption, Zenon DEF CallInv, BaseOK, Held
  <1>4. ASSUME NEW a \in Blocks, NEW b \in Blocks \cup {NoBlock}, a.owner = t,
               mem' = [mem EXCEPT ![old] = b, ![new] = a]
        PROVE  /\ mem' \in [Keys -> Blocks \cup {NoBlock}] /\ mem'[new] # NoBlock
               /\ mem'[new].owner = t /\ BlockStep(t)
    <2>1. /\ mem' \in [Keys -> Blocks \cup {NoBlock}] /\ mem'[new] = a
          /\ \A k \in Keys : k = old \/ k = new \/ mem'[k] = mem[k]
      BY <1>3, <1>4, Zenon
    <2>2. a # NoBlock
      BY NoBlockAssumption, Zenon
    <2> QED
      BY <1>3, <1>4, <2>1, <2>2, Zenon DEF BlockStep
  <1>5. CASE mem' = [mem EXCEPT ![old] = NoBlock, ![new] = [mem[old] EXCEPT !.size = size, !.owner = t]]
             /\ Enter(t, RemapCall(old, new, size), "remap")
    <2> DEFINE a == [mem[old] EXCEPT !.size = size, !.owner = t]
    <2>1. a \in Blocks /\ a.owner = t
      BY <1>3, Zenon DEF Blocks
    <2> HIDE DEF a
    <2>2. Fresh(RemapCall(old, new, size), new, old)
      <3>1. "HOST" \in MemTypes /\ "free" \in {"free", "realloc", "munmap"}
        BY Zenon DEF MemTypes
      <3> QED
        BY <1>3, <3>1, FreshCalls, Zenon
    <2>3. mem' = [mem EXCEPT ![old] = NoBlock, ![new] = a] /\ Enter(t, RemapCall(old, new, size), "remap")
      BY <1>5, Zenon DEF a
    <2>4. mem' \in [Keys -> Blocks \cup {NoBlock}] /\ mem'[new] # NoBlock /\ mem'[new].owner = t
          /\ BlockStep(t)
      BY <1>4, <2>1, <2>3, Zenon
    <2> QED
      BY <1>2, <2>2, <2>3, <2>4, EnterInv, Zenon
  <1>6. CASE /\ new # old
             /\ mem' = [mem EXCEPT ![old].owner = t, ![new] = Block(size, "MMAP", t)]
             /\ Enter(t, AllocCall(new, size, "MMAP"), "add")
    <2> DEFINE a == Block(size, "MMAP", t)
               b == [mem[old] EXCEPT !.owner = t]
    <2>0. "MMAP" \in MemTypes
      BY Zenon DEF MemTypes
    <2>1. a \in Blocks /\ a.owner = t
      BY <1>3, <2>0, NewBlock, Zenon
    <2>2. b \in Blocks \cup {NoBlock}
      BY <1>3, Zenon DEF Blocks
    <2> HIDE DEF a, b
    <2>3. Fresh(AllocCall(new, size, "MMAP"), new, NoKey)
      BY <1>3, <2>0, FreshCalls, Zenon
    <2>4. mem' = [mem EXCEPT ![old] = b, ![new] = a] /\ Enter(t, AllocCall(new, size, "MMAP"), "add")
      BY <1>6, Zenon DEF a, b
    <2>5. mem' \in [Keys -> Blocks \cup {NoBlock}] /\ mem'[new] # NoBlock /\ mem'[new].owner = t
          /\ BlockStep(t)
      BY <1>4, <2>1, <2>2, <2>4, Zenon
    <2> QED
      BY <1>2, <2>3, <2>4, <2>5, EnterInv, Zenon
  <1> QED
    BY <1>1, <1>5, <1>6, Zenon

(* The entries: an allocation, a replaced mapping, a detached record or a move. *)
LEMMA EntryCases ==
    ASSUME NEW t \in Threads, Entry(t)
    PROVE  \/ \E k \in Keys, size \in Nat, type \in MemTypes :
                /\ mem[k] = NoBlock \/ (mem[k].owner = NoThread /\ type # "HOST")
                /\ mem' = [mem EXCEPT ![k] = Block(size, type, t)]
                /\ Enter(t, AllocCall(k, size, type), "add")
                /\ UNCHANGED trackerVars
           \/ \E k \in Keys, op \in {"free", "realloc", "munmap"}, size \in Nat :
                mem[k] # NoBlock /\ mem[k].owner = NoThread /\ Detach(t, k, op, size)
           \/ DebugMremap(t)
  <1>1. "HOST" \in MemTypes /\ "MMAP" \in MemTypes /\ "DMA" \in MemTypes
    BY Zenon DEF MemTypes
  <1>2. 0 \in Nat /\ \A size \in Sizes \cup {0} : size \in Nat
    BY SizesAssumption
  <1>3. CASE DebugMalloc(t) \/ DebugCalloc(t) \/ DebugMemalign(t)
    BY <1>1, <1>2, <1>3, Zenon DEF DebugMalloc, DebugCalloc, DebugMemalign, Allocate
  <1>4. CASE DebugFree(t) \/ DebugMunmap(t)
    BY <1>2, <1>4, Zenon DEF DebugFree, DebugMunmap, Held
  <1>5. CASE DebugRealloc(t)
    <2>1. PICK k \in Keys, size \in Sizes \cup {0} :
            \/ Allocate(t, k, size, "HOST")
            \/ Held(k, {"HOST"}) /\ size = 0 /\ Detach(t, k, "free", 0)
            \/ Held(k, {"HOST"}) /\ size # 0 /\ Detach(t, k, "realloc", size)
      BY <1>5, Zenon DEF DebugRealloc
    <2>2. CASE Allocate(t, k, size, "HOST")
      BY <1>1, <1>2, <2>1, <2>2, Zenon DEF Allocate
    <2>3. CASE Held(k, {"HOST"}) /\ size = 0 /\ Detach(t, k, "free", 0)
      BY <1>2, <2>3, Zenon DEF Held
    <2>4. CASE Held(k, {"HOST"}) /\ size # 0 /\ Detach(t, k, "realloc", size)
      BY <1>2, <2>1, <2>4, Zenon DEF Held
    <2> QED
      BY <2>1, <2>2, <2>3, <2>4, Zenon
  <1>6. CASE DebugMmap(t)
    <2>1. PICK k \in Keys, size \in Sizes, type \in {"MMAP", "DMA"} :
            /\ mem[k] = NoBlock \/ mem[k].owner = NoThread
            /\ mem' = [mem EXCEPT ![k] = Block(size, type, t)]
            /\ Enter(t, AllocCall(k, size, type), "add")
            /\ UNCHANGED trackerVars
      BY <1>6, Zenon DEF DebugMmap, Allocate, Held, Mappings
    <2>2. type \in MemTypes /\ type # "HOST" /\ size \in Nat
      BY SizesAssumption, Zenon DEF MemTypes
    <2> QED
      BY <2>1, <2>2, Zenon
  <1> QED
    BY <1>3, <1>4, <1>5, <1>6, Zenon DEF Entry

(* Every entry keeps the invariant. *)
LEMMA EntryInv ==
    ASSUME CallInv, HoldersCounted, NEW t \in Threads, Entry(t)
    PROVE  Accounted(t)
  <1>1. ASSUME NEW k \in Keys, NEW size \in Nat, NEW type \in MemTypes,
               mem[k] = NoBlock \/ (mem[k].owner = NoThread /\ type # "HOST"),
               mem' = [mem EXCEPT ![k] = Block(size, type, t)],
               Enter(t, AllocCall(k, size, type), "add"),
               UNCHANGED trackerVars
        PROVE  Accounted(t)
    BY <1>1, AllocateInv, Zenon
  <1> QED
    BY <1>1, EntryCases, DetachInv, MremapInv, Zenon

-------------------------------------------------------------------------------
(* Every step *)

(* The environment changes only memory that no call works on. *)
LEMMA EnvironmentInv ==
    ASSUME CallInv, Environment
    PROVE  BaseOK' /\ Effect(NoThread) /\ UNCHANGED <<trackerVars, pc, call>>
  <1>1. BaseOK
    BY Zenon DEF CallInv
  <1>2. PICK k \in Keys, b \in Blocks \cup {NoBlock} :
          /\ mem[k] = NoBlock \/ mem[k].owner = NoThread
          /\ mem' = [mem EXCEPT ![k] = b]
    <2>1. ASSUME NEW size \in Sizes, NEW type \in {"HOST", "MMAP"}
          PROVE  [Block(size, type, NoThread) EXCEPT !.seen = FALSE] \in Blocks
      BY SizesAssumption, Zenon DEF Block, Blocks, MemTypes
    <2> QED
      BY <2>1, Zenon DEF Environment, UntrackedAlloc, DirectRelease, Held
  <1>3. UNCHANGED <<trackerVars, pc, call, calls>>
    BY Zenon DEF Environment, UntrackedAlloc, DirectRelease
  <1>4. /\ mem' \in [Keys -> Blocks \cup {NoBlock}]
        /\ \A j \in Keys : j = k \/ mem'[j] = mem[j]
    BY <1>1, <1>2, Zenon DEF BaseOK
  <1>5. BaseOK'
    BY <1>1, <1>3, <1>4, Zenon DEF BaseOK, TrackerOK, trackerVars
  <1>6. Effect(NoThread)
    BY <1>2, <1>3, <1>4, Zenon DEF Effect, OthersKept, ShardStep, RecordStep, BlockStep, trackerVars
  <1> QED
    BY <1>3, <1>5, <1>6, Zenon

(* Every step of a thread is accounted for. *)
LEMMA StepInv ==
    ASSUME CallInv, HoldersCounted, NEW t \in Threads, AnyStep(t)
    PROVE  Accounted(t)
  BY EntryInv, TrackerAccounted, ReleaseInv, SysReallocInv, ReturnInv, SnapshotInv, Zenon
     DEF AnyStep, HandlerStep

(* Initialize leaves both stack tables empty. *)
LEMMA FrameInit == Init => FrameInv
  BY DEF Init, Initialize, FrameInv, FramesOK, KeysNameFrames, kBacktraceEmptyIndex

(* Every step keeps the key and frame tables in step. *)
LEMMA FrameNext == FrameInv /\ [AnyNext]_vars => FrameInv'
  <1> SUFFICES ASSUME FrameInv, [AnyNext]_vars PROVE FrameInv'
    BY Zenon
  <1> USE DEF frameVars
  <1>1. CASE UNCHANGED frameVars
    BY <1>1, Zenon DEF FrameInv, FramesOK, KeysNameFrames
  <1>2. ASSUME NEW t \in Threads, Entry(t) PROVE UNCHANGED frameVars
    <2>1. CASE DebugMalloc(t) \/ DebugCalloc(t) \/ DebugMemalign(t) \/ DebugFree(t)
      BY <2>1, Zenon DEF DebugMalloc, DebugCalloc, DebugMemalign, DebugFree, Allocate, Detach, trackerVars
    <2>2. CASE DebugRealloc(t) \/ DebugMunmap(t)
      BY <2>2, Zenon DEF DebugRealloc, DebugMunmap, Allocate, Detach, trackerVars
    <2>3. CASE DebugMmap(t)
      BY <2>3, Zenon DEF DebugMmap, Allocate, trackerVars
    <2>4. CASE DebugMremap(t)
      BY <2>4, Zenon DEF DebugMremap, trackerVars
    <2> QED
      BY <1>2, <2>1, <2>2, <2>3, <2>4, Zenon DEF Entry
  <1>3. ASSUME NEW t \in Threads, FreeBacktrace(t) \/ ReleasePrevious(t)
        PROVE  UNCHANGED frameVars \/ \E index : RemoveBacktrace(index)
    BY <1>3, Zenon DEF FreeBacktrace, ReleasePrevious
  <1>4. ASSUME NEW t \in Threads,
               \/ SysFree(t) \/ SysRealloc(t) \/ SysMunmap(t) \/ SysFailed(t)
               \/ Return(t) \/ SnapshotMove(t)
        PROVE  UNCHANGED frameVars
    BY <1>4, Zenon DEF SysFree, SysRealloc, SysMunmap, SysFailed, Return, SnapshotMove, trackerVars
  <1>5. CASE Environment \/ UNCHANGED vars
    BY <1>1, <1>5, Zenon DEF Environment, UntrackedAlloc, DirectRelease, trackerVars, vars
  <1> QED
    BY <1>1, <1>2, <1>3, <1>4, <1>5, TrackerFrames, FrameRemove, Zenon DEF AnyNext, AnyStep, HandlerStep

(* What a call knows is true initially. *)
LEMMA CallInit == Init => CallInv
  <1> SUFFICES ASSUME Init PROVE CallInv
    BY Zenon
  <1>1. NoCall \in AnyCalls /\ NoCall.displaced = NoRecord
    BY DEF NoCall, AnyCalls, kBacktraceExitIndex, MemTypes
  <1>2. BaseOK
    BY <1>1, BoundsAssumption DEF Init, Initialize, BaseOK, TrackerOK, Signed, Labels
  <1>3. ASSUME NEW t \in Threads PROVE Knows(t) /\ OwnsBlock(t)
    <2>1. pc[t] = "idle" /\ call[t] = NoCall
      BY Zenon DEF Init, Initialize
    <2> QED
      BY <1>1, <2>1, Zenon DEF Knows, ShardsHeld, LocalsSet, RecordsKnown, OwnsBlock, LockedLabels,
                        AddLabels, RemapLabels
  <1> QED
    BY <1>2, <1>3, FrameInit, Zenon DEF CallInv

(* What every call knows of its shard, its record and its block stays true,
   whatever the other threads and the environment do. *)
LEMMA CallNext == CallInv /\ HoldersCounted /\ [AnyNext]_vars => CallInv'
  <1> SUFFICES ASSUME CallInv, HoldersCounted, [AnyNext]_vars PROVE CallInv'
    BY Zenon
  <1>1. FrameInv'
    BY FrameNext, Zenon DEF CallInv
  <1>2. ASSUME NEW t \in Threads, AnyStep(t)
        PROVE  BaseOK' /\ \A u \in Threads : Knows(u)' /\ OwnsBlock(u)'
    <2>1. BaseOK' /\ Effect(t) /\ Knows(t)' /\ OwnsBlock(t)'
      BY <1>2, StepInv, Zenon DEF Accounted
    <2>2. ASSUME NEW u \in Threads, u # t PROVE Knows(u)' /\ OwnsBlock(u)'
      BY <2>1, <2>2, OtherThreads, Zenon DEF CallInv
    <2> QED
      BY <2>1, <2>2, Zenon
  <1>3. CASE Environment
    <2>1. \A u \in Threads : u # NoThread
      BY ThreadsAssumption, Zenon
    <2>2. BaseOK' /\ Effect(NoThread) /\ UNCHANGED pointers
      BY <1>3, EnvironmentInv, Zenon DEF trackerVars
    <2>3. \A u \in Threads : Knows(u)' /\ OwnsBlock(u)'
      BY <2>1, <2>2, OtherThreads, ThreadsAssumption, Zenon DEF CallInv
    <2> QED
      BY <1>1, <2>2, <2>3, Zenon DEF CallInv
  <1>4. CASE UNCHANGED vars
    <2>1. /\ UNCHANGED <<pointers, shardMutex, current, peak, pc, call>>
          /\ mem' = mem /\ calls' = calls
      BY <1>4, Zenon DEF vars
    <2>2. BaseOK'
      BY <2>1, Zenon DEF CallInv, BaseOK, TrackerOK
    <2>3. OthersKept(NoThread) /\ ShardStep(NoThread) /\ RecordStep(NoThread) /\ BlockStep(NoThread)
      BY <2>1, Zenon DEF OthersKept, ShardStep, RecordStep, BlockStep
    <2>4. \A u \in Threads : u # NoThread
      BY ThreadsAssumption, Zenon
    <2>5. \A u \in Threads : Knows(u)' /\ OwnsBlock(u)'
      BY <2>1, <2>3, <2>4, OtherThreads, ThreadsAssumption, Zenon DEF CallInv, Effect
    <2> QED
      BY <1>1, <2>2, <2>5, Zenon DEF CallInv
  <1> QED
    BY <1>1, <1>2, <1>3, <1>4, Zenon DEF AnyNext, CallInv

-------------------------------------------------------------------------------
(* Records and blocks *)

(* A record describes a block. *)
Match(rec, b) == rec # NoRecord /\ rec.size = b.size /\ rec.mem_type = b.type
Tracked(k) == mem[k].seen => Match(pointers[k], mem[k])

(* A block the application holds is tracked, any other is the block of the call
   that owns it; a free address has no record unless a release went unseen. *)
PlaceOK(k) ==
    /\ mem[k] # NoBlock => IF mem[k].owner = NoThread THEN Tracked(k)
                           ELSE pc[mem[k].owner] # "idle" /\ call[mem[k].owner].ptr = k
    /\ "direct" \notin Features /\ mem[k] = NoBlock => pointers[k] = NoRecord

(* What a call that does not move a mapping knows of its block: whether its record
   is in the table, in the call's hands or still to be made. *)
Recording == {"add", "insert", "dropDisplaced"} \cup AddLabels \cup SnapLabels
InTable == {"addType", "addPeak", "dropDisplaced"} \cup SnapLabels
BlockKnown(t) ==
    LET c == call[t] IN
    /\ pc[t] \notin RemapLabels \cup {"remap"}
    /\ pc[t] \in {"take", "takeType"} => Tracked(c.ptr)
    /\ pc[t] \in {"taken", "restore", "restoreType"} /\ c.op # "free" /\ mem[c.ptr].seen =>
          Match(c.previous, mem[c.ptr])
    /\ pc[t] \in {"restore", "restoreType"} => c.op # "free"
    /\ pc[t] \in Recording => mem[c.ptr] = Block(c.size, c.type, t)
    /\ pc[t] \in InTable => Match(pointers[c.ptr], mem[c.ptr])
    /\ pc[t] \in {"added", "done"} /\ mem[c.ptr] # NoBlock /\ mem[c.ptr].owner = t =>
          Tracked(c.ptr)

BlockInv == (\A k \in Keys : PlaceOK(k)) /\ (\A t \in Threads : BlockKnown(t))

(* A step takes blocks that are free, the application's or its own and gives them
   to itself or back, and writes the record of its own block only. *)
Loose(b, t) == b = NoBlock \/ b.owner \in {NoThread, t}
Moved(t) ==
    \A k \in Keys :
        /\ mem'[k] = mem[k] \/ (Loose(mem[k], t) /\ Loose(mem'[k], t))
        /\ \/ pointers'[k] = pointers[k]
           \/ k = call[t].ptr /\ pc[t] \notin {"idle", "added", "done"}

(* What the other threads know of their blocks stays true. *)
LEMMA OtherBlocks ==
    ASSUME CallInv, BlockInv, NEW t, OthersKept(t), Moved(t),
           t \notin Threads => UNCHANGED pointers, NEW u \in Threads, u # t
    PROVE  BlockKnown(u)'
  <1>1. BlockKnown(u) /\ LocalsSet(u) /\ OwnsBlock(u) /\ pc'[u] = pc[u] /\ call'[u] = call[u]
    BY Zenon DEF BlockInv, CallInv, Knows, OthersKept
  <1>2. t \in Threads => OwnsBlock(t)
    BY Zenon DEF CallInv
  <1>3. CASE pc[u] = "idle"
    BY <1>1, <1>3, Zenon DEF BlockKnown, Recording, InTable, AddLabels, SnapLabels
  <1>4. ASSUME pc[u] # "idle" PROVE call[u].ptr \in Keys
    BY <1>1, <1>4, Zenon DEF LocalsSet
  <1>5. CASE pc[u] # "idle" /\ mem[call[u].ptr] # NoBlock /\ mem[call[u].ptr].owner = u
    <2>1. mem'[call[u].ptr] = mem[call[u].ptr]
      BY <1>4, <1>5, ThreadsAssumption, Zenon DEF Moved, Loose
    <2>2. pointers'[call[u].ptr] = pointers[call[u].ptr]
      BY <1>2, <1>4, <1>5, Zenon DEF Moved, OwnsBlock
    <2> QED
      BY <1>1, <2>1, <2>2, Zenon DEF BlockKnown, Tracked
  <1>6. CASE pc[u] # "idle" /\ ~(mem[call[u].ptr] # NoBlock /\ mem[call[u].ptr].owner = u)
    <2>1. pc[u] \in {"added", "done"}
      BY <1>1, <1>6, Zenon DEF OwnsBlock
    <2>2. ~(mem'[call[u].ptr] # NoBlock /\ mem'[call[u].ptr].owner = u)
      BY <1>4, <1>6, ThreadsAssumption, Zenon DEF Moved, Loose
    <2>3. pc'[u] \notin Recording \cup InTable \cup RemapLabels
      BY <1>1, <2>1, Zenon DEF Recording, InTable, AddLabels, SnapLabels, RemapLabels
    <2> QED
      BY <1>1, <2>1, <2>2, <2>3, Zenon DEF BlockKnown
  <1> QED
    BY <1>3, <1>5, <1>6, Zenon

(* An address the step leaves alone. *)
LEMMA PlaceKept ==
    ASSUME BaseOK, NEW t, OthersKept(t), NEW k \in Keys, PlaceOK(k),
           mem'[k] = mem[k], pointers'[k] = pointers[k],
           mem[k] # NoBlock /\ mem[k].owner = t /\ t \in Threads
               => pc'[t] # "idle" /\ call'[t].ptr = k
    PROVE  PlaceOK(k)'
  <1>1. CASE mem[k] = NoBlock
    BY <1>1, Zenon DEF PlaceOK
  <1>2. CASE mem[k] # NoBlock /\ mem[k].owner = NoThread
    BY <1>2, Zenon DEF PlaceOK, Tracked
  <1>3. CASE mem[k] # NoBlock /\ mem[k].owner # NoThread
    <2>1. mem[k].owner \in Threads
      BY <1>3 DEF BaseOK, Blocks
    <2> QED
      BY <1>3, <2>1, Zenon DEF PlaceOK, OthersKept
  <1> QED
    BY <1>1, <1>2, <1>3, Zenon

(* What a step of thread t shows of the blocks and the records. *)
Placed(t) == Moved(t) /\ (\A k \in Keys : PlaceOK(k)') /\ BlockKnown(t)'

(* A step that leaves the blocks alone and works on the record of its own. *)
LEMMA InsideCall ==
    ASSUME CallInv, BlockInv, NEW t \in Threads, OthersKept(t), mem' = mem,
           pc[t] # "idle", pc'[t] # "idle", call'[t].ptr = call[t].ptr,
           \/ pointers' = pointers
           \/ pc[t] \notin {"added", "done"} /\ OnlyAt(call[t].ptr)
    PROVE  Moved(t) /\ \A k \in Keys : PlaceOK(k)'
  <1>1. BaseOK /\ OwnsBlock(t) /\ \A k \in Keys : PlaceOK(k)
    BY Zenon DEF CallInv, BlockInv
  <1>2. Moved(t)
    BY Zenon DEF Moved, OnlyAt
  <1>3. ASSUME NEW k \in Keys PROVE PlaceOK(k)'
    <2>1. CASE pointers'[k] = pointers[k]
      <3>1. mem[k] # NoBlock /\ mem[k].owner = t => call[t].ptr = k
        BY <1>1, <1>3, ThreadsAssumption, Zenon DEF PlaceOK
      <3> QED
        BY <1>1, <1>3, <2>1, <3>1, PlaceKept, Zenon
    <2>2. CASE pointers'[k] # pointers[k]
      <3>1. k = call[t].ptr /\ pc[t] \notin {"idle", "added", "done"}
        BY <1>3, <2>2, Zenon DEF OnlyAt
      <3>2. mem'[k] # NoBlock /\ mem'[k].owner = t
        BY <1>1, <3>1, Zenon DEF OwnsBlock
      <3> QED
        BY <3>1, <3>2, ThreadsAssumption, Zenon DEF PlaceOK
    <2> QED
      BY <2>1, <2>2, Zenon
  <1> QED
    BY <1>2, <1>3, Zenon


(* Add's own steps. *)
LEMMA AddPlaced ==
    ASSUME CallInv, BlockInv, NEW t \in Threads, Accounted(t), UNCHANGED mem,
           \/ AddBacktrace(t) \/ AddLock(t) \/ AddUndoType(t) \/ AddUsed(t)
           \/ AddType(t) \/ AddPeak(t) \/ DropDisplaced(t)
    PROVE  Placed(t)
  <1>1. /\ BlockKnown(t) /\ Knows(t)' /\ OthersKept(t) /\ call[t].ptr \in Keys
        /\ pc \in [Threads -> Labels] /\ call \in [Threads -> AnyCalls]
        /\ pointers \in [Keys -> Records \cup {NoRecord}]
    <2>1. pc[t] # "idle"
      BY Zenon DEF AddBacktrace, AddLock, AddUndoType, AddUsed, AddType, AddPeak, DropDisplaced
    <2> QED
      BY <2>1, Zenon DEF CallInv, BlockInv, BaseOK, TrackerOK, Knows, LocalsSet, Accounted, Effect
  <1>2. SameJob(t)
    <2>1. CASE AddBacktrace(t) \/ AddLock(t) \/ AddUndoType(t) \/ AddUsed(t)
      BY <1>1, <2>1, JobKept, Zenon DEF AddBacktrace, AddLock, AddUndoType, AddUsed
    <2>2. CASE AddType(t) \/ AddPeak(t)
      BY <1>1, <2>2, JobKept, Zenon DEF AddType, AddPeak
    <2>3. CASE DropDisplaced(t)
      <3>1. call' = [call EXCEPT ![t].displaced = NoRecord, ![t].total = 0,
                                 ![t].hash_index = kBacktraceExitIndex]
        BY <2>3, Zenon DEF DropDisplaced
      <3> QED
        BY <1>1, <3>1 DEF AnyCalls, SameJob
    <2> QED
      BY <2>1, <2>2, <2>3, Zenon
  <1>3. OnlyAt(call[t].ptr) /\ pc[t] \in Recording
    BY <1>1, Zenon DEF OnlyAt, Recording, AddLabels, tableVars, AddBacktrace, AddLock, AddUndoType,
       AddUsed, AddType, AddPeak, DropDisplaced
  <1>4. mem[call[t].ptr] = Block(call[t].size, call[t].type, t)
    BY <1>1, <1>3, Zenon DEF BlockKnown
  <1>5. mem'[call'[t].ptr] = Block(call'[t].size, call'[t].type, t)
    BY <1>2, <1>4, Zenon DEF SameJob
  <1>6. ASSUME AddBacktrace(t) \/ AddLock(t) \/ AddUndoType(t) PROVE BlockKnown(t)'
    <2>1. pc'[t] \in {"insert", "undoType", "addUsed"}
      BY <1>1, <1>6, Zenon DEF Goto, AddBacktrace, AddLock, AddUndoType
    <2> QED
      BY <1>5, <2>1, Zenon DEF BlockKnown, InTable, SnapLabels, RemapLabels
  <1>7. ASSUME AddUsed(t) PROVE BlockKnown(t)'
    <2>1. pc'[t] = "addType"
      BY <1>1, <1>7, Zenon DEF Goto, AddUsed
    <2>2. pointers'[call'[t].ptr] = Made(t)'
      BY <1>1, <2>1, Zenon DEF Knows, RecordsKnown
    <2>3. Match(pointers'[call'[t].ptr], mem'[call'[t].ptr])
      <3>1. Made(t)' # NoRecord
        <4>1. TrackerOK'
          BY Zenon DEF Accounted, BaseOK
        <4>2. call'[t] \in AnyCalls
          BY <4>1, Zenon DEF TrackerOK
        <4> QED
          BY <4>2, NoRecordAssumption DEF AnyCalls, Made, Records
      <3> QED
        BY <1>5, <2>2, <3>1 DEF Match, Made, Block
    <2> QED
      BY <1>5, <2>1, <2>3, Zenon DEF BlockKnown, RemapLabels
  <1>8. ASSUME AddType(t) \/ AddPeak(t) PROVE BlockKnown(t)'
    <2>1. pc[t] \in InTable /\ pc'[t] \in {"addPeak", "snapshot", "dropDisplaced"} /\ pointers' = pointers
      BY <1>1, <1>8, Zenon DEF InTable, Goto, AddType, AddPeak
    <2>2. Match(pointers'[call'[t].ptr], mem'[call'[t].ptr])
      BY <1>1, <1>2, <2>1, Zenon DEF BlockKnown, SameJob
    <2> QED
      BY <1>5, <2>1, <2>2, Zenon DEF BlockKnown, RemapLabels
  <1>9. ASSUME DropDisplaced(t) PROVE BlockKnown(t)'
    <2>1. pc[t] \in InTable /\ pc'[t] = "added" /\ pointers' = pointers
      BY <1>1, <1>9, Zenon DEF InTable, Goto, tableVars, DropDisplaced
    <2>2. Match(pointers'[call'[t].ptr], mem'[call'[t].ptr])
      BY <1>1, <1>2, <2>1, Zenon DEF BlockKnown, SameJob
    <2> QED
      BY <2>1, <2>2, Zenon DEF BlockKnown, Tracked, Recording, InTable, AddLabels, SnapLabels, RemapLabels
  <1>10. pc[t] \notin {"idle", "added", "done"} /\ pc'[t] # "idle" /\ call'[t].ptr = call[t].ptr
    <2>1. pc'[t] # "idle"
      BY <1>1, Zenon DEF Goto, AddBacktrace, AddLock, AddUndoType, AddUsed, AddType, AddPeak, DropDisplaced
    <2> QED
      BY <1>2, <1>3, <2>1, Zenon DEF SameJob, Recording, AddLabels, SnapLabels
  <1>11. Moved(t) /\ \A k \in Keys : PlaceOK(k)'
    BY <1>1, <1>3, <1>10, InsideCall, Zenon
  <1>12. BlockKnown(t)'
    BY <1>6, <1>7, <1>8, <1>9, Zenon
  <1> QED
    BY <1>11, <1>12, Zenon DEF Placed


(* The steps of TakeEntry and RestoreEntry. *)
LEMMA TakePlaced ==
    ASSUME CallInv, BlockInv, NEW t \in Threads, Accounted(t), UNCHANGED mem,
           \/ TakeEntry(t) \/ TakeEntryType(t) \/ RestoreEntry(t) \/ RestoreEntryType(t)
    PROVE  Placed(t)
  <1>1. /\ BlockKnown(t) /\ Knows(t) /\ Knows(t)' /\ OthersKept(t) /\ call[t].ptr \in Keys
        /\ pc \in [Threads -> Labels] /\ call \in [Threads -> AnyCalls]
        /\ pointers \in [Keys -> Records \cup {NoRecord}]
    <2>1. pc[t] # "idle"
      BY Zenon DEF TakeEntry, TakeEntryType, RestoreEntry, RestoreEntryType
    <2> QED
      BY <2>1, Zenon DEF CallInv, BlockInv, BaseOK, TrackerOK, Knows, LocalsSet, Accounted, Effect
  <1>2. SameJob(t)
    BY <1>1, JobKept, Zenon DEF TakeEntry, TakeEntryType, RestoreEntry, RestoreEntryType
  <1>3. OnlyAt(call[t].ptr)
    BY <1>1, Zenon DEF OnlyAt, TakeEntry, TakeEntryType, RestoreEntry, RestoreEntryType
  <1>4. ASSUME TakeEntry(t) PROVE BlockKnown(t)'
    <2>1. Tracked(call[t].ptr) /\ call[t].previous = NoRecord
      BY <1>1, <1>4, Zenon DEF BlockKnown, Knows, LocalsSet, TakeEntry
    <2>2. CASE pointers[call[t].ptr] = NoRecord
      <3>1. pc'[t] = "taken" /\ call' = call
        BY <1>1, <1>4, <2>2, Zenon DEF Goto, TakeEntry
      <3>2. ~mem[call[t].ptr].seen
        BY <2>1, <2>2, Zenon DEF Tracked, Match
      <3> QED
        BY <3>1, <3>2, Zenon DEF BlockKnown, Recording, InTable, AddLabels, SnapLabels, RemapLabels
    <2>3. CASE pointers[call[t].ptr] # NoRecord
      <3>1. pc'[t] = "takeType" /\ pointers' = pointers
        BY <1>1, <1>4, <2>3, Zenon DEF Goto, TakeEntry
      <3>2. Tracked(call[t].ptr)'
        BY <1>2, <2>1, <3>1, Zenon DEF SameJob, Tracked
      <3> QED
        BY <3>1, <3>2, Zenon DEF BlockKnown, Tracked, Recording, InTable, AddLabels, SnapLabels, RemapLabels
    <2> QED
      BY <2>2, <2>3, Zenon
  <1>5. ASSUME TakeEntryType(t) PROVE BlockKnown(t)'
    <2>1. pc'[t] = "taken" /\ call' = call
      BY <1>1, <1>5, Zenon DEF Goto, TakeEntryType
    <2>2. Tracked(call[t].ptr) /\ pointers[call[t].ptr] = call[t].previous
      BY <1>1, <1>5, Zenon DEF BlockKnown, Knows, RecordsKnown, TakeEntryType
    <2> QED
      BY <2>1, <2>2, Zenon DEF BlockKnown, Tracked, Recording, InTable, AddLabels, SnapLabels, RemapLabels
  <1>6. ASSUME RestoreEntry(t) PROVE BlockKnown(t)'
    <2>1. pc[t] = "restore" /\ pc'[t] = "restoreType" /\ call' = call
      BY <1>1, <1>6, Zenon DEF Goto, RestoreEntry
    <2> QED
      BY <1>1, <2>1, Zenon DEF BlockKnown, Recording, InTable, AddLabels, SnapLabels, RemapLabels
  <1>7. ASSUME RestoreEntryType(t) PROVE BlockKnown(t)'
    <2>1. pc[t] = "restoreType" /\ pc'[t] = "done" /\ pointers' = pointers
      BY <1>1, <1>7, Zenon DEF Goto, RestoreEntryType
    <2>2. Tracked(call[t].ptr)
      BY <1>1, <2>1, Zenon DEF BlockKnown, Tracked, Knows, RecordsKnown
    <2>3. pc'[t] = "done" /\ (mem'[call'[t].ptr].seen => Match(pointers'[call'[t].ptr], mem'[call'[t].ptr]))
      BY <1>2, <2>1, <2>2, Zenon DEF SameJob, Tracked
    <2> QED
      BY <2>3, Zenon DEF BlockKnown, Tracked, Recording, InTable, AddLabels, SnapLabels, RemapLabels
  <1>8. pc[t] \notin {"idle", "added", "done"} /\ pc'[t] # "idle"
    BY <1>1, Zenon DEF Goto, TakeEntry, TakeEntryType, RestoreEntry, RestoreEntryType
  <1>9. Moved(t) /\ \A k \in Keys : PlaceOK(k)'
    BY <1>1, <1>2, <1>3, <1>8, InsideCall, Zenon DEF SameJob
  <1>10. BlockKnown(t)'
    BY <1>4, <1>5, <1>6, <1>7, Zenon
  <1> QED
    BY <1>9, <1>10, Zenon DEF Placed


(* The handler's steps that leave the blocks and the records alone. *)
LEMMA HandlerPlaced ==
    ASSUME CallInv, BlockInv, NEW t \in Threads, Accounted(t), UNCHANGED mem,
           FreeBacktrace(t) \/ SysFailed(t) \/ ReleasePrevious(t) \/ SnapshotMove(t)
    PROVE  Placed(t)
  <1>1. /\ BlockKnown(t) /\ OthersKept(t)
        /\ pc \in [Threads -> Labels] /\ call \in [Threads -> AnyCalls]
    BY Zenon DEF CallInv, BlockInv, BaseOK, TrackerOK, Accounted, Effect
  <1>2. SameJob(t) /\ pointers' = pointers
    <2>1. pointers' = pointers
      BY Zenon DEF tableVars, trackerVars, FreeBacktrace, SysFailed, ReleasePrevious, SnapshotMove
    <2> QED
      BY <1>1, <2>1, JobKept, Zenon DEF FreeBacktrace, SysFailed, ReleasePrevious, SnapshotMove
  <1>3. pc[t] # "idle" /\ pc'[t] # "idle"
    BY <1>1, Zenon DEF Goto, SnapLabels, FreeBacktrace, SysFailed, ReleasePrevious, SnapshotMove
  <1>4. ASSUME FreeBacktrace(t) PROVE BlockKnown(t)'
    <2>1. pc'[t] = "taken" /\ call'[t].op = "free"
      BY <1>2, <1>4, Zenon DEF SameJob, FreeBacktrace
    <2> QED
      BY <2>1, Zenon DEF BlockKnown, Recording, InTable, AddLabels, SnapLabels, RemapLabels
  <1>5. ASSUME SysFailed(t) PROVE BlockKnown(t)'
    <2>1. /\ pc[t] = "taken" /\ call[t].op # "free" /\ call' = call
          /\ pc'[t] = IF call[t].previous = NoRecord THEN "done" ELSE "restore"
      BY <1>1, <1>5, Zenon DEF Goto, SysFailed
    <2>2. mem[call[t].ptr].seen => Match(call[t].previous, mem[call[t].ptr])
      BY <1>1, <2>1, Zenon DEF BlockKnown
    <2>3. CASE call[t].previous = NoRecord
      <3>1. ~mem'[call'[t].ptr].seen
        BY <2>1, <2>2, <2>3, Zenon DEF Match
      <3> QED
        BY <2>1, <2>3, <3>1, Zenon DEF BlockKnown, Tracked, Recording, InTable, AddLabels, SnapLabels,
           RemapLabels
    <2>4. CASE call[t].previous # NoRecord
      BY <2>1, <2>2, <2>4, Zenon DEF BlockKnown, Recording, InTable, AddLabels, SnapLabels, RemapLabels
    <2> QED
      BY <2>3, <2>4, Zenon
  <1>6. ASSUME ReleasePrevious(t) PROVE BlockKnown(t)'
    <2>1. pc[t] = "added" /\ pc'[t] = "done" /\ call'[t].ptr = call[t].ptr
      BY <1>1, <1>2, <1>6, Zenon DEF Goto, SameJob, ReleasePrevious
    <2> QED
      BY <1>1, <1>2, <2>1, Zenon DEF BlockKnown, Tracked, Recording, InTable, AddLabels, SnapLabels,
         RemapLabels
  <1>7. ASSUME SnapshotMove(t) PROVE BlockKnown(t)'
    <2>1. pc[t] \in SnapLabels /\ pc'[t] \in SnapLabels \cup {"dropDisplaced"} /\ call' = call
      BY <1>1, <1>7, Zenon DEF Goto, SnapshotMove
    <2>2. pc[t] \in Recording /\ pc[t] \in InTable
      BY <2>1, Zenon DEF Recording, InTable
    <2>3. pc'[t] \notin {"take", "takeType", "taken", "restore", "restoreType", "added", "done", "remap"}
                           \cup RemapLabels
      BY <2>1, Zenon DEF SnapLabels, RemapLabels
    <2> QED
      BY <1>1, <1>2, <2>1, <2>2, <2>3, Zenon DEF BlockKnown
  <1>8. Moved(t) /\ \A k \in Keys : PlaceOK(k)'
    BY <1>1, <1>2, <1>3, InsideCall, Zenon DEF SameJob
  <1>9. BlockKnown(t)'
    BY <1>4, <1>5, <1>6, <1>7, Zenon
  <1> QED
    BY <1>8, <1>9, Zenon DEF Placed

(* A step that gives up the block it works on and takes another, or none. *)
LEMMA BlockGiven ==
    ASSUME CallInv, BlockInv, NEW t \in Threads, OthersKept(t), pointers' = pointers,
           pc[t] # "idle", pc'[t] # "idle", mem' \in [Keys -> Blocks \cup {NoBlock}],
           pointers[call[t].ptr] = NoRecord, Loose(mem[call[t].ptr], t),
           \A k \in Keys : \/ k \notin {call[t].ptr, call'[t].ptr} /\ mem'[k] = mem[k]
                           \/ k = call[t].ptr /\ mem'[k] = NoBlock
                           \/ /\ k = call'[t].ptr /\ mem'[k] # NoBlock /\ mem'[k].owner = t
                              /\ k = call[t].ptr \/ mem[k] = NoBlock
    PROVE  Moved(t) /\ \A k \in Keys : PlaceOK(k)'
  <1>1. BaseOK /\ \A k \in Keys : PlaceOK(k)
    BY Zenon DEF CallInv, BlockInv
  <1>2. Moved(t)
    BY Zenon DEF Moved, Loose
  <1>3. ASSUME NEW k \in Keys PROVE PlaceOK(k)'
    <2>1. CASE k \notin {call[t].ptr, call'[t].ptr} /\ mem'[k] = mem[k]
      <3>1. ~(mem[k] # NoBlock /\ mem[k].owner = t)
        BY <1>1, <1>3, <2>1, ThreadsAssumption, Zenon DEF PlaceOK
      <3> QED
        BY <1>1, <1>3, <2>1, <3>1, PlaceKept, Zenon
    <2>2. CASE k = call[t].ptr /\ mem'[k] = NoBlock
      BY <2>2, Zenon DEF PlaceOK
    <2>3. CASE k = call'[t].ptr /\ mem'[k] # NoBlock /\ mem'[k].owner = t
      BY <2>3, ThreadsAssumption, Zenon DEF PlaceOK
    <2> QED
      BY <1>3, <2>1, <2>2, <2>3, Zenon
  <1> QED
    BY <1>2, <1>3, Zenon


(* The block is given back, or exchanged for the one the C library moved it to. *)
LEMMA SysPlaced ==
    ASSUME CallInv, BlockInv, NEW t \in Threads, Accounted(t),
           SysFree(t) \/ SysMunmap(t) \/ SysRealloc(t)
    PROVE  Placed(t)
  <1>1. /\ BlockKnown(t) /\ OthersKept(t) /\ LocalsSet(t) /\ RecordsKnown(t) /\ OwnsBlock(t)
        /\ pc \in [Threads -> Labels] /\ call \in [Threads -> AnyCalls]
        /\ mem \in [Keys -> Blocks \cup {NoBlock}] /\ mem' \in [Keys -> Blocks \cup {NoBlock}]
    BY Zenon DEF CallInv, BlockInv, BaseOK, TrackerOK, Knows, Accounted, Effect
  <1>2. pc[t] = "taken" /\ pointers' = pointers
    BY Zenon DEF trackerVars, SysFree, SysMunmap, SysRealloc
  <1>3. PICK x \in Keys : x = call[t].ptr
    BY <1>1, <1>2, Zenon DEF LocalsSet
  <1>4. pointers[x] = NoRecord /\ Loose(mem[x], t)
    BY <1>1, <1>2, <1>3, Zenon DEF RecordsKnown, OwnsBlock, Loose
  <1>5. CASE SysFree(t) \/ SysMunmap(t)
    <2>1. mem' = [mem EXCEPT ![x] = NoBlock] /\ call' = call /\ pc'[t] \in {"added", "done"}
      BY <1>1, <1>3, <1>5, Zenon DEF Goto, SysFree, SysMunmap
    <2>2. mem'[x] = NoBlock /\ \A k \in Keys : k # x => mem'[k] = mem[k]
      BY <1>1, <2>1, Zenon
    <2>3. Moved(t) /\ \A k \in Keys : PlaceOK(k)'
      BY <1>1, <1>2, <1>3, <1>4, <2>1, <2>2, BlockGiven, Zenon
    <2>4. BlockKnown(t)'
      BY <1>3, <2>1, <2>2, Zenon DEF BlockKnown, Recording, InTable, AddLabels, SnapLabels, RemapLabels
    <2> QED
      BY <2>3, <2>4, Zenon DEF Placed
  <1>6. CASE SysRealloc(t)
    <2>1. PICK y \in Keys :
            /\ y = x \/ mem[y] = NoBlock
            /\ mem' = [mem EXCEPT ![x] = NoBlock, ![y] = Block(call[t].size, "HOST", t)]
            /\ call' = [call EXCEPT ![t].ptr = y, ![t].type = "HOST"]
      BY <1>3, <1>6, Zenon DEF SysRealloc
    <2>2. pc'[t] = "add"
      BY <1>1, <1>6, Zenon DEF Goto, SysRealloc
    <2>3. call'[t].ptr = y /\ call'[t].size = call[t].size /\ call'[t].type = "HOST"
      BY <1>1, <2>1 DEF AnyCalls
    <2>4. Block(call[t].size, "HOST", t) # NoBlock /\ Block(call[t].size, "HOST", t).owner = t
      <3>1. call[t].size \in Nat /\ "HOST" \in MemTypes
        BY <1>1 DEF AnyCalls, MemTypes
      <3> QED
        BY <3>1, NewBlock, Zenon
    <2>5. /\ mem'[y] = Block(call[t].size, "HOST", t) /\ (x # y => mem'[x] = NoBlock)
          /\ \A k \in Keys : k \notin {x, y} => mem'[k] = mem[k]
      BY <1>1, <2>1, Zenon
    <2>6. Moved(t) /\ \A k \in Keys : PlaceOK(k)'
      BY <1>1, <1>2, <1>3, <1>4, <2>1, <2>2, <2>3, <2>4, <2>5, BlockGiven, Zenon
    <2>7. BlockKnown(t)'
      BY <2>2, <2>3, <2>5, Zenon DEF BlockKnown, InTable, SnapLabels, RemapLabels
    <2> QED
      BY <2>6, <2>7, Zenon DEF Placed
  <1> QED
    BY <1>5, <1>6, Zenon

(* The call returns: its block, if it still has one, is the application's. *)
LEMMA ReturnPlaced ==
    ASSUME CallInv, BlockInv, NEW t \in Threads, Accounted(t), Return(t)
    PROVE  Placed(t)
  <1>1. /\ BaseOK /\ BlockKnown(t) /\ OthersKept(t) /\ pc \in [Threads -> Labels]
        /\ mem \in [Keys -> Blocks \cup {NoBlock}] /\ \A k \in Keys : PlaceOK(k)
    BY Zenon DEF CallInv, BlockInv, BaseOK, TrackerOK, Accounted, Effect
  <1>2. /\ pc[t] = "done" /\ pc'[t] = "idle" /\ pointers' = pointers
        /\ mem' = [k \in Keys |-> IF mem[k] # NoBlock /\ mem[k].owner = t
                                  THEN [mem[k] EXCEPT !.owner = NoThread] ELSE mem[k]]
    BY <1>1, Zenon DEF Goto, trackerVars, Return
  <1>3. ASSUME NEW k \in Keys, mem[k] # NoBlock, mem[k].owner = t
        PROVE  /\ mem'[k] # NoBlock /\ mem'[k].owner = NoThread
               /\ mem'[k].size = mem[k].size /\ mem'[k].type = mem[k].type
               /\ mem'[k].seen = mem[k].seen /\ Tracked(k)
    <2>1. mem[k] \in Blocks /\ mem'[k] = [mem[k] EXCEPT !.owner = NoThread]
      BY <1>1, <1>2, <1>3, Zenon
    <2>2. [mem[k] EXCEPT !.owner = NoThread] \in Blocks
      BY <2>1 DEF Blocks
    <2>3. /\ mem'[k].owner = NoThread /\ mem'[k].size = mem[k].size /\ mem'[k].type = mem[k].type
          /\ mem'[k].seen = mem[k].seen
      BY <2>1 DEF Blocks
    <2>4. call[t].ptr = k
      BY <1>1, <1>3, ThreadsAssumption, Zenon DEF PlaceOK
    <2>5. Tracked(k)
      BY <1>1, <1>2, <1>3, <2>4, Zenon DEF BlockKnown
    <2> QED
      BY <2>1, <2>2, <2>3, <2>5, NoBlockAssumption, Zenon
  <1>4. ASSUME NEW k \in Keys, ~(mem[k] # NoBlock /\ mem[k].owner = t) PROVE mem'[k] = mem[k]
    BY <1>2, <1>4, Zenon
  <1>5. Moved(t)
    BY <1>2, <1>3, <1>4, Zenon DEF Moved, Loose
  <1>6. ASSUME NEW k \in Keys PROVE PlaceOK(k)'
    <2>1. CASE mem[k] # NoBlock /\ mem[k].owner = t
      BY <1>2, <1>3, <1>6, <2>1, Zenon DEF PlaceOK, Tracked, Match
    <2>2. CASE ~(mem[k] # NoBlock /\ mem[k].owner = t)
      BY <1>1, <1>2, <1>4, <1>6, <2>2, PlaceKept, Zenon
    <2> QED
      BY <2>1, <2>2, Zenon
  <1>7. BlockKnown(t)'
    BY <1>2, Zenon DEF BlockKnown, Recording, InTable, AddLabels, SnapLabels, RemapLabels
  <1> QED
    BY <1>5, <1>6, <1>7, Zenon DEF Placed

(* A call is entered: it takes a block that is free or the application's. *)
LEMMA EnterPlaced ==
    ASSUME CallInv, BlockInv, NEW t \in Threads, OthersKept(t), pointers' = pointers,
           pc[t] = "idle", pc'[t] # "idle", NEW x \in Keys, call'[t].ptr = x,
           mem[x] = NoBlock \/ mem[x].owner = NoThread,
           mem'[x] # NoBlock, mem'[x].owner = t, \A k \in Keys : k # x => mem'[k] = mem[k]
    PROVE  Moved(t) /\ \A k \in Keys : PlaceOK(k)'
  <1>1. BaseOK /\ \A k \in Keys : PlaceOK(k)
    BY Zenon DEF CallInv, BlockInv
  <1>2. Moved(t)
    BY Zenon DEF Moved, Loose
  <1>3. ASSUME NEW k \in Keys PROVE PlaceOK(k)'
    <2>1. CASE k = x
      BY <2>1, ThreadsAssumption, Zenon DEF PlaceOK
    <2>2. CASE k # x
      <3>1. ~(mem[k] # NoBlock /\ mem[k].owner = t)
        BY <1>1, <1>3, ThreadsAssumption, Zenon DEF PlaceOK
      <3> QED
        BY <1>1, <1>3, <2>2, <3>1, PlaceKept, Zenon
    <2> QED
      BY <2>1, <2>2, Zenon
  <1> QED
    BY <1>2, <1>3, Zenon


(* The entries take the block of the call, tracked when its record is to be
   detached. *)
LEMMA EntryPlaced ==
    ASSUME CallInv, BlockInv, NEW t \in Threads, Accounted(t), Entry(t), "mremap" \notin Features
    PROVE  Placed(t)
  <1>1. /\ OthersKept(t) /\ pc \in [Threads -> Labels] /\ call \in [Threads -> AnyCalls]
        /\ mem \in [Keys -> Blocks \cup {NoBlock}] /\ \A k \in Keys : PlaceOK(k)
    BY Zenon DEF CallInv, BlockInv, BaseOK, TrackerOK, Accounted, Effect
  <1>2. ~DebugMremap(t)
    BY Zenon DEF DebugMremap
  <1>3. ASSUME NEW x \in Keys, NEW size \in Nat, NEW type \in MemTypes,
               mem[x] = NoBlock \/ mem[x].owner = NoThread,
               mem' = [mem EXCEPT ![x] = Block(size, type, t)],
               Enter(t, AllocCall(x, size, type), "add"), UNCHANGED trackerVars
        PROVE  Placed(t)
    <2>1. pc[t] = "idle" /\ pc'[t] = "add" /\ call'[t] = AllocCall(x, size, type) /\ pointers' = pointers
      BY <1>1, <1>3, Zenon DEF Enter, Goto, trackerVars
    <2>2. call'[t].ptr = x /\ call'[t].size = size /\ call'[t].type = type
      BY <2>1 DEF AllocCall, NoCall
    <2>3. mem'[x] = Block(size, type, t) /\ \A k \in Keys : k # x => mem'[k] = mem[k]
      BY <1>1, <1>3, Zenon
    <2>4. mem'[x] # NoBlock /\ mem'[x].owner = t
      <3>1. Block(size, type, t) # NoBlock /\ Block(size, type, t).owner = t
        BY <1>3, NewBlock, Zenon
      <3> QED
        BY <2>3, <3>1, Zenon
    <2>5. Moved(t) /\ \A k \in Keys : PlaceOK(k)'
      BY <1>1, <1>3, <2>1, <2>2, <2>3, <2>4, EnterPlaced, Zenon
    <2>6. BlockKnown(t)'
      BY <2>1, <2>2, <2>3, Zenon DEF BlockKnown, InTable, SnapLabels, RemapLabels
    <2> QED
      BY <2>5, <2>6, Zenon DEF Placed
  <1>4. ASSUME NEW x \in Keys, NEW op \in {"free", "realloc", "munmap"}, NEW size \in Nat,
               mem[x] # NoBlock, mem[x].owner = NoThread, Detach(t, x, op, size)
        PROVE  Placed(t)
    <2>1. /\ pc[t] = "idle" /\ pc'[t] = "take" /\ call'[t] = DetachCall(op, x, size)
          /\ pointers' = pointers /\ mem' = [mem EXCEPT ![x].owner = t]
      BY <1>1, <1>4, Zenon DEF Detach, Enter, Goto, trackerVars
    <2>2. call'[t].ptr = x
      BY <2>1 DEF DetachCall, NoCall
    <2>3. /\ mem[x] \in Blocks /\ mem'[x] = [mem[x] EXCEPT !.owner = t]
          /\ \A k \in Keys : k # x => mem'[k] = mem[k]
      BY <1>1, <1>4, <2>1, Zenon
    <2>4. /\ [mem[x] EXCEPT !.owner = t] \in Blocks
          /\ mem'[x].owner = t /\ mem'[x].size = mem[x].size /\ mem'[x].type = mem[x].type
          /\ mem'[x].seen = mem[x].seen
      BY <2>3 DEF Blocks
    <2>5. mem'[x] # NoBlock
      BY <2>3, <2>4, NoBlockAssumption, Zenon
    <2>6. Moved(t) /\ \A k \in Keys : PlaceOK(k)'
      BY <1>1, <1>4, <2>1, <2>2, <2>3, <2>4, <2>5, EnterPlaced, Zenon
    <2>7. Tracked(x)
      BY <1>1, <1>4, Zenon DEF PlaceOK
    <2>8. BlockKnown(t)'
      BY <2>1, <2>2, <2>4, <2>7, Zenon DEF BlockKnown, Tracked, Match, Recording, InTable, AddLabels,
         SnapLabels, RemapLabels
    <2> QED
      BY <2>6, <2>8, Zenon DEF Placed
  <1> QED
    BY <1>2, <1>3, <1>4, EntryCases, Zenon

(* Memory the hook does not see is not tracked, and a release it does not see is a
   feature of the environment. *)
LEMMA EnvironmentPlaced ==
    ASSUME CallInv, BlockInv, Environment
    PROVE  Moved(NoThread) /\ \A k \in Keys : PlaceOK(k)'
  <1>1. /\ BaseOK /\ mem \in [Keys -> Blocks \cup {NoBlock}] /\ \A k \in Keys : PlaceOK(k)
        /\ OthersKept(NoThread) /\ pointers' = pointers
    BY EnvironmentInv, Zenon DEF CallInv, BlockInv, BaseOK, Effect, trackerVars
  <1>2. PICK x \in Keys, b \in Blocks \cup {NoBlock} :
          /\ mem[x] = NoBlock \/ mem[x].owner = NoThread
          /\ mem' = [mem EXCEPT ![x] = b]
          /\ \/ b = NoBlock /\ "direct" \in Features
             \/ b # NoBlock /\ b.owner = NoThread /\ ~b.seen
    <2>1. ASSUME NEW size \in Sizes, NEW type \in {"HOST", "MMAP"}
          PROVE  LET b == [Block(size, type, NoThread) EXCEPT !.seen = FALSE]
                 IN  b \in Blocks /\ b # NoBlock /\ b.owner = NoThread /\ ~b.seen
      <3>1. [Block(size, type, NoThread) EXCEPT !.seen = FALSE] \in Blocks
        BY <2>1, SizesAssumption, Zenon DEF Block, Blocks, MemTypes
      <3> QED
        BY <3>1, NoBlockAssumption DEF Block
    <2>2. CASE UntrackedAlloc
      BY <2>1, <2>2, Zenon DEF UntrackedAlloc
    <2>3. CASE DirectRelease
      BY <2>3, Zenon DEF DirectRelease, Held
    <2> QED
      BY <2>2, <2>3, Zenon DEF Environment
  <1>3. mem'[x] = b /\ \A k \in Keys : k # x => mem'[k] = mem[k]
    BY <1>1, <1>2, Zenon
  <1>4. Moved(NoThread)
    BY <1>1, <1>2, <1>3, Zenon DEF Moved, Loose
  <1>5. ASSUME NEW k \in Keys PROVE PlaceOK(k)'
    <2>1. CASE k = x
      BY <1>2, <1>3, <2>1, Zenon DEF PlaceOK, Tracked
    <2>2. CASE k # x
      BY <1>1, <1>3, <1>5, <2>2, PlaceKept, ThreadsAssumption, Zenon
    <2> QED
      BY <2>1, <2>2, Zenon
  <1> QED
    BY <1>4, <1>5, Zenon

(* Nothing is allocated and nothing recorded at the start. *)
LEMMA BlockInit == Init => BlockInv
  BY Zenon DEF Init, Initialize, BlockInv, PlaceOK, BlockKnown, Recording, InTable, AddLabels,
     SnapLabels, RemapLabels

(* Without mremap, every step keeps records and blocks together. *)
LEMMA BlockNext ==
    ASSUME CallInv, HoldersCounted, BlockInv, "mremap" \notin Features, [AnyNext]_vars
    PROVE  BlockInv'
  <1>1. ASSUME NEW t \in Threads, AnyStep(t) PROVE BlockInv'
    <2>1. Accounted(t)
      BY <1>1, StepInv, Zenon
    <2>2. BlockKnown(t)
      BY Zenon DEF BlockInv
    <2>3. Placed(t)
      <3>1. CASE Entry(t)
        BY <2>1, <3>1, EntryPlaced, Zenon
      <3>2. CASE TrackerStep(t) /\ UNCHANGED <<mem, calls>>
        <4>1. ~RemapLock(t) /\ ~RemapUndoType(t) /\ ~RemapUsed(t) /\ ~RemapType(t) /\ ~RemapPeak(t)
          BY <2>2, Zenon DEF BlockKnown, RemapLabels, RemapLock, RemapUndoType, RemapUsed, RemapType,
             RemapPeak
        <4> QED
          BY <2>1, <3>2, <4>1, AddPlaced, TakePlaced, Zenon DEF TrackerStep
      <3>3. CASE FreeBacktrace(t) \/ SysFailed(t) \/ ReleasePrevious(t) \/ SnapshotMove(t)
        <4>1. UNCHANGED mem
          BY <3>3, Zenon DEF FreeBacktrace, SysFailed, ReleasePrevious, SnapshotMove
        <4> QED
          BY <2>1, <3>3, <4>1, HandlerPlaced, Zenon
      <3>4. CASE SysFree(t) \/ SysRealloc(t) \/ SysMunmap(t) \/ Return(t)
        BY <2>1, <3>4, SysPlaced, ReturnPlaced, Zenon
      <3> QED
        BY <1>1, <3>1, <3>2, <3>3, <3>4, Zenon DEF AnyStep, HandlerStep
    <2>4. \A u \in Threads : u # t => BlockKnown(u)'
      BY <1>1, <2>1, <2>3, OtherBlocks, Zenon DEF Placed, Accounted, Effect
    <2> QED
      BY <2>3, <2>4, Zenon DEF Placed, BlockInv
  <1>2. CASE Environment
    <2>1. OthersKept(NoThread) /\ pointers' = pointers /\ \A u \in Threads : u # NoThread
      BY <1>2, EnvironmentInv, ThreadsAssumption, Zenon DEF Effect, trackerVars
    <2>2. Moved(NoThread) /\ \A k \in Keys : PlaceOK(k)'
      BY <1>2, EnvironmentPlaced, Zenon
    <2>3. \A u \in Threads : BlockKnown(u)'
      BY <2>1, <2>2, OtherBlocks, Zenon
    <2> QED
      BY <2>2, <2>3, Zenon DEF BlockInv
  <1>3. CASE UNCHANGED vars
    <2>1. UNCHANGED <<mem, pointers, pc, call>>
      BY <1>3, Zenon DEF vars
    <2>2. \A k \in Keys : PlaceOK(k)'
      BY <2>1, Zenon DEF BlockInv, PlaceOK, Tracked
    <2>3. \A u \in Threads : BlockKnown(u)'
      BY <2>1, Zenon DEF BlockInv, BlockKnown, Tracked
    <2> QED
      BY <2>2, <2>3, Zenon DEF BlockInv
  <1> QED
    BY <1>1, <1>2, <1>3, Zenon DEF AnyNext

(* What the application holds is tracked, and nothing else is reported. *)
LEMMA BlocksExact == CallInv /\ BlockInv => RecordsExact
  <1> SUFFICES ASSUME CallInv, BlockInv PROVE RecordsExact
    OBVIOUS
  <1>1. HeldBlocksTracked
    BY Zenon DEF BlockInv, PlaceOK, Tracked, Match, HeldBlocksTracked
  <1>2. NoStaleRecords
    BY Zenon DEF BlockInv, PlaceOK, NoStaleRecords
  <1> QED
    BY <1>1, <1>2, Zenon DEF RecordsExact

-------------------------------------------------------------------------------
(* Both specifications of the calls take only such steps. *)
LEMMA NextIsAny == [Next]_vars => [AnyNext]_vars
  <1>1. ASSUME NEW t \in Threads, PeakRecordingOff(t) PROVE SnapshotMove(t)
    BY <1>1, Zenon DEF PeakRecordingOff, SnapshotMove, SnapLabels
  <1> QED
    BY <1>1, Zenon DEF Next, AnyNext, AnyStep

(* key_to_index_ and frames_ name the same stacks in every reachable state. *)
THEOREM KeysAlwaysNameFrames == Spec => []KeysNameFrames
  <1>1. FrameInv => KeysNameFrames
    BY Zenon DEF FrameInv
  <1> QED
    BY <1>1, FrameInit, FrameNext, NextIsAny, PTL DEF Spec
===============================================================================
