------------------------------ MODULE PointerData ------------------------------
(***************************************************************************)
(* The live-pointer tracker (backtrace/src/PointerData.cpp): the sharded   *)
(* table of live records, the reference-counted table of unique stacks,    *)
(* and the relaxed atomic byte counters with their peaks.                  *)
(*                                                                         *)
(* A method of the C++ class is the sequence of its atomic effects: each   *)
(* fetch_add / fetch_sub on a shared counter is a step of its own, because *)
(* two threads in different shards interleave between them.  The shard     *)
(* mutex is held over the steps of one critical section.  A method starts  *)
(* at the label of its first step and returns at a label its caller        *)
(* (module MallocDebug) continues from: "added", "taken" or "done".        *)
(***************************************************************************)
EXTENDS Integers, FiniteSets

CONSTANTS
    Threads,          \* application threads inside the interposed functions
    Keys,             \* addresses (mangled pointers)
    Shards,           \* indices into shards_
    ShardFor,         \* the shard an address hashes to
    Stacks,           \* distinct call stacks a capture can return
    Sizes,            \* sizes in bytes an application may ask for
    BacktraceMinSize, \* backtrace_min_size_bytes(): smaller sizes get no stack
    NoThread, NoKey, NoStack, NoRecord

ASSUME ThreadsAssumption == NoThread \notin Threads
ASSUME KeysAssumption == NoKey \notin Keys
ASSUME FiniteAssumption == IsFiniteSet(Threads) /\ IsFiniteSet(Keys)
ASSUME StacksAssumption == NoStack \notin Stacks
ASSUME ShardForAssumption == ShardFor \in [Keys -> Shards]
ASSUME SizesAssumption == Sizes \subseteq Nat /\ BacktraceMinSize \in Nat

(* kBacktraceEmptyIndex; index 0 (kBacktraceExitIndex) is never returned by
   AddBacktrace, and a real stack gets an index from 2 on. *)
kBacktraceExitIndex == 0
kBacktraceEmptyIndex == 1

MemTypes == {"HOST", "MMAP", "DMA"}

VARIABLES
    pointers,         \* shards_[*].pointers: address -> record or NoRecord
    shardMutex,       \* shards_[*].mutex: shard -> thread holding it
    key_to_index,     \* stack -> hash index, 0 when the key is absent
    frames,           \* hash index -> [references, stack], on the live indices
    cur_hash_index,   \* the next hash index to hand out
    current,          \* [used, host, dma]: current_used, current_host, current_dma
    peak,             \* [used, host, dma]: peak_tot, peak_host, peak_dma
    pc,               \* where each thread is
    call              \* the locals of each thread's call

frameVars == <<key_to_index, frames, cur_hash_index>>
tableVars == <<pointers, shardMutex, current, peak>>
trackerVars == <<pointers, shardMutex, key_to_index, frames, cur_hash_index,
                 current, peak>>

Records == [size : Nat, hash_index : Nat, mem_type : MemTypes]
Counters == [used : Nat, host : Nat, dma : Nat]

ASSUME NoRecordAssumption == NoRecord \notin Records

(* The locals a call carries from step to step. *)
Calls == [op : {"none", "alloc", "free", "realloc", "munmap", "mremap"},
          ptr : Keys \cup {NoKey},          \* the address Add / TakeEntry works on
          old : Keys \cup {NoKey},          \* Remap's old_ptr
          size : Nat, type : MemTypes,      \* what Add is to record
          hash_index : Nat,                 \* the stack reference Add acquired
          displaced : Records \cup {NoRecord},
          previous : Records \cup {NoRecord}, \* the record TakeEntry handed out
          delta : Int,                      \* Remap's growth or shrink
          total : Nat]                      \* tracked_total

NoCall == [op |-> "none", ptr |-> NoKey, old |-> NoKey, size |-> 0,
           type |-> "HOST", hash_index |-> kBacktraceExitIndex,
           displaced |-> NoRecord, previous |-> NoRecord, delta |-> 0,
           total |-> 0]

Labels == {"idle", "add", "insert", "undoType", "addUsed", "addType", "addPeak",
           "snapshot", "snapActive", "snapClaim", "snapRecheck", "snapLocked",
           "snapRelease", "dropDisplaced", "added",
           "take", "takeType", "taken", "restore", "restoreType",
           "remap", "remapUndoType", "remapUsed", "remapType", "remapPeak",
           "done"}

Initialize ==
    /\ pointers = [k \in Keys |-> NoRecord]
    /\ shardMutex = [s \in Shards |-> NoThread]
    /\ key_to_index = [s \in Stacks |-> 0]
    /\ frames = << >>
    /\ cur_hash_index = kBacktraceEmptyIndex + 1
    /\ current = [used |-> 0, host |-> 0, dma |-> 0]
    /\ peak = [used |-> 0, host |-> 0, dma |-> 0]
    /\ pc = [t \in Threads |-> "idle"]
    /\ call = [t \in Threads |-> NoCall]

-------------------------------------------------------------------------------
(* Helpers *)

Goto(t, label) == pc' = [pc EXCEPT ![t] = label]

LockFree(k) == shardMutex[ShardFor[k]] = NoThread

Lock(t, ks) ==
    shardMutex' = [s \in Shards |-> IF \E k \in ks : ShardFor[k] = s
                                    THEN t ELSE shardMutex[s]]

Unlock(t) ==
    shardMutex' = [s \in Shards |-> IF shardMutex[s] = t THEN NoThread
                                    ELSE shardMutex[s]]

(* current_dma for DMA records, current_host for every other type. *)
Counter(type) == IF type = "DMA" THEN "dma" ELSE "host"

RaisePeak(counter, value) == IF value > peak[counter] THEN value ELSE peak[counter]

ShouldBacktraceAllocSize(size) == size >= BacktraceMinSize

-------------------------------------------------------------------------------
(* The stack table, under frame_mutex_. *)

(* AddBacktrace: the capture may fail or be filtered by size, and then the
   record carries the empty index.  A repeated stack gains a reference. *)
AddBacktrace(t) ==
    /\ pc[t] = "add"
    /\ Goto(t, "insert")
    /\ \E raw \in IF ShouldBacktraceAllocSize(call[t].size)
                  THEN Stacks \cup {NoStack} ELSE {NoStack} :
         \/ /\ raw = NoStack
            /\ call' = [call EXCEPT ![t].hash_index = kBacktraceEmptyIndex]
            /\ UNCHANGED frameVars
         \/ /\ raw # NoStack
            /\ key_to_index[raw] = 0
            /\ call' = [call EXCEPT ![t].hash_index = cur_hash_index]
            /\ cur_hash_index' = cur_hash_index + 1
            /\ frames' = [i \in DOMAIN frames \cup {cur_hash_index} |->
                            IF i = cur_hash_index
                            THEN [references |-> 1, stack |-> raw] ELSE frames[i]]
            /\ key_to_index' = [key_to_index EXCEPT ![raw] = cur_hash_index]
         \/ /\ raw # NoStack
            /\ key_to_index[raw] # 0
            /\ call' = [call EXCEPT ![t].hash_index = key_to_index[raw]]
            /\ frames' = [frames EXCEPT ![key_to_index[raw]].references = @ + 1]
            /\ UNCHANGED <<key_to_index, cur_hash_index>>
    /\ UNCHANGED tableVars

(* Slip: the erased frame's key stays behind. *)
RemoveBacktraceKeepsKey(index) ==
    IF index <= kBacktraceEmptyIndex \/ index \notin DOMAIN frames
    THEN UNCHANGED frameVars
    ELSE /\ frames' = IF frames[index].references = 1
                      THEN [i \in DOMAIN frames \ {index} |-> frames[i]]
                      ELSE [frames EXCEPT ![index].references = @ - 1]
         /\ UNCHANGED <<key_to_index, cur_hash_index>>

(* RemoveBacktrace: the last reference erases the frame and its key. *)
RemoveBacktrace(index) ==
    IF index <= kBacktraceEmptyIndex \/ index \notin DOMAIN frames
    THEN UNCHANGED frameVars
    ELSE IF frames[index].references = 1
    THEN /\ key_to_index' = [key_to_index EXCEPT ![frames[index].stack] = 0]
         /\ frames' = [i \in DOMAIN frames \ {index} |-> frames[i]]
         /\ UNCHANGED cur_hash_index
    ELSE /\ frames' = [frames EXCEPT ![index].references = @ - 1]
         /\ UNCHANGED <<key_to_index, cur_hash_index>>

-------------------------------------------------------------------------------
(* Add *)

(* The shard is locked and a record already at this address is found; if there
   is one, its bytes leave current_used here. *)
AddLock(t) ==
    LET k == call[t].ptr IN
    /\ pc[t] = "insert"
    /\ LockFree(k)
    /\ Lock(t, {k})
    /\ IF pointers[k] = NoRecord
       THEN /\ Goto(t, "addUsed")
            /\ UNCHANGED <<current, call>>
       ELSE /\ Goto(t, "undoType")
            /\ current' = [current EXCEPT !.used = @ - pointers[k].size]
            /\ call' = [call EXCEPT ![t].displaced = pointers[k]]
    /\ UNCHANGED <<pointers, peak, frameVars>>

(* The displaced record's bytes leave its type's counter; it is erased. *)
AddUndoType(t) ==
    LET d == call[t].displaced IN
    /\ pc[t] = "undoType"
    /\ current' = [current EXCEPT ![Counter(d.mem_type)] = @ - d.size]
    /\ pointers' = [pointers EXCEPT ![call[t].ptr] = NoRecord]
    /\ Goto(t, "addUsed")
    /\ UNCHANGED <<shardMutex, peak, frameVars, call>>

(* Slip: the value fetch_add returns is taken for the new total. *)
AddUsedStale(t) ==
    LET c == call[t] IN
    /\ pc[t] = "addUsed"
    /\ pointers' = [pointers EXCEPT ![c.ptr] =
                      [size |-> c.size, hash_index |-> c.hash_index, mem_type |-> c.type]]
    /\ current' = [current EXCEPT !.used = @ + c.size]
    /\ call' = [call EXCEPT ![t].total = current.used]
    /\ Goto(t, "addType")
    /\ UNCHANGED <<shardMutex, peak, frameVars>>

AddUsed(t) ==
    LET c == call[t] IN
    /\ pc[t] = "addUsed"
    /\ pointers' = [pointers EXCEPT ![c.ptr] =
                      [size |-> c.size, hash_index |-> c.hash_index, mem_type |-> c.type]]
    /\ current' = [current EXCEPT !.used = @ + c.size]
    /\ call' = [call EXCEPT ![t].total = current.used + c.size]
    /\ Goto(t, "addType")
    /\ UNCHANGED <<shardMutex, peak, frameVars>>

AddType(t) ==
    LET n == Counter(call[t].type) IN
    /\ pc[t] = "addType"
    /\ current' = [current EXCEPT ![n] = @ + call[t].size]
    /\ peak' = [peak EXCEPT ![n] = RaisePeak(n, current[n] + call[t].size)]
    /\ Goto(t, "addPeak")
    /\ UNCHANGED <<pointers, shardMutex, frameVars, call>>

(* peak_tot is raised and the shard unlocked; only the call that raised it goes
   on to MaybeRecordPeakSnapshot. *)
AddPeak(t) ==
    /\ pc[t] = "addPeak"
    /\ peak' = [peak EXCEPT !.used = RaisePeak("used", call[t].total)]
    /\ Unlock(t)
    /\ Goto(t, IF call[t].total > peak.used THEN "snapshot" ELSE "dropDisplaced")
    /\ UNCHANGED <<pointers, current, frameVars, call>>

(* Slip: the displaced record's stack is never released. *)
DropDisplacedLeaks(t) ==
    /\ pc[t] = "dropDisplaced"
    /\ call' = [call EXCEPT ![t].displaced = NoRecord, ![t].total = 0,
                            ![t].hash_index = kBacktraceExitIndex]
    /\ Goto(t, "added")
    /\ UNCHANGED <<tableVars, frameVars>>

(* The displaced record's stack is released with no shard held. *)
DropDisplaced(t) ==
    LET d == call[t].displaced IN
    /\ pc[t] = "dropDisplaced"
    /\ IF d = NoRecord THEN UNCHANGED frameVars ELSE RemoveBacktrace(d.hash_index)
    /\ call' = [call EXCEPT ![t].displaced = NoRecord, ![t].total = 0,
                            ![t].hash_index = kBacktraceExitIndex]
    /\ Goto(t, "added")
    /\ UNCHANGED tableVars

-------------------------------------------------------------------------------
(* TakeEntry and RestoreEntry *)

TakeEntry(t) ==
    LET k == call[t].ptr IN
    /\ pc[t] = "take"
    /\ LockFree(k)
    /\ IF pointers[k] = NoRecord
       THEN /\ Goto(t, "taken")
            /\ UNCHANGED <<shardMutex, current, call>>
       ELSE /\ Lock(t, {k})
            /\ current' = [current EXCEPT !.used = @ - pointers[k].size]
            /\ call' = [call EXCEPT ![t].previous = pointers[k]]
            /\ Goto(t, "takeType")
    /\ UNCHANGED <<pointers, peak, frameVars>>

(* Slips: the wrong counter, a record left behind, a shard left locked. *)
TakeEntryTypeFrom(t, n, table, mutexes) ==
    /\ pc[t] = "takeType"
    /\ current' = [current EXCEPT ![n] = @ - call[t].previous.size]
    /\ pointers' = table
    /\ shardMutex' = mutexes
    /\ Goto(t, "taken")
    /\ UNCHANGED <<peak, frameVars, call>>

Unlocked(t) == [s \in Shards |-> IF shardMutex[s] = t THEN NoThread ELSE shardMutex[s]]

TakeEntryTypeWrongCounter(t) ==
    TakeEntryTypeFrom(t, "used", [pointers EXCEPT ![call[t].ptr] = NoRecord], Unlocked(t))

TakeEntryTypeKeepsRecord(t) ==
    TakeEntryTypeFrom(t, Counter(call[t].previous.mem_type), pointers, Unlocked(t))

TakeEntryTypeStaysLocked(t) ==
    TakeEntryTypeFrom(t, Counter(call[t].previous.mem_type),
                      [pointers EXCEPT ![call[t].ptr] = NoRecord], shardMutex)

TakeEntryType(t) ==
    LET p == call[t].previous IN
    /\ pc[t] = "takeType"
    /\ current' = [current EXCEPT ![Counter(p.mem_type)] = @ - p.size]
    /\ pointers' = [pointers EXCEPT ![call[t].ptr] = NoRecord]
    /\ Unlock(t)
    /\ Goto(t, "taken")
    /\ UNCHANGED <<peak, frameVars, call>>

(* The record goes back as it was: no stack is captured, no peak is raised and
   a record that is already at the address is not reversed. *)
RestoreEntry(t) ==
    LET c == call[t] IN
    /\ pc[t] = "restore"
    /\ LockFree(c.ptr)
    /\ Lock(t, {c.ptr})
    /\ pointers' = [pointers EXCEPT ![c.ptr] = c.previous]
    /\ current' = [current EXCEPT !.used = @ + c.previous.size]
    /\ Goto(t, "restoreType")
    /\ UNCHANGED <<peak, frameVars, call>>

(* Slip: only current_used gets the restored bytes back. *)
RestoreEntryTypeDropped(t) ==
    /\ pc[t] = "restoreType"
    /\ call' = [call EXCEPT ![t].previous = NoRecord]
    /\ Unlock(t)
    /\ Goto(t, "done")
    /\ UNCHANGED <<pointers, current, peak, frameVars>>

RestoreEntryType(t) ==
    LET p == call[t].previous IN
    /\ pc[t] = "restoreType"
    /\ current' = [current EXCEPT ![Counter(p.mem_type)] = @ + p.size]
    /\ call' = [call EXCEPT ![t].previous = NoRecord]
    /\ Unlock(t)
    /\ Goto(t, "done")
    /\ UNCHANGED <<pointers, peak, frameVars>>

-------------------------------------------------------------------------------
(* Remap: the record of call.old moves to call.ptr with size call.size.  Both
   shards are taken together here; the order they are taken in is the subject
   of module ShardLocks. *)

RemapLock(t) ==
    LET c == call[t]
        rec == pointers[c.old]
        moved == [pointers EXCEPT ![c.old] = NoRecord]
    IN
    /\ pc[t] = "remap"
    /\ LockFree(c.old) /\ LockFree(c.ptr)
    /\ IF rec = NoRecord
       THEN /\ Goto(t, "added")
            /\ UNCHANGED <<pointers, shardMutex, current, call>>
       ELSE /\ Lock(t, {c.old, c.ptr})
            /\ pointers' = moved
            /\ call' = [call EXCEPT ![t].hash_index = rec.hash_index,
                                    ![t].type = rec.mem_type,
                                    ![t].delta = c.size - rec.size,
                                    ![t].displaced = moved[c.ptr]]
            /\ IF moved[c.ptr] = NoRecord
               THEN Goto(t, "remapUsed") /\ UNCHANGED current
               ELSE /\ Goto(t, "remapUndoType")
                    /\ current' = [current EXCEPT !.used = @ - moved[c.ptr].size]
    /\ UNCHANGED <<peak, frameVars>>

RemapUndoType(t) ==
    LET d == call[t].displaced IN
    /\ pc[t] = "remapUndoType"
    /\ current' = [current EXCEPT ![Counter(d.mem_type)] = @ - d.size]
    /\ pointers' = [pointers EXCEPT ![call[t].ptr] = NoRecord]
    /\ Goto(t, "remapUsed")
    /\ UNCHANGED <<shardMutex, peak, frameVars, call>>

(* Slip: the resized mapping is added in full, not by what it grew. *)
RemapUsedWhole(t) ==
    LET c == call[t] IN
    /\ pc[t] = "remapUsed"
    /\ pointers' = [pointers EXCEPT ![c.ptr] =
                      [size |-> c.size, hash_index |-> c.hash_index, mem_type |-> c.type]]
    /\ current' = [current EXCEPT !.used = @ + c.size]
    /\ call' = [call EXCEPT ![t].total = current.used + c.size]
    /\ Goto(t, "remapType")
    /\ UNCHANGED <<shardMutex, peak, frameVars>>

RemapUsed(t) ==
    LET c == call[t] IN
    /\ pc[t] = "remapUsed"
    /\ pointers' = [pointers EXCEPT ![c.ptr] =
                      [size |-> c.size, hash_index |-> c.hash_index, mem_type |-> c.type]]
    /\ current' = [current EXCEPT !.used = @ + c.delta]
    /\ call' = [call EXCEPT ![t].total = current.used + c.delta]
    /\ Goto(t, "remapType")
    /\ UNCHANGED <<shardMutex, peak, frameVars>>

(* Slip: no peak is raised on growth. *)
RemapTypeNoPeak(t) ==
    /\ pc[t] = "remapType"
    /\ current' = [current EXCEPT ![Counter(call[t].type)] = @ + call[t].delta]
    /\ Goto(t, "remapPeak")
    /\ UNCHANGED <<pointers, shardMutex, peak, frameVars, call>>

(* Only growth can raise the type's peak. *)
RemapType(t) ==
    LET n == Counter(call[t].type) IN
    /\ pc[t] = "remapType"
    /\ current' = [current EXCEPT ![n] = @ + call[t].delta]
    /\ peak' = IF call[t].delta >= 0
               THEN [peak EXCEPT ![n] = RaisePeak(n, current[n] + call[t].delta)]
               ELSE peak
    /\ Goto(t, "remapPeak")
    /\ UNCHANGED <<pointers, shardMutex, frameVars, call>>

RemapPeak(t) ==
    /\ pc[t] = "remapPeak"
    /\ peak' = [peak EXCEPT !.used = RaisePeak("used", call[t].total)]
    /\ call' = [call EXCEPT ![t].delta = 0]
    /\ Unlock(t)
    /\ Goto(t, IF call[t].total > peak.used THEN "snapshot" ELSE "dropDisplaced")
    /\ UNCHANGED <<pointers, current, frameVars>>

(* One step of a thread inside a method of PointerData. *)
TrackerStep(t) ==
    \/ AddBacktrace(t) \/ AddLock(t) \/ AddUndoType(t) \/ AddUsed(t)
    \/ AddType(t) \/ AddPeak(t) \/ DropDisplaced(t)
    \/ TakeEntry(t) \/ TakeEntryType(t) \/ RestoreEntry(t) \/ RestoreEntryType(t)
    \/ RemapLock(t) \/ RemapUndoType(t) \/ RemapUsed(t) \/ RemapType(t) \/ RemapPeak(t)

-------------------------------------------------------------------------------
(* The stack table against the records and the calls that name its stacks *)

(* key_to_index_ and frames_ name the same stacks: a stack has one live index,
   and a frame whose key is gone could never be found or shared again. *)
KeysNameFrames ==
    /\ \A s \in Stacks : key_to_index[s] # 0 =>
          key_to_index[s] \in DOMAIN frames /\ frames[key_to_index[s]].stack = s
    /\ \A i \in DOMAIN frames : key_to_index[frames[i].stack] = i

(* The references to stack i that thread t holds between taking and giving up:
   the one it is adding, the one of the record it displaced and the one of the
   record it detached. *)
One(condition) == IF condition THEN 1 ELSE 0
Adding(t, i) ==
    One(/\ call[t].hash_index = i
        /\ pc[t] \in {"insert", "undoType", "addUsed", "remapUndoType", "remapUsed"})
Displaced(t, i) ==
    One(/\ call[t].displaced # NoRecord /\ call[t].displaced.hash_index = i
        /\ pc[t] \notin {"undoType", "remapUndoType"})
Detached(t, i) ==
    One(/\ call[t].previous # NoRecord /\ call[t].previous.hash_index = i
        /\ pc[t] \notin {"takeType", "restoreType"})
Holds(t, i) == Adding(t, i) + Displaced(t, i) + Detached(t, i)

Recorded(k, i) == One(pointers[k] # NoRecord /\ pointers[k].hash_index = i)
===============================================================================
