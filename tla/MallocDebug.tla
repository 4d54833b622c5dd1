------------------------------ MODULE MallocDebug ------------------------------
(***************************************************************************)
(* The interposed allocator and mapping calls (backtrace/src/              *)
(* malloc_debug.cpp) running over the tracker of module PointerData, with  *)
(* the C library and the kernel as the environment that hands out and      *)
(* takes back addresses.                                                   *)
(*                                                                         *)
(* An address that is freed, unmapped or moved away is available to every  *)
(* other thread from that step on, so the order in which a handler makes   *)
(* the system call and updates the record matters.  The application is a   *)
(* correct one: it releases only blocks it holds, and never one that       *)
(* another call is still working on.                                       *)
(***************************************************************************)
EXTENDS PointerData

CONSTANTS
    MaxSize,    \* PointerInfoType::MaxSize()
    MaxCalls,   \* bound: interposed calls in a behaviour
    Features,   \* which of AllFeatures the environment makes use of
    NoBlock

AllFeatures ==
    {"realloc", "mmap", "fixed", "mremap",
     "fail",        \* realloc and munmap can fail
     "gpu",         \* a mapping preceded by a GPU allocation ioctl
     "untracked",   \* blocks the hook never saw allocated
     "direct"}      \* releases the hook does not see

ASSUME FeaturesAssumption == Features \subseteq AllFeatures
ASSUME BoundsAssumption == MaxSize \in Nat /\ MaxCalls \in Nat

VARIABLES
    mem,    \* address -> the live block there, or NoBlock
    calls   \* interposed calls made so far

vars == <<pointers, shardMutex, key_to_index, frames, cur_hash_index,
          current, peak, pc, call, mem, calls>>

(* owner is the thread whose call is working on the block; seen tells whether
   the block came from an interposed call. *)
Blocks == [size : Nat, type : MemTypes, owner : Threads \cup {NoThread}, seen : BOOLEAN]

ASSUME NoBlockAssumption == NoBlock \notin Blocks

TypeOK ==
    /\ pointers \in [Keys -> Records \cup {NoRecord}]
    /\ shardMutex \in [Shards -> Threads \cup {NoThread}]
    /\ key_to_index \in [Stacks -> Nat]
    /\ cur_hash_index \in Nat
    /\ DOMAIN frames \subseteq 2..(cur_hash_index - 1)
    /\ \A i \in DOMAIN frames : frames[i] \in [references : Nat, stack : Stacks]
    /\ current \in Counters
    /\ peak \in Counters
    /\ pc \in [Threads -> Labels]
    /\ call \in [Threads -> Calls]
    /\ mem \in [Keys -> Blocks \cup {NoBlock}]
    /\ calls \in 0..MaxCalls

Init ==
    /\ Initialize
    /\ mem = [k \in Keys |-> NoBlock]
    /\ calls = 0

-------------------------------------------------------------------------------
(* Helpers *)

Block(size, type, t) == [size |-> size, type |-> type, owner |-> t, seen |-> TRUE]

(* The application holds k and no call is working on it. *)
Held(k, types) == /\ mem[k] # NoBlock
                  /\ mem[k].owner = NoThread
                  /\ mem[k].type \in types

Mappings == {"MMAP", "DMA"}

Enter(t, c, label) ==
    /\ pc[t] = "idle"
    /\ calls < MaxCalls
    /\ calls' = calls + 1
    /\ call' = [call EXCEPT ![t] = c]
    /\ Goto(t, label)

(* The locals of a call that is to record, detach or move the record of a block. *)
AllocCall(k, size, type) ==
    [NoCall EXCEPT !.op = "alloc", !.ptr = k, !.size = size, !.type = type]
DetachCall(op, k, size) == [NoCall EXCEPT !.op = op, !.ptr = k, !.size = size]
RemapCall(old, new, size) ==
    [NoCall EXCEPT !.op = "mremap", !.old = old, !.ptr = new, !.size = size]

(* The C library or the kernel hands out a free address and Add records it. *)
Allocate(t, k, size, type) ==
    /\ mem[k] = NoBlock
    /\ mem' = [mem EXCEPT ![k] = Block(size, type, t)]
    /\ Enter(t, AllocCall(k, size, type), "add")
    /\ UNCHANGED trackerVars

(* A call that begins by detaching the record of a block the application holds. *)
Detach(t, k, op, size) ==
    /\ mem' = [mem EXCEPT ![k].owner = t]
    /\ Enter(t, DetachCall(op, k, size), "take")
    /\ UNCHANGED trackerVars

-------------------------------------------------------------------------------
(* Entry of the interposed calls.  A refused size, or an allocation the C
   library cannot serve, changes nothing and is not a step. *)

DebugMalloc(t) ==
    \E k \in Keys, size \in Sizes :
        size <= MaxSize /\ Allocate(t, k, size, "HOST")

(* debug_calloc checks the product for overflow only, not against MaxSize(). *)
DebugCalloc(t) ==
    \E k \in Keys, size \in Sizes : Allocate(t, k, size, "HOST")

(* debug_memalign, debug_aligned_alloc and debug_posix_memalign. *)
DebugMemalign(t) ==
    \E k \in Keys, size \in Sizes :
        size <= MaxSize /\ Allocate(t, k, size, "HOST")

(* Slip: the block is given back before its record is detached. *)
DebugFreeEarly(t) ==
    \E k \in Keys :
        /\ Held(k, {"HOST"})
        /\ mem' = [mem EXCEPT ![k] = NoBlock]
        /\ Enter(t, DetachCall("free", k, 0), "take")
        /\ UNCHANGED trackerVars

DebugFree(t) ==
    \E k \in Keys : Held(k, {"HOST"}) /\ Detach(t, k, "free", 0)

(* A null pointer allocates, a zero size frees, a larger size is refused. *)
DebugRealloc(t) ==
    /\ "realloc" \in Features
    /\ \E k \in Keys, size \in Sizes \cup {0} :
         /\ size <= MaxSize
         /\ \/ Allocate(t, k, size, "HOST")
            \/ Held(k, {"HOST"}) /\ size = 0 /\ Detach(t, k, "free", 0)
            \/ Held(k, {"HOST"}) /\ size # 0 /\ Detach(t, k, "realloc", size)

(* Anonymous mappings, and a mapping whose allocation ioctl is pending, which
   TrackMmapResult records as DMA.  MAP_FIXED may replace a mapping. *)
DebugMmap(t) ==
    /\ "mmap" \in Features
    /\ \E k \in Keys, size \in Sizes,
          type \in IF "gpu" \in Features THEN Mappings ELSE {"MMAP"} :
         /\ size <= MaxSize
         /\ \/ Allocate(t, k, size, type)
            \/ /\ "fixed" \in Features
               /\ Held(k, Mappings)
               /\ mem' = [mem EXCEPT ![k] = Block(size, type, t)]
               /\ Enter(t, AllocCall(k, size, type), "add")
               /\ UNCHANGED trackerVars

DebugMunmap(t) ==
    /\ "mmap" \in Features
    /\ \E k \in Keys : Held(k, Mappings) /\ Detach(t, k, "munmap", 0)

(* The kernel moves the mapping before the tracker is told: old is free, and
   can be handed to another thread, from this step on.  The destination is old
   itself, a free address, or (MREMAP_FIXED) another mapping of the caller. *)
DebugMremap(t) ==
    /\ "mremap" \in Features
    /\ \E old \in Keys, new \in Keys, size \in Sizes :
         /\ size <= MaxSize
         /\ Held(old, Mappings)
         /\ \/ new = old
            \/ mem[new] = NoBlock
            \/ "fixed" \in Features /\ Held(new, Mappings)
         /\ \/ /\ mem' = [mem EXCEPT ![old] = NoBlock,
                                     ![new] = [mem[old] EXCEPT !.size = size, !.owner = t]]
               /\ Enter(t, RemapCall(old, new, size), "remap")
            \/ (* MREMAP_DONTUNMAP: old stays mapped, new is a second mapping *)
               /\ new # old
               /\ mem[old].type = "MMAP" /\ size = mem[old].size
               /\ mem' = [mem EXCEPT ![old].owner = t, ![new] = Block(size, "MMAP", t)]
               /\ Enter(t, AllocCall(new, size, "MMAP"), "add")
    /\ UNCHANGED trackerVars

-------------------------------------------------------------------------------
(* What the handlers do when the tracker returns to them *)

(* Remove has detached the record and drops its stack before the block is
   given back. *)
FreeBacktrace(t) ==
    /\ pc[t] = "taken" /\ call[t].op = "free" /\ call[t].previous # NoRecord
    /\ RemoveBacktrace(call[t].previous.hash_index)
    /\ call' = [call EXCEPT ![t].previous = NoRecord]
    /\ UNCHANGED <<tableVars, pc, mem, calls>>

SysFree(t) ==
    /\ pc[t] = "taken" /\ call[t].op = "free" /\ call[t].previous = NoRecord
    /\ mem' = [mem EXCEPT ![call[t].ptr] = NoBlock]
    /\ Goto(t, "done")
    /\ UNCHANGED <<trackerVars, call, calls>>

(* The block is resized in place or moved; the new block is then recorded. *)
SysRealloc(t) ==
    LET k == call[t].ptr IN
    /\ pc[t] = "taken" /\ call[t].op = "realloc"
    /\ \E new \in Keys :
         /\ new = k \/ mem[new] = NoBlock
         /\ mem' = [mem EXCEPT ![k] = NoBlock, ![new] = Block(call[t].size, "HOST", t)]
         /\ call' = [call EXCEPT ![t].ptr = new, ![t].type = "HOST"]
    /\ Goto(t, "add")
    /\ UNCHANGED <<trackerVars, calls>>

SysMunmap(t) ==
    /\ pc[t] = "taken" /\ call[t].op = "munmap"
    /\ mem' = [mem EXCEPT ![call[t].ptr] = NoBlock]
    /\ Goto(t, "added")
    /\ UNCHANGED <<trackerVars, call, calls>>

(* realloc or munmap failed: the block is still live, its record goes back. *)
SysFailed(t) ==
    /\ "fail" \in Features
    /\ pc[t] = "taken" /\ call[t].op \in {"realloc", "munmap"}
    /\ Goto(t, IF call[t].previous = NoRecord THEN "done" ELSE "restore")
    /\ UNCHANGED <<trackerVars, call, mem, calls>>

(* With RECORD_MEMORY_PEAK off, MaybeRecordPeakSnapshot returns at once. *)
PeakRecordingOff(t) ==
    /\ pc[t] = "snapshot"
    /\ Goto(t, "dropDisplaced")
    /\ UNCHANGED <<trackerVars, call, mem, calls>>

(* Slip: the reference the detached record held is forgotten. *)
ReleasePreviousLeaks(t) ==
    /\ pc[t] = "added"
    /\ call' = [call EXCEPT ![t].previous = NoRecord]
    /\ Goto(t, "done")
    /\ UNCHANGED <<trackerVars, mem, calls>>

(* The stack of the record TakeEntry detached is released last. *)
ReleasePrevious(t) ==
    /\ pc[t] = "added"
    /\ IF call[t].previous = NoRecord THEN UNCHANGED frameVars
       ELSE RemoveBacktrace(call[t].previous.hash_index)
    /\ call' = [call EXCEPT ![t].previous = NoRecord]
    /\ Goto(t, "done")
    /\ UNCHANGED <<tableVars, mem, calls>>

(* The call returns and its blocks are the application's to use. *)
Return(t) ==
    /\ pc[t] = "done"
    /\ call' = [call EXCEPT ![t] = NoCall]
    /\ mem' = [k \in Keys |-> IF mem[k] # NoBlock /\ mem[k].owner = t
                              THEN [mem[k] EXCEPT !.owner = NoThread] ELSE mem[k]]
    /\ Goto(t, "idle")
    /\ UNCHANGED <<trackerVars, calls>>

-------------------------------------------------------------------------------
(* Memory the hook does not see: a direct syscall, a call made while tracking
   is disabled for the thread, or one made before the hook was installed. *)

UntrackedAlloc ==
    /\ "untracked" \in Features
    /\ \E k \in Keys, size \in Sizes, type \in {"HOST", "MMAP"} :
         /\ mem[k] = NoBlock
         /\ mem' = [mem EXCEPT ![k] = [Block(size, type, NoThread) EXCEPT !.seen = FALSE]]
    /\ UNCHANGED <<trackerVars, pc, call, calls>>

DirectRelease ==
    /\ "direct" \in Features
    /\ \E k \in Keys : Held(k, MemTypes) /\ mem' = [mem EXCEPT ![k] = NoBlock]
    /\ UNCHANGED <<trackerVars, pc, call, calls>>

Entry(t) ==
    \/ DebugMalloc(t) \/ DebugCalloc(t) \/ DebugMemalign(t) \/ DebugFree(t)
    \/ DebugRealloc(t) \/ DebugMmap(t) \/ DebugMunmap(t) \/ DebugMremap(t)

(* Every step of a handler but the peak snapshot, which PeakSnapshot adds. *)
HandlerStep(t) ==
    \/ TrackerStep(t) /\ UNCHANGED <<mem, calls>>
    \/ FreeBacktrace(t) \/ SysFree(t) \/ SysRealloc(t) \/ SysMunmap(t)
    \/ SysFailed(t) \/ ReleasePrevious(t) \/ Return(t)

Environment == UntrackedAlloc \/ DirectRelease

Next ==
    \/ \E t \in Threads : Entry(t) \/ HandlerStep(t) \/ PeakRecordingOff(t)
    \/ Environment

Fairness == \A t \in Threads : WF_vars(HandlerStep(t) \/ PeakRecordingOff(t))

Spec == Init /\ [][Next]_vars /\ Fairness
===============================================================================
