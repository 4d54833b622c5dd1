------------------------------ MODULE Accounting -------------------------------
(***************************************************************************)
(* What the tracker promises about its bytes and its stacks, stated over   *)
(* the interposed calls of module MallocDebug.                             *)
(***************************************************************************)
EXTENDS MallocDebug, Functions

(* No thread is inside a shard's critical section: what a snapshot, a report or
   a fork finds once it holds every shard. *)
Quiet == \A s \in Shards : shardMutex[s] = NoThread

(* The bytes of the live records of these types. *)
BytesOf(types) ==
    SumFunction([k \in Keys |-> IF pointers[k] # NoRecord /\ pointers[k].mem_type \in types
                                THEN pointers[k].size ELSE 0])

(* With every shard free, the three live counters are the sums over the live
   records they stand for: no update of Add, Remap, TakeEntry or RestoreEntry
   is lost, charged to the wrong type, or left unpaired by a displaced record. *)
CountersMatchTable ==
    Quiet => /\ current.used = BytesOf(MemTypes)
             /\ current.host = BytesOf({"HOST", "MMAP"})
             /\ current.dma = BytesOf({"DMA"})

(* With every shard free, no peak counter is below its live counter: a total
   that Add or Remap reached is in the peak before its shard is released. *)
PeakCoversCurrent ==
    Quiet => \A n \in {"used", "host", "dma"} : peak[n] >= current[n]

(* A stack's reference count is exactly the number of live records that name it
   plus the references calls in progress still hold: no stack is erased while a
   record names it, and none outlives its last record. *)
ReferencesExact ==
    \A i \in 2..(cur_hash_index - 1) :
        SumFunction([k \in Keys |-> Recorded(k, i)]) + SumFunction([t \in Threads |-> Holds(t, i)])
            = IF i \in DOMAIN frames THEN frames[i].references ELSE 0

(* A block an interposed call handed out, with no call working on it, has
   exactly its own record.  The record must be detached before the address can
   be handed to another thread, or the wrong record is erased or moved. *)
HeldBlocksTracked ==
    \A k \in Keys :
        (mem[k] # NoBlock /\ mem[k].owner = NoThread /\ mem[k].seen)
            => /\ pointers[k] # NoRecord
               /\ pointers[k].size = mem[k].size
               /\ pointers[k].mem_type = mem[k].type

(* Without releases the hook cannot see, a free address that no call is working
   on carries no record: nothing released is still reported as live. *)
NoStaleRecords ==
    "direct" \notin Features =>
        \A k \in Keys :
            (mem[k] = NoBlock /\ \A t \in Threads : k \notin {call[t].ptr, call[t].old})
                => pointers[k] = NoRecord

(* Every interposed call returns: no path of a handler leaves a shard locked or
   stops between two steps. *)
CallsReturn == \A t \in Threads : pc[t] # "idle" ~> pc[t] = "idle"

(* The books balance: bytes and stack references are those of the live records,
   through every update that Add, Remap, TakeEntry and RestoreEntry make. *)
BooksBalance == CountersMatchTable /\ ReferencesExact

(* Records and blocks correspond: what the application holds has its own record
   and what it gave back has none. *)
RecordsExact == HeldBlocksTracked /\ NoStaleRecords
===============================================================================
