------------------------------- MODULE ShardLocks ------------------------------
(***************************************************************************)
(* The locks of the hook and everyone who takes them: the interposed calls *)
(* (readers of ScopedConcurrentLock), the signal dump thread, the /proc    *)
(* sampler, fork(), and debug_finalize, which joins the sampler and takes  *)
(* the write side for good.                                                *)
(*                                                                         *)
(* The mutexes are numbered in the order of the code: 0 is                 *)
(* DMA_BUF::fd_transaction_mutex, 1..NumShards are shards_[*].mutex, and   *)
(* NumShards + 1 is frame_mutex_.  A critical section acquires its mutexes *)
(* one at a time, in the order its function asks for them; what it does    *)
(* with the data is the subject of the other modules.                      *)
(***************************************************************************)
EXTENDS Integers, Sequences, FiniteSets

CONSTANTS
    NumShards,    \* kPointerShards
    Threads,      \* application threads
    Sampler, Dumper, Finalizer,
    Kinds,        \* which calls the application makes
    MaxCalls,     \* bound: calls, dumps and observed crossings (0: no bound)
    PreferWriter, \* PTHREAD_RWLOCK_PREFER_WRITER_NONRECURSIVE_NP is set
    NoProc

Procs == Threads \cup {Sampler, Dumper, Finalizer}
Shards == 1..NumShards
FdTransaction == 0
Frame == NumShards + 1
Mutexes == 0..(NumShards + 1)
TrackerMutexes == 1..(NumShards + 1)

(* The sections of a call, in order.  "frame" is AddBacktrace or
   RemoveBacktrace, "shard" one critical section on an address, "pair" Remap's,
   "snapshot" a section on every shard that may return before it needs the
   frames, "walk" one that always takes them; the optional ones depend on the
   data. *)
Stage(section) == [section |-> section, optional |-> FALSE]
Maybe(section) == [section |-> section, optional |-> TRUE]

AddStages == <<Maybe("frame"), Stage("shard"), Maybe("snapshot"), Maybe("frame")>>
RemoveStages == <<Stage("shard"), Maybe("frame")>>

(* What a call may turn out to do; a system call that fails, or a descriptor
   that is not a DMA buffer, leaves nothing to record. *)
Scripts(kind) ==
    CASE kind = "malloc"     -> {<< >>, AddStages}
      [] kind = "free"       -> {RemoveStages}
      [] kind = "realloc"    -> {<<Stage("shard")>> \o AddStages \o <<Maybe("frame")>>,
                                 <<Stage("shard"), Stage("shard")>>}
      [] kind = "munmap"     -> {RemoveStages, <<Stage("shard"), Stage("shard")>>}
      [] kind = "mremap"     -> {<< >>, AddStages,
                                 <<Stage("pair"), Maybe("snapshot"), Maybe("frame")>>}
      [] kind = "mmapShared" -> {<< >>, AddStages}
      [] kind = "dmaIoctl"   -> {<< >>, AddStages, RemoveStages, RemoveStages \o AddStages}
      [] kind = "close"      -> {<< >>, RemoveStages}
      [] kind = "fork"       -> {<<Stage("fork")>>}
      [] kind = "dump"       -> {<<Stage("walk")>>}
      [] kind = "observe"    -> {<<Stage("walk"), Maybe("snapshot")>>}
      [] kind = "report"     -> {<<Maybe("walk")>>}

(* Calls that serialize on the descriptor transaction. *)
FdKinds == {"mmapShared", "dmaIoctl", "close"}
CallKinds == {"malloc", "free", "realloc", "munmap", "mremap"} \cup FdKinds

ASSUME ShardsAssumption == NumShards \in Nat \ {0}
ASSUME ProcsAssumption ==
    /\ NoProc \notin Procs
    /\ Finalizer \notin Threads \cup {Sampler, Dumper}
    /\ Sampler \notin Threads \cup {Dumper}
    /\ Dumper \notin Threads
ASSUME KindsAssumption == Kinds \subseteq CallKinds \cup {"fork"}
ASSUME CallsAssumption == MaxCalls \in Nat /\ PreferWriter \in BOOLEAN

VARIABLES
    holder,     \* mutex -> process that owns it
    readers,    \* processes inside a ScopedConcurrentLock
    writer,     \* who took BlockAllOperations, which never unlocks
    script,     \* process -> the stages still to run
    section,    \* process -> the section it is in
    plan,       \* process -> mutexes it still has to lock, in order
    running,    \* ObservedPeakSampler::running_
    finalize,   \* where debug_finalize is
    child,      \* mutexes that a forked child finds locked for good
    calls

vars == <<holder, readers, writer, script, section, plan, running, finalize, child, calls>>

Sections == {"none", "shard", "pair", "all", "allFrame", "frame"}
Stages == [section : {"frame", "shard", "pair", "snapshot", "walk", "fork"},
           optional : BOOLEAN]

TypeOK ==
    /\ holder \in [Mutexes -> Procs \cup {NoProc}]
    /\ readers \subseteq Procs
    /\ writer \in {NoProc, Finalizer}
    /\ script \in [Procs -> Seq(Stages)]
    /\ section \in [Procs -> Sections]
    /\ plan \in [Procs -> Seq(Mutexes)]
    /\ running \in {"yes", "no", "exited"}
    /\ finalize \in {"running", "join", "wrlock", "report", "done"}
    /\ child \in SUBSET Mutexes
    /\ calls \in Nat

Init ==
    /\ holder = [m \in Mutexes |-> NoProc]
    /\ readers = {}
    /\ writer = NoProc
    /\ script = [p \in Procs |-> << >>]
    /\ section = [p \in Procs |-> "none"]
    /\ plan = [p \in Procs |-> << >>]
    /\ running = "yes"
    /\ finalize = "running"
    /\ child = {}
    /\ calls = 0

HeldBy(p) == {m \in Mutexes : holder[m] = p}

(* p runs no call and owns nothing. *)
Resting(p) == /\ script[p] = << >> /\ section[p] = "none" /\ plan[p] = << >>
              /\ p \notin readers /\ holder[FdTransaction] # p

-------------------------------------------------------------------------------
(* The order in which each function locks *)

(* Slips: one shard too many, or the shards from the last to the first. *)
LockAllShardsOverrun == [i \in 1..(NumShards + 2) |-> i]
LockAllShardsDescending == [i \in 1..NumShards |-> NumShards + 1 - i]

LockAllShards == [i \in 1..NumShards |-> i]

(* Slip: the old address's shard is always taken first. *)
RemapOrderUnsorted(old, new) == IF old = new THEN <<old>> ELSE <<old, new>>

(* Remap compares the two shards and takes the lower one first. *)
RemapOrder(old, new) ==
    IF old = new THEN <<old>> ELSE IF old < new THEN <<old, new>> ELSE <<new, old>>

-------------------------------------------------------------------------------
(* Calls *)

CountCall ==
    /\ MaxCalls = 0 \/ calls < MaxCalls
    /\ calls' = IF MaxCalls = 0 THEN calls ELSE calls + 1

(* Slip: the rwlock is left at its default, which prefers readers. *)
ReadLockDefault == writer = NoProc

(* pthread_rwlock_rdlock: refused while the write lock is held and, if writers
   are preferred, while one is pending. *)
ReadLockGranted == writer = NoProc /\ (PreferWriter => finalize # "wrlock")

(* An interposed call or a dump: ScopedConcurrentLock is acquired on entry, and
   the descriptor transaction next for the calls that need it. *)
BeginCall(p, kind) ==
    /\ Resting(p)
    /\ ReadLockGranted
    /\ CountCall
    /\ readers' = readers \cup {p}
    /\ \E s \in Scripts(kind) : script' = [script EXCEPT ![p] = s]
    /\ plan' = [plan EXCEPT ![p] = IF kind \in FdKinds THEN <<FdTransaction>> ELSE << >>]
    /\ UNCHANGED <<holder, writer, section, running, finalize, child>>

(* fork(): the prepare handler takes the tracker's mutexes and not the rwlock. *)
BeginFork(p) ==
    /\ Resting(p)
    /\ CountCall
    /\ \E s \in Scripts("fork") : script' = [script EXCEPT ![p] = s]
    /\ UNCHANGED <<holder, readers, writer, section, plan, running, finalize, child>>

(* The next section of a call starts locking. *)
StartSection(p) ==
    /\ script[p] # << >> /\ section[p] = "none" /\ plan[p] = << >>
    /\ LET s == Head(script[p]).section IN
       \/ /\ s = "frame"
          /\ section' = [section EXCEPT ![p] = "frame"]
          /\ plan' = [plan EXCEPT ![p] = <<Frame>>]
       \/ /\ s = "shard"
          /\ section' = [section EXCEPT ![p] = "shard"]
          /\ \E i \in Shards : plan' = [plan EXCEPT ![p] = <<i>>]
       \/ /\ s = "pair"
          /\ section' = [section EXCEPT ![p] = "pair"]
          /\ \E i, j \in Shards : plan' = [plan EXCEPT ![p] = RemapOrder(i, j)]
       \/ /\ s \in {"snapshot", "walk", "fork"}
          /\ section' = [section EXCEPT ![p] = "all"]
          /\ plan' = [plan EXCEPT ![p] = LockAllShards]
    /\ UNCHANGED <<holder, readers, writer, script, running, finalize, child, calls>>

SkipStage(p) ==
    /\ script[p] # << >> /\ section[p] = "none" /\ plan[p] = << >>
    /\ Head(script[p]).optional
    /\ script' = [script EXCEPT ![p] = Tail(@)]
    /\ UNCHANGED <<holder, readers, writer, section, plan, running, finalize, child, calls>>

Acquire(p) ==
    /\ plan[p] # << >>
    /\ holder[Head(plan[p])] = NoProc
    /\ holder' = [holder EXCEPT ![Head(plan[p])] = p]
    /\ plan' = [plan EXCEPT ![p] = Tail(@)]
    /\ UNCHANGED <<readers, writer, script, section, running, finalize, child, calls>>

(* With every shard held, frame_mutex_ comes last. *)
TakeFrame(p) ==
    /\ section[p] = "all" /\ plan[p] = << >>
    /\ section' = [section EXCEPT ![p] = "allFrame"]
    /\ plan' = [plan EXCEPT ![p] = <<Frame>>]
    /\ UNCHANGED <<holder, readers, writer, script, running, finalize, child, calls>>

(* Slips: fork proceeds with the shards only, or a section keeps frame_mutex_. *)
LeaveSectionAs(p, early, kept) ==
    /\ section[p] # "none" /\ plan[p] = << >>
    /\ section[p] = "all" => Head(script[p]).section \in early
    /\ holder' = [m \in Mutexes |-> IF m \notin kept /\ holder[m] = p
                                    THEN NoProc ELSE holder[m]]
    /\ section' = [section EXCEPT ![p] = "none"]
    /\ script' = [script EXCEPT ![p] = Tail(@)]
    /\ child' = IF Head(script[p]).section = "fork"
                THEN {m \in Mutexes : holder[m] \notin {NoProc, p}} ELSE child
    /\ UNCHANGED <<readers, writer, plan, running, finalize, calls>>

LeaveSectionForkEarly(p) == LeaveSectionAs(p, {"snapshot", "fork"}, {FdTransaction})

LeaveSectionKeepsFrame(p) == LeaveSectionAs(p, {"snapshot"}, {FdTransaction, Frame})

(* The mutexes of the section are released; only a snapshot section may end
   without having taken the frames.  At the end of a fork's section the child
   gets a copy of every lock and its handler unlocks what the forking thread
   owns: what stays locked is owned by threads that do not exist there. *)
LeaveSection(p) ==
    /\ section[p] # "none" /\ plan[p] = << >>
    /\ section[p] = "all" => Head(script[p]).section = "snapshot"
    /\ holder' = [m \in Mutexes |-> IF m # FdTransaction /\ holder[m] = p
                                    THEN NoProc ELSE holder[m]]
    /\ section' = [section EXCEPT ![p] = "none"]
    /\ script' = [script EXCEPT ![p] = Tail(@)]
    /\ child' = IF Head(script[p]).section = "fork"
                THEN {m \in Mutexes : holder[m] \notin {NoProc, p}} ELSE child
    /\ UNCHANGED <<readers, writer, plan, running, finalize, calls>>

(* Slip: the descriptor transaction is not released. *)
EndCallKeepsTransaction(p) ==
    /\ script[p] = << >> /\ section[p] = "none" /\ plan[p] = << >>
    /\ p \in readers
    /\ readers' = readers \ {p}
    /\ UNCHANGED <<holder, writer, script, section, plan, running, finalize, child, calls>>

(* The call returns: the transaction and the read lock are released. *)
EndCall(p) ==
    /\ script[p] = << >> /\ section[p] = "none" /\ plan[p] = << >>
    /\ p \in readers
    /\ readers' = readers \ {p}
    /\ holder' = [holder EXCEPT ![FdTransaction] = IF @ = p THEN NoProc ELSE @]
    /\ UNCHANGED <<writer, script, section, plan, running, finalize, child, calls>>

-------------------------------------------------------------------------------
(* The sampler and finalization *)

(* A new observed maximum: RecordObservedPeak, with no read lock. *)
SamplerCrossing ==
    /\ running = "yes"
    /\ Resting(Sampler)
    /\ CountCall
    /\ \E s \in Scripts("observe") : script' = [script EXCEPT ![Sampler] = s]
    /\ UNCHANGED <<holder, readers, writer, section, plan, running, finalize, child>>

SamplerExit ==
    /\ running = "no"
    /\ Resting(Sampler)
    /\ running' = "exited"
    /\ UNCHANGED <<holder, readers, writer, script, section, plan, finalize, child, calls>>

(* debug_finalize: stop the sampler, join it, block every operation, report. *)
StopSampler ==
    /\ finalize = "running"
    /\ running' = "no"
    /\ finalize' = "join"
    /\ UNCHANGED <<holder, readers, writer, script, section, plan, child, calls>>

(* Slip: the sampler is told to stop and not joined. *)
JoinSamplerSkipped ==
    /\ finalize = "join"
    /\ finalize' = "wrlock"
    /\ UNCHANGED <<holder, readers, writer, script, section, plan, running, child, calls>>

JoinSampler ==
    /\ finalize = "join"
    /\ running = "exited"
    /\ finalize' = "wrlock"
    /\ UNCHANGED <<holder, readers, writer, script, section, plan, running, child, calls>>

BlockAllOperations ==
    /\ finalize = "wrlock"
    /\ readers = {}
    /\ writer' = Finalizer
    /\ \E s \in Scripts("report") : script' = [script EXCEPT ![Finalizer] = s]
    /\ finalize' = "report"
    /\ UNCHANGED <<holder, readers, section, plan, running, child, calls>>

FinishReport ==
    /\ finalize = "report"
    /\ script[Finalizer] = << >> /\ section[Finalizer] = "none"
    /\ finalize' = "done"
    /\ UNCHANGED <<holder, readers, writer, script, section, plan, running, child, calls>>

-------------------------------------------------------------------------------
(* A process that is inside a call goes on with it. *)
Continue(p) ==
    \/ StartSection(p) \/ SkipStage(p) \/ Acquire(p) \/ TakeFrame(p)
    \/ LeaveSection(p) \/ EndCall(p)

FinalizeStep == StopSampler \/ JoinSampler \/ BlockAllOperations \/ FinishReport

Next ==
    \/ \E p \in Threads : \/ \E kind \in Kinds \ {"fork"} : BeginCall(p, kind)
                          \/ "fork" \in Kinds /\ BeginFork(p)
    \/ BeginCall(Dumper, "dump")
    \/ \E p \in Procs : Continue(p)
    \/ SamplerCrossing \/ SamplerExit \/ FinalizeStep

(* Threads inside a call are scheduled; a mutex that keeps becoming free is not
   withheld from one waiter for ever, nor a rwlock that keeps having no reader;
   the sampler's loop reads its flag; finalization, once started, goes on.
   Nobody has to start a call or to exit. *)
Fairness ==
    /\ \A p \in Procs : WF_vars(Continue(p)) /\ SF_vars(Acquire(p))
    /\ WF_vars(SamplerExit)
    /\ WF_vars(JoinSampler) /\ SF_vars(BlockAllOperations) /\ WF_vars(FinishReport)

Spec == Init /\ [][Next]_vars /\ Fairness

-------------------------------------------------------------------------------
(* Properties *)

(* The lock order of the code: a process waits for a mutex only while every
   mutex it owns comes before it (transaction, shards ascending, frames). *)
LockOrder ==
    \A p \in Procs : plan[p] # << >> =>
        \A m \in HeldBy(p) : m < Head(plan[p])

Busy(p) == plan[p] # << >> \/ HeldBy(p) # {}
Ready(p) == plan[p] = << >> \/ holder[Head(plan[p])] = NoProc

(* Whenever mutexes are owned or waited for, some process that owns or waits
   for one can go on: Add, Remap, snapshots, dumps, fork and the exit report
   never wait for each other in a cycle. *)
NoCyclicWait == (\E p \in Procs : Busy(p)) => \E p \in Procs : Busy(p) /\ Ready(p)

(* Once finalization has blocked all operations, no interposed call and no
   sampler owns a mutex: only the exit report and a thread inside fork() do. *)
FinalizerAlone ==
    writer = Finalizer =>
        /\ readers = {} /\ running = "exited"
        /\ \A m \in Mutexes :
              \/ holder[m] \in {NoProc, Finalizer}
              \/ holder[m] \in Threads /\ Head(script[holder[m]]).section = "fork"

(* A forked child finds every tracker mutex unlocked: none was copied while a
   thread that does not exist in the child was inside its critical section. *)
ChildUnlocked == child \cap TrackerMutexes = {}

-------------------------------------------------------------------------------
(* The inductive invariant behind the safety properties *)

(* What p is still to lock is ascending and comes after what it owns. *)
PlanAscends(p) ==
    /\ \A i, j \in 1..Len(plan[p]) : i < j => plan[p][i] < plan[p][j]
    /\ \A m \in Mutexes : holder[m] = p => \A i \in 1..Len(plan[p]) : m < plan[p][i]

Plans(p, m) == \E i \in 1..Len(plan[p]) : plan[p][i] = m

(* What a section owns or is still to lock: between sections only the descriptor
   transaction, in a section on every shard all of them. *)
SectionOwns(p) ==
    /\ section[p] = "none" =>
          \A m \in Mutexes : holder[m] = p \/ Plans(p, m) => m = FdTransaction
    /\ section[p] # "none" => ~Plans(p, FdTransaction)
    /\ section[p] = "all" =>
          /\ holder[Frame] # p /\ ~Plans(p, Frame)
          /\ \A m \in Shards : holder[m] = p \/ Plans(p, m)
    /\ section[p] = "allFrame" =>
          /\ \A m \in Shards : holder[m] = p
          /\ holder[Frame] = p \/ Plans(p, Frame)

Forking(p) == script[p] # << >> /\ Head(script[p]).section = "fork"

(* Who may be inside a call: a reader, a sampler that has not exited, the
   finalizer once it blocked the others, or a thread that is forking. *)
Accounted(p) ==
    /\ section[p] # "none" => script[p] # << >>
    /\ Forking(p) => section[p] \in {"none", "all", "allFrame"}
    /\ script[p] # << >> => \/ p \in readers
                            \/ p = Sampler /\ running # "exited"
                            \/ p = Finalizer /\ writer = Finalizer
                            \/ p \in Threads /\ script[p] = <<Stage("fork")>>
    /\ (section[p] = "none" /\ plan[p] # << >>) \/ holder[FdTransaction] = p
          => p \in readers

FinalizeOrder ==
    /\ finalize \in {"wrlock", "report", "done"} => running = "exited"
    /\ writer = Finalizer <=> finalize \in {"report", "done"}
    /\ writer = Finalizer => readers = {}
    /\ Finalizer \notin readers /\ Sampler \notin readers

(* Together: each process owns and awaits only what its place in the code
   allows, in ascending order, and finalization follows the sampler's exit. *)
LockInv ==
    /\ \A p \in Procs : PlanAscends(p) /\ SectionOwns(p) /\ Accounted(p)
    /\ FinalizeOrder

-------------------------------------------------------------------------------
(* Liveness *)

(* Finalization that has begun ends with the report written: neither the join
   nor the write lock waits for ever. *)
FinalizeEnds == finalize = "join" ~> finalize = "done"

InCall(p) == p \in readers \/ script[p] # << >>

(* A call that has begun returns: no mutex is left waiting for ever. *)
CallsEnd == \A p \in Procs : InCall(p) ~> ~InCall(p)

(* Everybody leaves: finalization ends and so does every call, though the threads
   never stop calling, where an awaited write lock keeps new readers out
   (PreferWriter, which the code asks for on Android). *)
EverybodyLeaves == FinalizeEnds /\ CallsEnd
===============================================================================
