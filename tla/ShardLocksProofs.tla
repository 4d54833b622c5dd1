--------------------------- MODULE ShardLocksProofs ----------------------------
(***************************************************************************)
(* Proofs about module ShardLocks, for any number of shards, any set of    *)
(* threads and any number of calls: the inductive invariant LockInv and    *)
(* the safety properties that follow from it.                              *)
(***************************************************************************)
EXTENDS ShardLocks, SequenceTheorems, WellFoundedInduction, TLAPS

(* Frame is the last mutex, and the shards are numbered between it and the
   descriptor transaction. *)
LEMMA MutexNumbers ==
    /\ NumShards \in Nat \ {0}
    /\ Frame \in Mutexes /\ Frame # FdTransaction /\ Frame \notin Shards
    /\ FdTransaction \in Mutexes
    /\ Shards \subseteq Mutexes /\ FdTransaction \notin Shards
    /\ \A m \in Mutexes : m \in Nat /\ m <= Frame
    /\ \A m \in Mutexes : m = FdTransaction \/ m \in Shards \/ m = Frame
  BY ShardsAssumption DEF Frame, Mutexes, FdTransaction, Shards

(* The orders LockAllShards and Remap lock in are ascending. *)
LEMMA LockAllShardsAscends ==
    /\ LockAllShards \in Seq(Mutexes)
    /\ Len(LockAllShards) = NumShards
    /\ \A i \in 1..NumShards : LockAllShards[i] = i
  <1>1. NumShards \in Nat
    BY ShardsAssumption, Zenon
  <1>2. LockAllShards \in [1..NumShards -> Mutexes]
    BY <1>1 DEF LockAllShards, Mutexes
  <1>3. LockAllShards \in Seq(Mutexes) /\ Len(LockAllShards) = NumShards
    BY <1>1, <1>2, SMT
  <1> QED
    BY <1>3, Zenon DEF LockAllShards

(* Remap takes its one or two shards in ascending order. *)
LEMMA RemapOrderAscends ==
    ASSUME NEW old \in Shards, NEW new \in Shards
    PROVE  /\ RemapOrder(old, new) \in Seq(Shards)
           /\ RemapOrder(old, new) \in Seq(Mutexes)
           /\ \A i, j \in 1..Len(RemapOrder(old, new)) :
                 i < j => RemapOrder(old, new)[i] < RemapOrder(old, new)[j]
           /\ \A i \in 1..Len(RemapOrder(old, new)) : RemapOrder(old, new)[i] \in Shards
  <1> old \in Nat /\ new \in Nat /\ old \in Mutexes /\ new \in Mutexes
    BY MutexNumbers, Zenon
  <1>1. CASE old = new
    BY <1>1 DEF RemapOrder
  <1>2. CASE old < new
    BY <1>2 DEF RemapOrder
  <1>3. CASE old # new /\ ~(old < new)
    BY <1>3 DEF RemapOrder
  <1> QED
    BY <1>1, <1>2, <1>3, Zenon

(* Every script is a sequence of stages. *)
LEMMA ScriptsTyped ==
    ASSUME NEW kind \in CallKinds \cup {"fork", "dump", "observe", "report"}
    PROVE  Scripts(kind) \subseteq Seq(Stages)
  <1>1. \A s \in {"frame", "shard", "pair", "snapshot", "walk", "fork"} :
            Stage(s) \in Stages /\ Maybe(s) \in Stages
    BY Zenon DEF Stage, Maybe, Stages
  <1> HIDE DEF Stages
  <1>2. AddStages \in Seq(Stages) /\ RemoveStages \in Seq(Stages)
    BY <1>1 DEF AddStages, RemoveStages
  <1>3. /\ <<Stage("shard")>> \in Seq(Stages) /\ <<Maybe("frame")>> \in Seq(Stages)
        /\ <<Stage("shard"), Stage("shard")>> \in Seq(Stages)
        /\ <<Stage("pair"), Maybe("snapshot"), Maybe("frame")>> \in Seq(Stages)
        /\ <<Stage("fork")>> \in Seq(Stages) /\ <<Stage("walk")>> \in Seq(Stages)
        /\ <<Stage("walk"), Maybe("snapshot")>> \in Seq(Stages)
        /\ <<Maybe("walk")>> \in Seq(Stages)
        /\ << >> \in Seq(Stages)
    BY <1>1
  <1>4. /\ <<Stage("shard")>> \o AddStages \o <<Maybe("frame")>> \in Seq(Stages)
        /\ RemoveStages \o AddStages \in Seq(Stages)
    BY <1>2, <1>3, ConcatProperties, Zenon
  <1> HIDE DEF Stage, Maybe, AddStages, RemoveStages
  <1> QED
    BY <1>2, <1>3, <1>4, Zenon DEF Scripts, CallKinds, FdKinds

-------------------------------------------------------------------------------
(* Type correctness *)

(* The initial state is well typed. *)
LEMMA TypeInit == Init => TypeOK
  <1> USE MutexNumbers
  <1> QED
    BY DEF Init, TypeOK, Procs, Sections

(* The disjuncts of Next, one name each. *)
LEMMA NextCases ==
    ASSUME Next
    PROVE  \/ \E p \in Threads, kind \in CallKinds : BeginCall(p, kind)
           \/ \E p \in Threads : BeginFork(p)
           \/ BeginCall(Dumper, "dump")
           \/ \E p \in Procs : Continue(p)
           \/ SamplerCrossing \/ SamplerExit \/ FinalizeStep
  BY KindsAssumption, Zenon DEF Next

(* Starting a call or a fork keeps the types. *)
LEMMA TypeCall ==
    ASSUME TypeOK, NEW p \in Procs,
           NEW kind \in CallKinds \cup {"fork", "dump", "observe", "report"},
           BeginCall(p, kind)
    PROVE  TypeOK'
  <1>1. script' \in [Procs -> Seq(Stages)]
    BY ScriptsTyped, Zenon DEF BeginCall, TypeOK
  <1>2. plan' \in [Procs -> Seq(Mutexes)]
    BY MutexNumbers DEF BeginCall, TypeOK
  <1>3. calls' \in Nat
    BY DEF BeginCall, CountCall, TypeOK
  <1> QED
    BY <1>1, <1>2, <1>3, Zenon DEF BeginCall, TypeOK

(* Every step inside a call keeps the types. *)
LEMMA TypeContinue ==
    ASSUME TypeOK, NEW p \in Procs, Continue(p)
    PROVE  TypeOK'
  <1>1. CASE StartSection(p)
    <2>1. section' \in [Procs -> Sections]
      BY <1>1, Zenon DEF StartSection, TypeOK, Sections
    <2>2. plan' \in [Procs -> Seq(Mutexes)]
      <3>1. CASE \E i, j \in Shards : plan' = [plan EXCEPT ![p] = RemapOrder(i, j)]
        BY <3>1, RemapOrderAscends DEF TypeOK
      <3>2. CASE plan' = [plan EXCEPT ![p] = LockAllShards]
        BY <3>2, LockAllShardsAscends, Zenon DEF TypeOK
      <3>3. CASE \E m \in Mutexes : plan' = [plan EXCEPT ![p] = <<m>>]
        BY <3>3 DEF TypeOK
      <3> QED
        BY <1>1, <3>1, <3>2, <3>3, MutexNumbers, Zenon DEF StartSection
    <2> QED
      BY <1>1, <2>1, <2>2, Zenon DEF StartSection, TypeOK
  <1>2. CASE SkipStage(p)
    BY <1>2 DEF SkipStage, TypeOK
  <1>3. CASE Acquire(p)
    BY <1>3 DEF Acquire, TypeOK
  <1>4. CASE TakeFrame(p)
    BY <1>4, MutexNumbers DEF TakeFrame, TypeOK, Sections
  <1>5. CASE LeaveSection(p)
    <2>1. holder' \in [Mutexes -> Procs \cup {NoProc}]
      BY <1>5, Zenon DEF LeaveSection, TypeOK
    <2>2. script' \in [Procs -> Seq(Stages)]
      <3>1. CASE script[p] = << >>
        BY <1>5, <3>1 DEF LeaveSection, TypeOK
      <3>2. CASE script[p] # << >>
        BY <1>5, <3>2 DEF LeaveSection, TypeOK
      <3> QED
        BY <3>1, <3>2, Zenon
    <2>3. child' \in SUBSET Mutexes /\ section' \in [Procs -> Sections]
      BY <1>5, Zenon DEF LeaveSection, TypeOK, Sections
    <2> QED
      BY <1>5, <2>1, <2>2, <2>3, Zenon DEF LeaveSection, TypeOK
  <1>6. CASE EndCall(p)
    BY <1>6, MutexNumbers, Zenon DEF EndCall, TypeOK
  <1> QED
    BY <1>1, <1>2, <1>3, <1>4, <1>5, <1>6, Zenon DEF Continue

(* Every step keeps the types. *)
LEMMA TypeNext == TypeOK /\ [Next]_vars => TypeOK'
  <1> SUFFICES ASSUME TypeOK, [Next]_vars PROVE TypeOK'
    BY Zenon
  <1> USE DEF Procs
  <1>1. CASE \E p \in Threads, kind \in CallKinds : BeginCall(p, kind)
    BY <1>1, TypeCall, Zenon
  <1>2. CASE \E p \in Threads : BeginFork(p)
    BY <1>2, ScriptsTyped DEF BeginFork, CountCall, TypeOK
  <1>3. CASE BeginCall(Dumper, "dump")
    BY <1>3, TypeCall, Zenon
  <1>4. CASE \E p \in Procs : Continue(p)
    BY <1>4, TypeContinue, Zenon
  <1>5. CASE SamplerCrossing
    BY <1>5, ScriptsTyped DEF SamplerCrossing, CountCall, TypeOK
  <1>6. CASE SamplerExit
    BY <1>6, Zenon DEF SamplerExit, TypeOK
  <1>7. CASE FinalizeStep
    BY <1>7, ScriptsTyped, Zenon
    DEF FinalizeStep, StopSampler, JoinSampler, BlockAllOperations, FinishReport, TypeOK
  <1>8. CASE UNCHANGED vars
    BY <1>8, Zenon DEF vars, TypeOK
  <1> QED
    BY <1>1, <1>2, <1>3, <1>4, <1>5, <1>6, <1>7, <1>8, NextCases, Zenon

(* Every reachable state of the lock protocol is well typed. *)
THEOREM TypeCorrect == Spec => []TypeOK
  BY TypeInit, TypeNext, PTL DEF Spec

-------------------------------------------------------------------------------
(* The lock invariant *)

(* Nothing is held or asked for at the start. *)
LEMMA LockInit == Init => LockInv
  <1> SUFFICES ASSUME Init PROVE LockInv
    BY Zenon
  <1> USE ProcsAssumption, MutexNumbers
  <1>1. /\ \A p \in Procs : plan[p] = << >> /\ script[p] = << >> /\ section[p] = "none"
        /\ \A m \in Mutexes, p \in Procs : holder[m] # p
    BY Zenon DEF Init
  <1>2. \A p \in Procs : PlanAscends(p) /\ SectionOwns(p) /\ Accounted(p)
    BY <1>1 DEF PlanAscends, SectionOwns, Plans, Accounted, Forking
  <1>3. FinalizeOrder
    BY Zenon DEF FinalizeOrder, Init, Procs
  <1> QED
    BY <1>2, <1>3, Zenon DEF LockInv

(* What q owns, awaits and runs is not touched by a step of another process. *)
Untouched(q) ==
    /\ \A m \in Mutexes : holder'[m] = q <=> holder[m] = q
    /\ plan'[q] = plan[q] /\ section'[q] = section[q] /\ script'[q] = script[q]

(* A step of p that leaves the others' locks and plans alone preserves what the
   invariant says of them. *)
LEMMA OthersKeep ==
    ASSUME NEW q \in Procs, Untouched(q), PlanAscends(q), SectionOwns(q), Accounted(q),
           q \in readers => q \in readers',
           running' = running, writer' = writer
    PROVE  PlanAscends(q)' /\ SectionOwns(q)' /\ Accounted(q)'
  <1> USE MutexNumbers DEF Untouched
  <1>1. PlanAscends(q)'
    BY Zenon DEF PlanAscends
  <1>2. SectionOwns(q)'
    BY DEF SectionOwns, Plans
  <1>3. Accounted(q)'
    BY Zenon DEF Accounted, Forking
  <1> QED
    BY <1>1, <1>2, <1>3, Zenon

(* A step of p that the others do not notice keeps LockInv if it keeps it for p. *)
LEMMA StepOf ==
    ASSUME LockInv, NEW p \in Procs,
           \A q \in Procs \ {p} : Untouched(q) /\ (q \in readers => q \in readers'),
           running' = running, writer' = writer,
           PlanAscends(p)', SectionOwns(p)', Accounted(p)', FinalizeOrder'
    PROVE  LockInv'
  BY OthersKeep, Zenon DEF LockInv

(* Entering an interposed call or a dump preserves the lock invariant. *)
LEMMA LockCall ==
    ASSUME TypeOK, LockInv, NEW p \in Threads \cup {Dumper},
           NEW kind \in CallKinds \cup {"dump"}, BeginCall(p, kind)
    PROVE  LockInv'
  <1>0. p \in Procs /\ p # Finalizer /\ p # Sampler
    BY ProcsAssumption, Zenon DEF Procs
  <1>1. PlanAscends(p) /\ SectionOwns(p) /\ Accounted(p) /\ FinalizeOrder
    BY <1>0, Zenon DEF LockInv
  <1>2. \A m \in Mutexes : holder[m] # p
    BY <1>1, MutexNumbers, Zenon DEF BeginCall, Resting, SectionOwns
  <1>3. /\ plan'[p] \in {<< >>, <<FdTransaction>>}
        /\ \A q \in Procs \ {p} : Untouched(q)
    BY <1>0, MutexNumbers, Zenon DEF BeginCall, TypeOK, Untouched
  <1>4. /\ UNCHANGED <<holder, section, writer, running, finalize>> /\ section[p] = "none"
        /\ readers' = readers \cup {p} /\ writer = NoProc
    BY Zenon DEF BeginCall, Resting, ReadLockGranted
  <1>5. PlanAscends(p)' /\ SectionOwns(p)'
    BY <1>2, <1>3, <1>4 DEF PlanAscends, SectionOwns, Plans
  <1>6. Accounted(p)'
    BY <1>4, Zenon DEF Accounted, Forking
  <1>7. FinalizeOrder'
    BY <1>0, <1>1, <1>4, ProcsAssumption, Zenon DEF FinalizeOrder, Procs
  <1> QED
    BY <1>0, <1>3, <1>4, <1>5, <1>6, <1>7, StepOf, Zenon

(* Entering fork() preserves the lock invariant. *)
LEMMA LockFork ==
    ASSUME TypeOK, LockInv, NEW p \in Threads, BeginFork(p)
    PROVE  LockInv'
  <1>0. p \in Procs
    BY Zenon DEF Procs
  <1>1. PlanAscends(p) /\ SectionOwns(p) /\ Accounted(p) /\ FinalizeOrder
    BY <1>0, Zenon DEF LockInv
  <1>2. /\ script'[p] = <<Stage("fork")>> /\ section[p] = "none" /\ plan[p] = << >>
        /\ UNCHANGED <<holder, readers, writer, section, plan, running, finalize>>
        /\ \A q \in Procs \ {p} : Untouched(q)
    BY <1>0, Zenon DEF BeginFork, Resting, Scripts, TypeOK, Untouched
  <1>3. PlanAscends(p)' /\ SectionOwns(p)'
    BY <1>1, <1>2, Zenon DEF PlanAscends, SectionOwns, Plans
  <1>4. Accounted(p)'
    BY <1>1, <1>2, Zenon DEF Accounted, Forking
  <1>5. FinalizeOrder'
    BY <1>1, <1>2, Zenon DEF FinalizeOrder
  <1> QED
    BY <1>0, <1>2, <1>3, <1>4, <1>5, StepOf, Zenon

(* Planning the next section preserves the lock invariant. *)
LEMMA LockStart ==
    ASSUME TypeOK, LockInv, NEW p \in Procs, StartSection(p)
    PROVE  LockInv'
  <1>1. PlanAscends(p) /\ SectionOwns(p) /\ Accounted(p) /\ FinalizeOrder
    BY Zenon DEF LockInv
  <1>2. /\ UNCHANGED <<holder, readers, writer, script, running, finalize>>
        /\ section[p] = "none" /\ script[p] # << >>
    BY Zenon DEF StartSection
  <1>3. /\ \A q \in Procs \ {p} : Untouched(q)
        /\ section'[p] # "none" /\ section'[p] # "allFrame"
        /\ Head(script[p]).section = "fork" => section'[p] = "all"
    BY Zenon DEF StartSection, TypeOK, Untouched
  <1>4. /\ plan'[p] \in Seq(Mutexes)
        /\ \A i, j \in 1..Len(plan'[p]) : i < j => plan'[p][i] < plan'[p][j]
        /\ \A i \in 1..Len(plan'[p]) : plan'[p][i] > FdTransaction
        /\ section'[p] = "all" => plan'[p] = LockAllShards
    <2>1. CASE plan'[p] = LockAllShards
      BY <2>1, LockAllShardsAscends, MutexNumbers DEF FdTransaction
    <2>2. CASE /\ section'[p] # "all"
               /\ \E i, j \in Shards : plan'[p] = RemapOrder(i, j)
      BY <2>2, RemapOrderAscends DEF Shards, FdTransaction
    <2>3. CASE /\ section'[p] # "all"
               /\ \E m \in Mutexes \ {FdTransaction} : plan'[p] = <<m>>
      BY <2>3 DEF Mutexes, FdTransaction
    <2> QED
      BY <2>1, <2>2, <2>3, MutexNumbers, Zenon DEF StartSection, TypeOK
  <1>5. \A m \in Mutexes : holder[m] = p => m = FdTransaction
    BY <1>1, <1>2, Zenon DEF SectionOwns
  <1>6. PlanAscends(p)'
    BY <1>2, <1>4, <1>5, Zenon DEF PlanAscends
  <1>7. SectionOwns(p)'
    <2>1. section'[p] = "all" =>
            /\ holder[Frame] # p /\ ~Plans(p, Frame)'
            /\ \A m \in Shards : Plans(p, m)'
      BY <1>4, <1>5, LockAllShardsAscends, MutexNumbers, Zenon DEF Shards, Frame, Plans
    <2>2. ~Plans(p, FdTransaction)'
      BY <1>4, MutexNumbers DEF Plans, FdTransaction
    <2> QED
      BY <1>2, <1>3, <2>1, <2>2, Zenon DEF SectionOwns
  <1>8. Accounted(p)'
    BY <1>1, <1>2, <1>3, Zenon DEF Accounted, Forking
  <1>9. FinalizeOrder'
    BY <1>1, <1>2, Zenon DEF FinalizeOrder
  <1> QED
    BY <1>2, <1>3, <1>6, <1>7, <1>8, <1>9, StepOf, Zenon

(* Skipping an optional section preserves the lock invariant. *)
LEMMA LockSkip ==
    ASSUME TypeOK, LockInv, NEW p \in Procs, SkipStage(p)
    PROVE  LockInv'
  <1>1. PlanAscends(p) /\ SectionOwns(p) /\ Accounted(p) /\ FinalizeOrder
    BY Zenon DEF LockInv
  <1>2. /\ UNCHANGED <<holder, readers, writer, section, plan, running, finalize>>
        /\ script'[p] = Tail(script[p]) /\ section[p] = "none" /\ plan[p] = << >>
        /\ script[p] # << >> /\ script[p] \in Seq(Stages)
        /\ \A q \in Procs \ {p} : Untouched(q)
    BY Zenon DEF SkipStage, TypeOK, Untouched
  <1>3. PlanAscends(p)' /\ SectionOwns(p)'
    BY <1>1, <1>2, Zenon DEF PlanAscends, SectionOwns, Plans
  <1>4. script[p] = <<Stage("fork")>> => Tail(script[p]) = << >>
    OBVIOUS
  <1>5. Accounted(p)'
    BY <1>1, <1>2, <1>4, Zenon DEF Accounted, Forking
  <1>6. FinalizeOrder'
    BY <1>1, <1>2, Zenon DEF FinalizeOrder
  <1> QED
    BY <1>2, <1>3, <1>5, <1>6, StepOf, Zenon

(* Locking the next mutex of a plan preserves the lock invariant. *)
LEMMA LockAcquire ==
    ASSUME TypeOK, LockInv, NEW p \in Procs, Acquire(p)
    PROVE  LockInv'
  <1> DEFINE h == Head(plan[p])
  <1>1. PlanAscends(p) /\ SectionOwns(p) /\ Accounted(p) /\ FinalizeOrder
    BY Zenon DEF LockInv
  <1>2. /\ UNCHANGED <<readers, writer, script, section, running, finalize>>
        /\ plan[p] \in Seq(Mutexes) /\ plan[p] # << >> /\ h \in Mutexes
        /\ h = plan[p][1] /\ 1 \in 1..Len(plan[p])
        /\ holder[h] = NoProc
        /\ holder'[h] = p /\ \A m \in Mutexes \ {h} : holder'[m] = holder[m]
        /\ plan'[p] = Tail(plan[p])
    BY DEF Acquire, TypeOK
  <1>3. \A q \in Procs \ {p} : Untouched(q)
    BY <1>2, ProcsAssumption DEF Acquire, TypeOK, Untouched
  <1>4. /\ Len(plan'[p]) = Len(plan[p]) - 1 /\ Len(plan[p]) \in Nat
        /\ \A i \in 1..Len(plan'[p]) : plan'[p][i] = plan[p][i+1] /\ i+1 \in 1..Len(plan[p])
    BY <1>2
  <1>5. \A i \in 1..Len(plan[p]) : i # 1 => /\ i-1 \in 1..Len(plan'[p])
                                           /\ plan'[p][i-1] = plan[p][i]
    BY <1>4
  <1> HIDE DEF h
  <1>6. PlanAscends(p)'
    <2>1. ASSUME NEW i \in 1..Len(plan'[p]), NEW j \in 1..Len(plan'[p]), i < j
          PROVE  plan'[p][i] < plan'[p][j]
      BY <1>1, <1>4, <2>1 DEF PlanAscends
    <2>2. ASSUME NEW m \in Mutexes, holder'[m] = p, NEW i \in 1..Len(plan'[p])
          PROVE  m < plan'[p][i]
      <3>1. CASE m = h
        BY <1>1, <1>2, <1>4, <3>1 DEF PlanAscends
      <3>2. CASE m # h
        BY <1>1, <1>2, <1>4, <2>2, <3>2, Zenon DEF PlanAscends
      <3> QED
        BY <3>1, <3>2, Zenon
    <2> QED
      BY <2>1, <2>2, Zenon DEF PlanAscends
  <1>7. Plans(p, h) /\ \A m \in Mutexes : /\ Plans(p, m)' => Plans(p, m)
                                          /\ Plans(p, m) => m = h \/ Plans(p, m)'
    <2>1. Plans(p, h)
      BY <1>2, Zenon DEF Plans
    <2>2. ASSUME NEW m \in Mutexes, Plans(p, m)' PROVE Plans(p, m)
      BY <1>4, <2>2, Zenon DEF Plans
    <2>3. ASSUME NEW m \in Mutexes, Plans(p, m), m # h PROVE Plans(p, m)'
      <3>1. PICK i \in 1..Len(plan[p]) : plan[p][i] = m
        BY <2>3, Zenon DEF Plans
      <3>2. i # 1
        BY <1>2, <2>3, <3>1, Zenon
      <3>3. i-1 \in 1..Len(plan'[p]) /\ plan'[p][i-1] = m
        BY <1>5, <3>1, <3>2, Zenon
      <3> QED
        BY <3>3, Zenon DEF Plans
    <2> QED
      BY <2>1, <2>2, <2>3, Zenon
  <1>8. SectionOwns(p)'
    BY <1>1, <1>2, <1>7, MutexNumbers, Zenon DEF SectionOwns
  <1>9. Accounted(p)'
    <2>1. section[p] = "none" => p \in readers
      BY <1>1, <1>2, Zenon DEF Accounted
    <2>2. holder'[FdTransaction] = p => p \in readers
      BY <1>1, <1>2, <1>7, <2>1, MutexNumbers, Zenon DEF Accounted, SectionOwns
    <2> QED
      BY <1>1, <1>2, <2>1, <2>2, Zenon DEF Accounted, Forking
  <1>10. FinalizeOrder'
    BY <1>1, <1>2, Zenon DEF FinalizeOrder
  <1> QED
    BY <1>2, <1>3, <1>6, <1>8, <1>9, <1>10, StepOf, Zenon

(* Going on to frame_mutex_ with every shard held preserves the lock invariant. *)
LEMMA LockTakeFrame ==
    ASSUME TypeOK, LockInv, NEW p \in Procs, TakeFrame(p)
    PROVE  LockInv'
  <1>1. PlanAscends(p) /\ SectionOwns(p) /\ Accounted(p) /\ FinalizeOrder
    BY Zenon DEF LockInv
  <1>2. /\ UNCHANGED <<holder, readers, writer, script, running, finalize>>
        /\ section[p] = "all" /\ section'[p] = "allFrame"
        /\ plan[p] = << >> /\ plan'[p] = <<Frame>>
        /\ \A q \in Procs \ {p} : Untouched(q)
    BY Zenon DEF TakeFrame, TypeOK, Untouched
  <1>3. \A m \in Mutexes : holder[m] = p => m < Frame
    BY <1>1, <1>2, MutexNumbers DEF SectionOwns, Frame
  <1>4. \A m \in Shards : holder[m] = p
    BY <1>1, <1>2 DEF SectionOwns, Plans
  <1>5. PlanAscends(p)'
    BY <1>2, <1>3 DEF PlanAscends
  <1>6. SectionOwns(p)'
    BY <1>2, <1>4, MutexNumbers DEF SectionOwns, Plans
  <1>7. Accounted(p)'
    BY <1>1, <1>2, Zenon DEF Accounted, Forking
  <1>8. FinalizeOrder'
    BY <1>1, <1>2, Zenon DEF FinalizeOrder
  <1> QED
    BY <1>2, <1>5, <1>6, <1>7, <1>8, StepOf, Zenon

(* Unlocking a section preserves the lock invariant. *)
LEMMA LockLeave ==
    ASSUME TypeOK, LockInv, NEW p \in Procs, LeaveSection(p)
    PROVE  LockInv'
  <1>1. PlanAscends(p) /\ SectionOwns(p) /\ Accounted(p) /\ FinalizeOrder
    BY Zenon DEF LockInv
  <1>2. /\ UNCHANGED <<readers, writer, plan, running, finalize>>
        /\ section[p] # "none" /\ section'[p] = "none" /\ plan[p] = << >>
        /\ script[p] \in Seq(Stages) /\ script'[p] = Tail(script[p])
        /\ \A m \in Mutexes : holder'[m] = IF m # FdTransaction /\ holder[m] = p
                                            THEN NoProc ELSE holder[m]
        /\ \A q \in Procs \ {p} : section'[q] = section[q] /\ script'[q] = script[q]
    BY Zenon DEF LeaveSection, TypeOK
  <1>3. \A q \in Procs \ {p} : Untouched(q)
    BY <1>2, ProcsAssumption, Zenon DEF Untouched
  <1>4. \A m \in Mutexes : holder'[m] = p => m = FdTransaction
    BY <1>2, ProcsAssumption, Zenon
  <1>5. PlanAscends(p)' /\ SectionOwns(p)'
    BY <1>2, <1>4 DEF PlanAscends, SectionOwns, Plans
  <1>6. Accounted(p)'
    <2>1. script[p] = <<Stage("fork")>> => Tail(script[p]) = << >>
      OBVIOUS
    <2> QED
      BY <1>1, <1>2, <2>1, MutexNumbers, Zenon DEF Accounted, Forking
  <1>7. FinalizeOrder'
    BY <1>1, <1>2, Zenon DEF FinalizeOrder
  <1> QED
    BY <1>2, <1>3, <1>5, <1>6, <1>7, StepOf, Zenon

(* Returning from a call preserves the lock invariant. *)
LEMMA LockEnd ==
    ASSUME TypeOK, LockInv, NEW p \in Procs, EndCall(p)
    PROVE  LockInv'
  <1>1. PlanAscends(p) /\ SectionOwns(p) /\ Accounted(p) /\ FinalizeOrder
    BY Zenon DEF LockInv
  <1>2. /\ UNCHANGED <<writer, script, section, plan, running, finalize>>
        /\ section[p] = "none" /\ plan[p] = << >> /\ script[p] = << >>
        /\ readers' = readers \ {p}
        /\ \A m \in Mutexes \ {FdTransaction} : holder'[m] = holder[m]
        /\ holder'[FdTransaction] = IF holder[FdTransaction] = p THEN NoProc
                                    ELSE holder[FdTransaction]
    BY MutexNumbers, Zenon DEF EndCall, TypeOK
  <1>3. \A q \in Procs \ {p} : Untouched(q)
    BY <1>2, ProcsAssumption DEF Untouched
  <1>4. \A m \in Mutexes : holder'[m] # p
    BY <1>1, <1>2, MutexNumbers, ProcsAssumption, Zenon DEF SectionOwns
  <1>5. PlanAscends(p)' /\ SectionOwns(p)'
    BY <1>2, <1>4 DEF PlanAscends, SectionOwns, Plans
  <1>6. Accounted(p)'
    BY <1>1, <1>2, <1>4, MutexNumbers, Zenon DEF Accounted, Forking
  <1>7. FinalizeOrder'
    BY <1>1, <1>2, Zenon DEF FinalizeOrder
  <1> QED
    BY <1>2, <1>3, <1>5, <1>6, <1>7, StepOf, Zenon

(* The steps of the sampler and of finalization own and await nothing. *)
LEMMA LockSampler ==
    ASSUME TypeOK, LockInv, SamplerCrossing \/ SamplerExit \/ StopSampler \/ JoinSampler
    PROVE  LockInv'
  <1>0. Sampler \in Procs /\ \A q \in Procs : PlanAscends(q) /\ SectionOwns(q) /\ Accounted(q)
    BY Zenon DEF LockInv, Procs
  <1>1. UNCHANGED <<holder, readers, writer, section, plan>>
    BY Zenon DEF SamplerCrossing, SamplerExit, StopSampler, JoinSampler
  <1>2. \A q \in Procs : PlanAscends(q)' /\ SectionOwns(q)'
    BY <1>0, <1>1 DEF PlanAscends, SectionOwns, Plans
  <1>3. ASSUME NEW q \in Procs PROVE Accounted(q)'
    <2>1. CASE SamplerCrossing
      <3>1. CASE q = Sampler
        <4>1. /\ script'[q] \in Scripts("observe") /\ running' = "yes" /\ plan[q] = << >>
              /\ section[q] = "none" /\ holder[FdTransaction] # q
          BY <1>0, <2>1, <3>1, Zenon DEF SamplerCrossing, Resting, TypeOK
        <4> QED
          BY <1>1, <3>1, <4>1, Zenon DEF Accounted
      <3>2. CASE q # Sampler
        BY <1>0, <1>1, <2>1, <3>2, Zenon DEF SamplerCrossing, Accounted, Forking, TypeOK
      <3> QED
        BY <3>1, <3>2, Zenon
    <2>2. CASE SamplerExit
      BY <1>0, <1>1, <2>2, Zenon DEF SamplerExit, Resting, Accounted, Forking
    <2>3. CASE StopSampler
      BY <1>0, <1>1, <2>3, Zenon DEF StopSampler, Accounted, Forking
    <2>4. CASE JoinSampler
      BY <1>0, <1>1, <2>4, Zenon DEF JoinSampler, Accounted, Forking
    <2> QED
      BY <2>1, <2>2, <2>3, <2>4, Zenon
  <1>4. FinalizeOrder'
    BY Zenon DEF LockInv, FinalizeOrder, SamplerCrossing, SamplerExit, StopSampler, JoinSampler
  <1> QED
    BY <1>2, <1>3, <1>4, Zenon DEF LockInv

(* The steps of debug_finalize preserve the lock invariant. *)
LEMMA LockFinalize ==
    ASSUME TypeOK, LockInv, BlockAllOperations \/ FinishReport
    PROVE  LockInv'
  <1>0. Finalizer \in Procs /\ \A q \in Procs : PlanAscends(q) /\ SectionOwns(q) /\ Accounted(q)
    BY Zenon DEF LockInv, Procs
  <1>1. UNCHANGED <<holder, readers, section, plan, running>>
    BY Zenon DEF BlockAllOperations, FinishReport
  <1>2. \A q \in Procs : PlanAscends(q)' /\ SectionOwns(q)'
    BY <1>0, <1>1 DEF PlanAscends, SectionOwns, Plans
  <1>3. ASSUME NEW q \in Procs PROVE Accounted(q)'
    <2>1. CASE BlockAllOperations
      <3>1. CASE q = Finalizer
        <4>1. script'[q] \in Scripts("report") /\ writer' = Finalizer /\ writer # Finalizer
          BY <1>0, <2>1, <3>1, Zenon DEF BlockAllOperations, TypeOK, LockInv, FinalizeOrder
        <4>2. script[q] = << >> /\ q \notin readers
          BY <1>0, <3>1, <4>1, ProcsAssumption, Zenon DEF Accounted, LockInv, FinalizeOrder
        <4>3. section[q] = "none" /\ plan[q] = << >> /\ holder[FdTransaction] # q
          BY <1>0, <4>2, Zenon DEF Accounted
        <4> QED
          BY <1>1, <3>1, <4>1, <4>3, Zenon DEF Accounted
      <3>2. CASE q # Finalizer
        BY <1>0, <1>1, <2>1, <3>2, Zenon DEF BlockAllOperations, Accounted, Forking, TypeOK
      <3> QED
        BY <3>1, <3>2, Zenon
    <2>2. CASE FinishReport
      BY <1>0, <1>1, <2>2, Zenon DEF FinishReport, Accounted, Forking
    <2> QED
      BY <2>1, <2>2, Zenon
  <1>4. FinalizeOrder'
    BY Zenon DEF LockInv, FinalizeOrder, BlockAllOperations, FinishReport
  <1> QED
    BY <1>2, <1>3, <1>4, Zenon DEF LockInv

(* Every step preserves the lock invariant. *)
LEMMA LockNext == TypeOK /\ LockInv /\ [Next]_vars => LockInv'
  <1> SUFFICES ASSUME TypeOK, LockInv, [Next]_vars PROVE LockInv'
    BY Zenon
  <1>1. CASE \E p \in Threads, kind \in CallKinds : BeginCall(p, kind)
    BY <1>1, LockCall, Zenon
  <1>2. CASE \E p \in Threads : BeginFork(p)
    BY <1>2, LockFork, Zenon
  <1>3. CASE BeginCall(Dumper, "dump")
    BY <1>3, LockCall, Zenon
  <1>4. CASE \E p \in Procs : Continue(p)
    BY <1>4, LockStart, LockSkip, LockAcquire, LockTakeFrame, LockLeave, LockEnd, Zenon DEF Continue
  <1>5. CASE SamplerCrossing \/ SamplerExit
    BY <1>5, LockSampler, Zenon
  <1>6. CASE FinalizeStep
    BY <1>6, LockSampler, LockFinalize, Zenon DEF FinalizeStep
  <1>7. CASE UNCHANGED vars
    BY <1>7 DEF vars, LockInv, PlanAscends, SectionOwns, Plans, Accounted, Forking,
                FinalizeOrder
  <1> QED
    BY <1>1, <1>2, <1>3, <1>4, <1>5, <1>6, <1>7, NextCases, Zenon

(* The lock invariant holds in every reachable state. *)
THEOREM LockInvariant == Spec => [](TypeOK /\ LockInv)
  BY TypeInit, TypeNext, LockInit, LockNext, PTL DEF Spec

-------------------------------------------------------------------------------
(* What the invariant gives *)

(* The lock invariant implies the documented lock order and, by the maximal
   mutex owned, that no wait is cyclic. *)
LEMMA InvGivesOrder ==
    ASSUME TypeOK, LockInv
    PROVE  LockOrder
  <1> SUFFICES ASSUME NEW p \in Procs, plan[p] # << >>, NEW m \in HeldBy(p)
               PROVE  m < Head(plan[p])
    BY Zenon DEF LockOrder
  <1>1. plan[p] \in Seq(Mutexes) /\ 1 \in 1..Len(plan[p]) /\ Head(plan[p]) = plan[p][1]
    BY DEF TypeOK
  <1> QED
    BY <1>1, Zenon DEF LockInv, PlanAscends, HeldBy

(* A nonempty set of mutexes has a greatest element. *)
LEMMA GreatestMutex ==
    ASSUME NEW S, S \subseteq Mutexes, S # {}
    PROVE  \E m \in S : \A n \in S : n <= m
  <1> DEFINE T == {Frame - m : m \in S}
  <1>1. Frame \in Nat /\ \A m \in S : m \in Nat /\ m <= Frame
    BY MutexNumbers, Zenon
  <1>2. T \subseteq Nat /\ T # {}
    BY <1>1
  <1>3. PICK x \in T : \A y \in T : ~(<<y, x>> \in OpToRel(<, Nat))
    BY <1>2, NatLessThanWellFounded, WFMin, Zenon
  <1>4. \A y \in T : ~(y < x)
    BY <1>2, <1>3, Zenon DEF OpToRel
  <1>5. PICK m \in S : x = Frame - m
    BY Zenon
  <1>6. ASSUME NEW n \in S PROVE n <= m
    <2>1. Frame - n \in T
      BY Zenon
    <2>2. ~(Frame - n < Frame - m)
      BY <1>4, <1>5, <2>1, Zenon
    <2> QED
      BY <1>1, <2>2
  <1> QED
    BY <1>6, Zenon

(* The process that waits for the greatest mutex waits for one whose owner, in
   turn, can only wait for a greater one: it waits for none. *)
LEMMA OrderGivesProgress ==
    ASSUME TypeOK, LockOrder
    PROVE  NoCyclicWait
  <1> SUFFICES ASSUME NEW p0 \in Procs, Busy(p0),
                      \A p \in Procs : Busy(p) => ~Ready(p)
               PROVE  FALSE
    BY Zenon DEF NoCyclicWait
  <1>1. \A p \in Procs : Busy(p) => /\ plan[p] # << >> /\ Head(plan[p]) \in Mutexes
                                   /\ holder[Head(plan[p])] \in Procs
    BY DEF Ready, TypeOK
  <1> DEFINE Waited == {Head(plan[p]) : p \in {q \in Procs : Busy(q)}}
  <1>a. Waited \subseteq Mutexes
    BY <1>1, Zenon
  <1>b. Head(plan[p0]) \in Waited
    BY Zenon
  <1>c. \E m \in Waited : \A n \in Waited : n <= m
    <2> HIDE DEF Waited
    <2> QED
      BY <1>a, <1>b, GreatestMutex, Zenon
  <1>2. PICK m \in Waited : \A n \in Waited : n <= m
    BY <1>c, Zenon
  <1>3. m \in Mutexes /\ holder[m] \in Procs
    BY <1>1, Zenon
  <1>4. Busy(holder[m]) /\ m \in HeldBy(holder[m])
    BY <1>3, Zenon DEF Busy, HeldBy
  <1>5. m < Head(plan[holder[m]]) /\ Head(plan[holder[m]]) \in Waited
    BY <1>1, <1>3, <1>4, Zenon DEF LockOrder
  <1>6. Head(plan[holder[m]]) \in Nat /\ m \in Nat
    BY <1>1, <1>3, <1>4, MutexNumbers, Zenon
  <1> HIDE DEF Waited
  <1> QED
    BY <1>2, <1>5, <1>6

(* Mutexes are waited for in the code's order only, and so no set of threads,
   dumps, samplers, forks and reports can wait for each other in a cycle. *)
THEOREM DeadlockFree == Spec => [](LockOrder /\ NoCyclicWait)
  BY LockInvariant, InvGivesOrder, OrderGivesProgress, PTL

(* The lock invariant implies that a finalizer that blocked all operations is
   alone with the tracker. *)
LEMMA InvGivesAlone ==
    ASSUME TypeOK, LockInv
    PROVE  FinalizerAlone
  <1> SUFFICES ASSUME writer = Finalizer, NEW m \in Mutexes,
                      holder[m] \notin {NoProc, Finalizer}
               PROVE  /\ holder[m] \in Threads
                      /\ Head(script[holder[m]]).section = "fork"
    BY Zenon DEF FinalizerAlone, LockInv, FinalizeOrder
  <1> DEFINE p == holder[m]
  <1>1. p \in Procs /\ p # Finalizer /\ SectionOwns(p) /\ Accounted(p) /\ p \notin readers
        /\ running = "exited"
    BY Zenon DEF TypeOK, LockInv, FinalizeOrder
  <1>2. m # FdTransaction
    BY <1>1, Zenon DEF Accounted
  <1>3. section[p] # "none"
    BY <1>1, <1>2, Zenon DEF SectionOwns
  <1>4. p \in Threads /\ script[p] = <<Stage("fork")>>
    BY <1>1, <1>3, Zenon DEF Accounted
  <1> QED
    BY <1>4 DEF Stage

(* Once finalization holds the write lock, nothing but its own report and a
   thread inside fork() owns a mutex. *)
THEOREM FinalizerIsAlone == Spec => []FinalizerAlone
  BY LockInvariant, InvGivesAlone, PTL

(* A fork copies no tracker mutex that another thread owns. *)
LEMMA ChildNext == TypeOK /\ LockInv /\ ChildUnlocked /\ [Next]_vars => ChildUnlocked'
  <1> SUFFICES ASSUME TypeOK, LockInv, ChildUnlocked, [Next]_vars PROVE ChildUnlocked'
    BY Zenon
  <1>1. CASE child' = child
    BY <1>1, Zenon DEF ChildUnlocked
  <1>2. ASSUME NEW p \in Procs, LeaveSection(p), child' # child
        PROVE  ChildUnlocked'
    <2>1. SectionOwns(p) /\ Accounted(p)
      BY Zenon DEF LockInv
    <2>2. Forking(p) /\ plan[p] = << >>
      BY <1>2, <2>1, Zenon DEF LeaveSection, Forking, Accounted
    <2>3. section[p] = "allFrame"
      BY <1>2, <2>1, <2>2, Zenon DEF LeaveSection, Forking, Accounted
    <2>4. \A m \in TrackerMutexes : holder[m] = p
      BY <2>1, <2>2, <2>3, MutexNumbers
      DEF SectionOwns, Plans, TrackerMutexes, Shards, Frame
    <2> QED
      BY <1>2, <2>4, Zenon DEF LeaveSection, ChildUnlocked
  <1>3. (\E p \in Procs : LeaveSection(p)) \/ child' = child
    BY NextCases, Zenon
    DEF vars, BeginCall, BeginFork, Continue, StartSection, SkipStage, Acquire,
        TakeFrame, EndCall, SamplerCrossing, SamplerExit, FinalizeStep, StopSampler,
        JoinSampler, BlockAllOperations, FinishReport
  <1> QED
    BY <1>1, <1>2, <1>3, Zenon

(* A fork copies the tracker's mutexes only when the forking thread owns them
   all, so the child that unlocks them can use every one. *)
THEOREM ChildIsUnlocked == Spec => []ChildUnlocked
  <1>1. Init => ChildUnlocked
    BY Zenon DEF Init, ChildUnlocked
  <1> QED
    BY <1>1, LockInvariant, ChildNext, PTL DEF Spec

===============================================================================
