-------------------------- MODULE PeakSnapshotProofs ---------------------------
(***************************************************************************)
(* Proofs about module PeakSnapshot, for any threads, addresses, shards,   *)
(* stacks, sizes, thresholds and number of observed crossings.             *)
(***************************************************************************)
EXTENDS PeakSnapshot, BooksProofs

(* A step of a handler outside MaybeRecordPeakSnapshot neither starts nor ends
   among the labels of the claim. *)
LEMMA EntryLabels ==
    ASSUME NEW t \in Threads, pc \in [Threads -> Labels], Entry(t)
    PROVE  /\ pc[t] \notin ClaimLabels
           /\ \E l \in Labels \ ClaimLabels : pc' = [pc EXCEPT ![t] = l]
  <1>1. pc[t] = "idle" /\ \E l \in {"add", "take", "remap"} : pc' = [pc EXCEPT ![t] = l]
    <2> USE DEF Allocate, Detach, Enter, Goto
    <2>1. CASE DebugMalloc(t) \/ DebugCalloc(t) \/ DebugMemalign(t) \/ DebugFree(t)
      BY <2>1, Zenon DEF DebugMalloc, DebugCalloc, DebugMemalign, DebugFree
    <2>2. CASE DebugRealloc(t)
      BY <2>2, Zenon DEF DebugRealloc
    <2>3. CASE DebugMmap(t) \/ DebugMunmap(t)
      BY <2>3, Zenon DEF DebugMmap, DebugMunmap
    <2>4. CASE DebugMremap(t)
      BY <2>4, Zenon DEF DebugMremap
    <2> QED
      BY <2>1, <2>2, <2>3, <2>4, Zenon DEF Entry
  <1> QED
    BY <1>1, Zenon DEF ClaimLabels, Labels

(* The steps inside Add, Remap, TakeEntry, RestoreEntry and the handlers
   themselves are outside the claim too. *)
LEMMA HandlerLabels ==
    ASSUME NEW t \in Threads, pc \in [Threads -> Labels], HandlerStep(t)
    PROVE  /\ pc[t] \notin ClaimLabels
           /\ \E l \in Labels \ ClaimLabels : pc' = [pc EXCEPT ![t] = l]
  <1> USE DEF Goto, ClaimLabels, Labels
  <1>1. CASE AddBacktrace(t) \/ AddLock(t) \/ AddUndoType(t) \/ AddUsed(t)
    BY <1>1, Zenon DEF AddBacktrace, AddLock, AddUndoType, AddUsed
  <1>2. CASE AddType(t) \/ AddPeak(t) \/ DropDisplaced(t)
    BY <1>2, Zenon DEF AddType, AddPeak, DropDisplaced
  <1>3. CASE TakeEntry(t) \/ TakeEntryType(t) \/ RestoreEntry(t) \/ RestoreEntryType(t)
    BY <1>3, Zenon DEF TakeEntry, TakeEntryType, RestoreEntry, RestoreEntryType
  <1>4. CASE RemapLock(t) \/ RemapUndoType(t) \/ RemapUsed(t)
    BY <1>4, Zenon DEF RemapLock, RemapUndoType, RemapUsed
  <1>5. CASE RemapType(t) \/ RemapPeak(t)
    BY <1>5, Zenon DEF RemapType, RemapPeak
  <1>6. CASE FreeBacktrace(t)
    BY <1>6, Zenon DEF FreeBacktrace
  <1>7. CASE SysFree(t) \/ SysRealloc(t) \/ SysMunmap(t) \/ SysFailed(t)
    BY <1>7, Zenon DEF SysFree, SysRealloc, SysMunmap, SysFailed
  <1>8. CASE ReleasePrevious(t) \/ Return(t)
    BY <1>8, Zenon DEF ReleasePrevious, Return
  <1> QED
    BY <1>1, <1>2, <1>3, <1>4, <1>5, <1>6, <1>7, <1>8, Zenon DEF HandlerStep, TrackerStep

-------------------------------------------------------------------------------
(* The step cases *)

(* A step of the handlers or of the environment, as the snapshot sees it: its
   own state is unchanged, and so is every claim. *)
HandlerView ==
    /\ UNCHANGED peakVars
    /\ \/ UNCHANGED pc
       \/ \E t \in Threads, l \in Labels \ ClaimLabels :
             pc[t] \notin ClaimLabels /\ pc' = [pc EXCEPT ![t] = l]

(* Every step is a handler step, a snapshot step or a sampler step. *)
LEMMA NextCases ==
    ASSUME pc \in [Threads -> Labels], [PeakNext]_allVars
    PROVE  \/ HandlerView
           \/ \E t \in Threads : SnapshotStep(t)
           \/ SamplerCrossing \/ SamplerStep \/ StallChange
  <1>1. ASSUME NEW t \in Threads, Entry(t) \/ HandlerStep(t), UNCHANGED peakVars
        PROVE  HandlerView
    BY <1>1, EntryLabels, HandlerLabels, Zenon DEF HandlerView
  <1>2. CASE Environment /\ UNCHANGED peakVars
    BY <1>2, Zenon DEF Environment, UntrackedAlloc, DirectRelease, HandlerView
  <1>3. CASE UNCHANGED allVars
    BY <1>3, Zenon DEF allVars, vars, HandlerView
  <1> QED
    BY <1>1, <1>2, <1>3, Zenon DEF PeakNext

(* The steps of MaybeRecordPeakSnapshot that leave the snapshot alone. *)
LEMMA SnapMoves ==
    ASSUME SnapTypeOK, NEW t \in Threads,
           SnapThreshold(t) \/ SnapActive(t) \/ SnapClaim(t) \/ SnapRecheck(t)
             \/ SnapRelease(t)
    PROVE  /\ UNCHANGED <<next_peak_record_threshold, peak_snapshot_final, snapVars,
                          observed_peak_active, sampler, stalled>>
           /\ \E l \in Labels : pc' = [pc EXCEPT ![t] = l]
           /\ peak_proc_read_inflight' \in BOOLEAN
  <1> USE DEF Goto, Labels
  <1>1. CASE SnapThreshold(t)
    BY <1>1, Zenon DEF SnapThreshold, peakVars, snapVars, SnapTypeOK
  <1>2. CASE SnapActive(t)
    BY <1>2, Zenon DEF SnapActive, peakVars, snapVars, SnapTypeOK
  <1>3. CASE SnapClaim(t)
    BY <1>3, Zenon DEF SnapClaim
  <1>4. CASE SnapRecheck(t)
    BY <1>4, Zenon DEF SnapRecheck, peakVars, snapVars, SnapTypeOK
  <1>5. CASE SnapRelease(t)
    BY <1>5, Zenon DEF SnapRelease
  <1> QED
    BY <1>1, <1>2, <1>3, <1>4, <1>5, Zenon

(* The snapshot state is well typed after Initialize. *)
LEMMA SnapTypeInit == PeakInit => SnapTypeOK
  <1> SUFFICES ASSUME PeakInit PROVE SnapTypeOK
    BY Zenon
  <1>1. pc \in [Threads -> Labels]
    BY Zenon DEF PeakInit, Init, Initialize, Labels
  <1>2. sampler \in Samplers
    BY ThresholdAssumption DEF PeakInit, Samplers
  <1> QED
    BY <1>1, <1>2, Zenon DEF PeakInit, SnapTypeOK

(* Every step keeps the snapshot state well typed. *)
LEMMA SnapTypeNext == SnapTypeOK /\ [PeakNext]_allVars => SnapTypeOK'
  <1> SUFFICES ASSUME SnapTypeOK, [PeakNext]_allVars PROVE SnapTypeOK'
    BY Zenon
  <1> USE ThresholdAssumption
  <1>1. CASE HandlerView
    BY <1>1, Zenon DEF HandlerView, peakVars, SnapTypeOK
  <1>2. ASSUME NEW t \in Threads, SnapshotStep(t) PROVE SnapTypeOK'
    <2>1. CASE SnapLocked(t)
      <3>1. /\ pc' \in [Threads -> Labels]
            /\ UNCHANGED <<peak_proc_read_inflight, observed_peak_active, sampler, stalled>>
        BY <2>1, Zenon DEF SnapLocked, Goto, Labels, SnapTypeOK
      <3>2. peak_snapshot_final' \in BOOLEAN
        BY <2>1, Zenon DEF SnapLocked, SnapTypeOK
      <3>3. /\ peak_snapshot_source' \in {"None", "Tracked", "Observed"}
            /\ peak_snapshot_generation' \in Nat /\ peak_proc' \in Nat
        BY <2>1 DEF SnapLocked, TakePeakSnapshotLocked, ShowContext, snapVars, SnapTypeOK
      <3> QED
        BY <3>1, <3>2, <3>3, Zenon DEF SnapTypeOK
    <2>2. CASE ~SnapLocked(t)
      <3> QED
        BY <1>2, <2>2, SnapMoves, Zenon DEF SnapshotStep, SnapTypeOK, snapVars
    <2> QED
      BY <2>1, <2>2, Zenon
  <1>3. CASE SamplerCrossing
    <2>1. sampler' \in Samplers
      <3>1. /\ sampler \in Samplers /\ sampler.crossings + 1 \in 0..MaxObserved
            /\ sampler' = [sampler EXCEPT !.at = "walk", !.crossings = sampler.crossings + 1]
        BY <1>3 DEF SamplerCrossing, SnapTypeOK, Samplers
      <3> QED
        BY <3>1, Zenon DEF Samplers
    <2> QED
      BY <1>3, <2>1, Zenon DEF SamplerCrossing, SnapTypeOK, snapVars, vars
  <1>4. CASE SamplerWalk
    <2>1. sampler' \in Samplers
      <3>1. \E g \in Nat : sampler' = [sampler EXCEPT !.at = "apply", !.generation = g]
        <4>1. peak_snapshot_generation + 1 \in Nat
          BY DEF SnapTypeOK
        <4> QED
          BY <1>4, <4>1, Zenon DEF SamplerWalk
      <3> QED
        BY <3>1, Zenon DEF SnapTypeOK, Samplers
    <2>2. /\ peak_snapshot_source' \in {"None", "Tracked", "Observed"}
          /\ peak_snapshot_generation' \in Nat /\ peak_proc' \in Nat
      BY <1>4 DEF SamplerWalk, TakePeakSnapshotLocked, snapVars, SnapTypeOK
    <2>3. peak_snapshot_final' \in BOOLEAN /\ observed_peak_active' \in BOOLEAN
      BY <1>4, Zenon DEF SamplerWalk, SnapTypeOK
    <2>4. UNCHANGED <<pc, peak_proc_read_inflight, stalled>>
      BY <1>4, Zenon DEF SamplerWalk, vars
    <2> QED
      BY <2>1, <2>2, <2>3, <2>4, Zenon DEF SnapTypeOK
  <1>5. CASE SamplerApply
    <2>1. sampler' \in Samplers
      BY <1>5, RetentionAssumption, Zenon DEF SamplerApply, SnapTypeOK, Samplers
    <2>2. peak_proc' \in Nat
      BY <1>5, Zenon DEF SamplerApply, ShowContext, SnapTypeOK, Samplers
    <2> QED
      BY <1>5, <2>1, <2>2, Zenon DEF SamplerApply, SnapTypeOK, vars
  <1>6. CASE StallChange
    BY <1>6, Zenon DEF StallChange, SnapTypeOK, snapVars, vars
  <1> QED
    BY <1>1, <1>2, <1>3, <1>4, <1>5, <1>6, NextCases, Zenon DEF SnapTypeOK, SamplerStep

(* The snapshot's state stays well typed. *)
THEOREM SnapTypeCorrect == PeakSpec => []SnapTypeOK
  BY SnapTypeInit, SnapTypeNext, PTL DEF PeakSpec

-------------------------------------------------------------------------------
(* The claim *)

(* Only winning the exchange enters the claim, and only the release leaves it. *)
LEMMA ClaimNext == SnapTypeOK /\ ClaimExclusive /\ [PeakNext]_allVars => ClaimExclusive'
  <1> SUFFICES ASSUME SnapTypeOK, ClaimExclusive, [PeakNext]_allVars PROVE ClaimExclusive'
    BY Zenon
  <1>1. CASE /\ peak_proc_read_inflight' = peak_proc_read_inflight
             /\ Claimers' = Claimers
    BY <1>1, Zenon DEF ClaimExclusive
  <1>2. CASE HandlerView
    BY <1>1, <1>2, Zenon DEF HandlerView, peakVars, Claimers, SnapTypeOK
  <1>3. ASSUME NEW t \in Threads, SnapshotStep(t) PROVE ClaimExclusive'
    <2> USE DEF Goto, ClaimLabels, Claimers
    <2>1. CASE SnapThreshold(t)
      BY <1>1, <2>1, Zenon DEF SnapThreshold, peakVars, SnapTypeOK
    <2>2. CASE SnapActive(t)
      BY <1>1, <2>2, Zenon DEF SnapActive, peakVars, SnapTypeOK
    <2>3. CASE SnapClaim(t) /\ peak_proc_read_inflight
      BY <1>1, <2>3, Zenon DEF SnapClaim, SnapTypeOK
    <2>4. CASE SnapClaim(t) /\ ~peak_proc_read_inflight
      <3>1. Claimers = {} /\ Claimers' = {t}
        BY <2>4, Zenon DEF SnapClaim, SnapTypeOK, ClaimExclusive
      <3> QED
        BY <2>4, <3>1, Zenon DEF SnapClaim, ClaimExclusive
    <2>5. CASE SnapRecheck(t)
      BY <1>1, <2>5, Zenon DEF SnapRecheck, peakVars, SnapTypeOK
    <2>6. CASE SnapLocked(t)
      BY <1>1, <2>6, Zenon DEF SnapLocked, SnapTypeOK
    <2>7. CASE SnapRelease(t)
      <3>1. Claimers = {t} /\ Claimers' = Claimers \ {t}
        BY <2>7, Zenon DEF SnapRelease, SnapTypeOK, ClaimExclusive
      <3> QED
        BY <2>7, <3>1, Zenon DEF SnapRelease, ClaimExclusive
    <2> QED
      BY <1>3, <2>1, <2>2, <2>3, <2>4, <2>5, <2>6, <2>7, Zenon DEF SnapshotStep
  <1>4. CASE SamplerCrossing \/ SamplerStep \/ StallChange
    BY <1>1, <1>4, Zenon
    DEF SamplerCrossing, SamplerStep, SamplerWalk, SamplerApply, StallChange, vars, Claimers
  <1> QED
    BY <1>2, <1>3, <1>4, NextCases, Zenon DEF SnapTypeOK

-------------------------------------------------------------------------------
(* Retention *)

(* What a step may do to the retained snapshot: nothing, install a tracked one,
   install an observed one, or move the sampler on. *)
LEMMA RetentionCases ==
    ASSUME SnapTypeOK, [PeakNext]_allVars
    PROVE  \/ UNCHANGED <<next_peak_record_threshold, peak_snapshot_final, peak_proc,
                          peak_snapshot_source, peak_snapshot_generation, sampler>>
           \/ \E t \in Threads : SnapLocked(t)
           \/ SamplerCrossing \/ SamplerWalk \/ SamplerApply
  <1>1. CASE HandlerView
    BY <1>1, Zenon DEF HandlerView, peakVars
  <1>2. ASSUME NEW t \in Threads, SnapshotStep(t), ~SnapLocked(t)
        PROVE  UNCHANGED <<next_peak_record_threshold, peak_snapshot_final, peak_proc,
                           peak_snapshot_source, peak_snapshot_generation, sampler>>
    BY <1>2, SnapMoves, Zenon DEF SnapshotStep, snapVars
  <1>3. CASE StallChange
    BY <1>3, Zenon DEF StallChange, snapVars
  <1> QED
    BY <1>1, <1>2, <1>3, NextCases, Zenon DEF SnapTypeOK, SamplerStep

(* Whoever marks the snapshot final pins the threshold in the same section. *)
LEMMA FinalNext ==
    SnapTypeOK /\ FinalPinsThreshold /\ [PeakNext]_allVars => FinalPinsThreshold'
  <1> SUFFICES ASSUME SnapTypeOK, FinalPinsThreshold, [PeakNext]_allVars
               PROVE  FinalPinsThreshold'
    BY Zenon
  <1>1. CASE \E t \in Threads : SnapLocked(t)
    BY <1>1, Zenon DEF SnapLocked, FinalPinsThreshold
  <1>2. CASE SamplerWalk
    BY <1>2, Zenon DEF SamplerWalk, FinalPinsThreshold
  <1>3. CASE UNCHANGED <<next_peak_record_threshold, peak_snapshot_final>>
    BY <1>3, Zenon DEF FinalPinsThreshold
  <1> QED
    BY <1>1, <1>2, <1>3, RetentionCases, Zenon DEF SamplerCrossing, SamplerApply

(* First-crossing retention proceeds in order: one tracked snapshot, then at
   most one observed one. *)
LEMMA OrderNext ==
    SnapTypeOK /\ RetentionOrder /\ [PeakNext]_allVars => RetentionOrder'
  <1> SUFFICES ASSUME SnapTypeOK, RetentionOrder, [PeakNext]_allVars, FirstCrossing
               PROVE  RetentionOrder'
    BY Zenon DEF RetentionOrder
  <1>1. ASSUME NEW t \in Threads, SnapLocked(t) PROVE RetentionOrder'
    BY <1>1 DEF SnapLocked, TakePeakSnapshotLocked, RetentionOrder, snapVars, SnapTypeOK
  <1>2. CASE SamplerCrossing
    BY <1>2, Zenon DEF SamplerCrossing, RetentionOrder, snapVars, SnapTypeOK, Samplers
  <1>3. CASE SamplerWalk
    <2>1. peak_snapshot_source # "Observed"
      BY <1>3, Zenon DEF SamplerWalk, RetentionOrder
    <2>2. CASE Stacked = {}
      BY <1>3, <2>1, <2>2, Zenon DEF SamplerWalk, RetentionOrder, snapVars, SnapTypeOK, Samplers
    <2>3. CASE Stacked # {}
      <3>1. /\ peak_snapshot_generation' = peak_snapshot_generation + 1
            /\ peak_snapshot_source' = "Observed" /\ peak_snapshot_final'
        BY <1>3, <2>3, Zenon DEF SamplerWalk, TakePeakSnapshotLocked
      <3>2. peak_snapshot_generation \in {0, 1}
        BY <2>1, Zenon DEF RetentionOrder, SnapTypeOK
      <3>3. sampler'.at = "apply" /\ sampler'.generation = peak_snapshot_generation + 1
        BY <1>3, <2>3, Zenon DEF SamplerWalk, SnapTypeOK, Samplers
      <3> QED
        BY <3>1, <3>2, <3>3 DEF RetentionOrder
    <2> QED
      BY <2>2, <2>3, Zenon
  <1>4. CASE SamplerApply
    BY <1>4, Zenon DEF SamplerApply, RetentionOrder, SnapTypeOK, Samplers
  <1>5. CASE UNCHANGED <<peak_snapshot_final, peak_snapshot_source,
                         peak_snapshot_generation, sampler>>
    BY <1>5, Zenon DEF RetentionOrder
  <1> QED
    BY <1>1, <1>2, <1>3, <1>4, <1>5, RetentionCases, Zenon

(* An installed snapshot has its context, or the sampler is about to apply it. *)
LEMMA ContextNext ==
    SnapTypeOK /\ ContextPending /\ [PeakNext]_allVars => ContextPending'
  <1> SUFFICES ASSUME SnapTypeOK, ContextPending, [PeakNext]_allVars
               PROVE  ContextPending'
    BY Zenon
  <1>1. ASSUME NEW t \in Threads, SnapLocked(t) PROVE ContextPending'
    BY <1>1, Zenon DEF SnapLocked, TakePeakSnapshotLocked, ShowContext, ContextPending, snapVars, SnapTypeOK
  <1>2. CASE SamplerCrossing
    BY <1>2, Zenon DEF SamplerCrossing, ContextPending, snapVars, SnapTypeOK, Samplers
  <1>3. CASE SamplerWalk
    <2>1. CASE Stacked = {}
      BY <1>3, <2>1, Zenon DEF SamplerWalk, ContextPending, snapVars
    <2>2. CASE Stacked # {}
      <3>1. peak_snapshot_generation' = peak_snapshot_generation + 1
        BY <1>3, <2>2, Zenon DEF SamplerWalk, TakePeakSnapshotLocked
      <3>2. sampler'.at = "apply" /\ sampler'.generation = peak_snapshot_generation + 1
        BY <1>3, <2>2, Zenon DEF SamplerWalk, SnapTypeOK, Samplers
      <3>3. peak_snapshot_generation + 1 # 0
        BY DEF SnapTypeOK
      <3> QED
        BY <3>1, <3>2, <3>3, Zenon DEF ContextPending
    <2> QED
      BY <2>1, <2>2, Zenon
  <1>4. CASE SamplerApply
    BY <1>4, Zenon DEF SamplerApply, ShowContext, ContextPending
  <1>5. CASE UNCHANGED <<peak_proc, peak_snapshot_generation, sampler>>
    BY <1>5, Zenon DEF ContextPending
  <1> QED
    BY <1>1, <1>2, <1>3, <1>4, <1>5, RetentionCases, Zenon

-------------------------------------------------------------------------------
(* What holds of every behaviour *)

(* Before the first crossing nothing is claimed, final or retained. *)
LEMMA SnapInit == PeakInit => SnapInv
  <1> SUFFICES ASSUME PeakInit PROVE SnapInv
    BY Zenon
  <1>1. ClaimExclusive
    BY Zenon DEF PeakInit, Init, Initialize, ClaimExclusive, Claimers, ClaimLabels
  <1>2. FinalPinsThreshold /\ RetentionOrder /\ ContextPending
    BY Zenon DEF PeakInit, FinalPinsThreshold, RetentionOrder, ContextPending
  <1> QED
    BY <1>1, <1>2, Zenon DEF SnapInv

(* The claim on the /proc read, the final flag and the order of retention are
   consistent in every reachable state. *)
THEOREM SnapInvariant == PeakSpec => [](SnapTypeOK /\ SnapInv)
  <1>1. SnapTypeOK /\ SnapInv /\ [PeakNext]_allVars => (SnapTypeOK /\ SnapInv)'
    BY SnapTypeNext, ClaimNext, FinalNext, OrderNext, ContextNext, Zenon DEF SnapInv
  <1> QED
    BY <1>1, SnapTypeInit, SnapInit, PTL DEF PeakSpec

(* At most one thread at a time reads /proc for the allocation path, and the
   claim is held exactly while one does. *)
THEOREM ClaimIsExclusive == PeakSpec => []ClaimExclusive
  <1>1. SnapInv => ClaimExclusive
    BY Zenon DEF SnapInv
  <1> QED
    BY <1>1, SnapInvariant, PTL

(* A final snapshot has put the hot path's threshold out of reach. *)
THEOREM FinalIsPinned == PeakSpec => []FinalPinsThreshold
  <1>1. SnapInv => FinalPinsThreshold
    BY Zenon DEF SnapInv
  <1> QED
    BY <1>1, SnapInvariant, PTL

(* First-crossing retention never walks the stacks a third time. *)
THEOREM TwoWalksSuffice == PeakSpec => []AtMostTwoWalks
  <1>1. SnapTypeOK /\ SnapInv => AtMostTwoWalks
    BY DEF SnapTypeOK, SnapInv, RetentionOrder, AtMostTwoWalks
  <1> QED
    BY <1>1, SnapInvariant, PTL

(* Outside RecordObservedPeak the /proc context shown is the retained
   snapshot's own. *)
THEOREM ContextIsCurrent == PeakSpec => []ProcContextCurrent
  <1>1. SnapInv => ProcContextCurrent
    BY Zenon DEF SnapInv, ContextPending, ProcContextCurrent
  <1> QED
    BY <1>1, SnapInvariant, PTL

(* A tracked snapshot replaces neither a final one nor one that a live sampler
   owns. *)
THEOREM TrackedDefers == PeakSpec => TrackedNeverOverrides
  <1>1. SnapTypeOK /\ [PeakNext]_allVars =>
          [(peak_snapshot_generation' # peak_snapshot_generation
            /\ peak_snapshot_source' = "Tracked")
                => ~peak_snapshot_final /\ ~ObservedOwns]_allVars
    <2> SUFFICES ASSUME SnapTypeOK, [PeakNext]_allVars,
                        peak_snapshot_generation' # peak_snapshot_generation,
                        peak_snapshot_source' = "Tracked"
                 PROVE  ~peak_snapshot_final /\ ~ObservedOwns
      BY Zenon
    <2>1. CASE \E t \in Threads : SnapLocked(t)
      BY <2>1, Zenon DEF SnapLocked, snapVars
    <2>2. ~SamplerWalk
      BY Zenon DEF SamplerWalk, TakePeakSnapshotLocked, snapVars
    <2> QED
      BY <2>1, <2>2, RetentionCases, Zenon DEF SamplerCrossing, SamplerApply, snapVars
  <1> QED
    BY <1>1, SnapTypeCorrect, PTL DEF PeakSpec, TrackedNeverOverrides

(* In first-crossing mode nothing replaces an observed snapshot. *)
THEOREM ObservedStays == PeakSpec => ObservedIsLast
  <1>1. SnapTypeOK /\ SnapInv /\ [PeakNext]_allVars =>
          [FirstCrossing /\ peak_snapshot_source = "Observed"
              => peak_snapshot_generation' = peak_snapshot_generation]_allVars
    <2> SUFFICES ASSUME SnapTypeOK, SnapInv, [PeakNext]_allVars,
                        FirstCrossing, peak_snapshot_source = "Observed"
                 PROVE  peak_snapshot_generation' = peak_snapshot_generation
      BY Zenon
    <2>1. peak_snapshot_final /\ sampler.at # "walk"
      BY Zenon DEF SnapInv, RetentionOrder
    <2>2. CASE \E t \in Threads : SnapLocked(t)
      BY <2>1, <2>2, Zenon DEF SnapLocked, snapVars
    <2> QED
      BY <2>1, <2>2, RetentionCases, Zenon DEF SamplerCrossing, SamplerWalk, SamplerApply, snapVars
  <1> QED
    BY <1>1, SnapInvariant, PTL DEF PeakSpec, ObservedIsLast

(* A /proc context comes to be shown only while the snapshot it was read for is
   the retained one. *)
THEOREM ContextNeverLate == PeakSpec => NoLateContext
  <1>1. SnapTypeOK /\ [PeakNext]_allVars =>
          [peak_proc' # peak_proc => peak_proc' = peak_snapshot_generation']_allVars
    <2> SUFFICES ASSUME SnapTypeOK, [PeakNext]_allVars, peak_proc' # peak_proc
                 PROVE  peak_proc' = peak_snapshot_generation'
      BY Zenon
    <2>1. ASSUME NEW t \in Threads, SnapLocked(t)
          PROVE  peak_proc' = peak_snapshot_generation'
      BY <2>1, Zenon DEF SnapLocked, TakePeakSnapshotLocked, ShowContext, snapVars
    <2>2. CASE SamplerApply
      BY <2>2, Zenon DEF SamplerApply, ShowContext
    <2>3. ~SamplerWalk /\ ~SamplerCrossing
      BY Zenon DEF SamplerWalk, SamplerCrossing, snapVars
    <2> QED
      BY <2>1, <2>2, <2>3, RetentionCases, Zenon
  <1> QED
    BY <1>1, SnapTypeCorrect, PTL DEF PeakSpec, NoLateContext

-------------------------------------------------------------------------------
(* The calls under the snapshot *)

(* Of a step of the whole system, the calls and the tracker see one of their own
   steps, a move inside MaybeRecordPeakSnapshot, or nothing. *)
LEMMA PeakIsAny == [PeakNext]_allVars => [AnyNext]_vars
  <1>1. ASSUME NEW t \in Threads, SnapshotStep(t) PROVE SnapshotMove(t)
    <2> USE DEF SnapshotMove, SnapLabels
    <2>1. CASE SnapThreshold(t)
      BY <2>1, Zenon DEF SnapThreshold
    <2>2. CASE SnapActive(t)
      BY <2>2, Zenon DEF SnapActive
    <2>3. CASE SnapClaim(t)
      BY <2>3, Zenon DEF SnapClaim
    <2>4. CASE SnapRecheck(t)
      BY <2>4, Zenon DEF SnapRecheck
    <2>5. CASE SnapLocked(t)
      BY <2>5, Zenon DEF SnapLocked
    <2>6. CASE SnapRelease(t)
      BY <2>6, Zenon DEF SnapRelease
    <2> QED
      BY <1>1, <2>1, <2>2, <2>3, <2>4, <2>5, <2>6, Zenon DEF SnapshotStep
  <1>2. SamplerCrossing \/ SamplerStep \/ StallChange => UNCHANGED vars
    BY Zenon DEF SamplerCrossing, SamplerStep, SamplerWalk, SamplerApply, StallChange
  <1>3. UNCHANGED allVars => UNCHANGED vars
    BY Zenon DEF allVars
  <1> QED
    BY <1>1, <1>2, <1>3, Zenon DEF PeakNext, AnyNext, AnyStep

(* The books are in order whatever the snapshot and the sampler do. *)
THEOREM PeakBooks == PeakSpec => []BookInv
  <1>1. PeakInit => Init
    BY Zenon DEF PeakInit
  <1> QED
    BY <1>1, BookInit, BookNext, PeakIsAny, PTL DEF PeakSpec

(* The counters and the stacks' references balance with the snapshot on. *)
THEOREM BooksBalanceUnderPeak == PeakSpec => []BooksBalance
  <1>1. BookInv => BooksBalance
    BY QuietCounters, ExactReferences, Zenon DEF BooksBalance
  <1> QED
    BY <1>1, PeakBooks, PTL

(* Where realloc and munmap do not fail, no peak is below its counter when every
   shard is free, with the snapshot on. *)
THEOREM PeaksCoverUnderPeak == "fail" \notin Features => (PeakSpec => []PeakCoversCurrent)
  <1> SUFFICES ASSUME "fail" \notin Features PROVE PeakSpec => []PeakCoversCurrent
    BY Zenon
  <1>1. BookInv => PeakCoversCurrent
    BY QuietPeaks, Zenon
  <1> QED
    BY <1>1, PeakBooks, PTL

(* Where mremap is not used, records and blocks correspond with the snapshot on. *)
THEOREM RecordsExactUnderPeak == "mremap" \notin Features => (PeakSpec => []RecordsExact)
  <1> SUFFICES ASSUME "mremap" \notin Features PROVE PeakSpec => []RecordsExact
    BY Zenon
  <1>1. PeakInit => BookInv /\ BlockInv
    BY BookInit, BlockInit, Zenon DEF PeakInit
  <1>2. (BookInv /\ BlockInv) /\ [AnyNext]_vars => (BookInv /\ BlockInv)'
    BY BlockBooks, Zenon
  <1>3. BookInv /\ BlockInv => RecordsExact
    BY BlocksExact, Zenon DEF BookInv
  <1> QED
    BY <1>1, <1>2, <1>3, PeakIsAny, PTL DEF PeakSpec

-------------------------------------------------------------------------------
(* Sums by groups *)

(* The weight of each group, once for each of its members; and the weight of
   each member's group. *)
Grouped(S, E, g, w) == [e \in E |-> w[e] * Cardinality({k \in S : g[k] = e})]
Weighed(D, S, g, w) == [k \in D |-> IF k \in S THEN w[g[k]] ELSE 0]

(* Summing a weight once for every member of every group is summing it over the
   members: what merging equal allocations into one entry relies on. *)
LEMMA SumGroups ==
    ASSUME NEW D, IsFiniteSet(D), NEW S \in SUBSET D, NEW E, IsFiniteSet(E),
           NEW g, \A k \in S : g[k] \in E, NEW w \in [E -> Nat]
    PROVE  SumFunction(Grouped(S, E, g, w)) = SumFunction(Weighed(D, S, g, w))
  <1> DEFINE In(T, e) == {k \in T : g[k] = e}
             F(T) == [e \in E |-> w[e] * Cardinality(In(T, e))]
             H(T) == [k \in D |-> IF k \in T THEN w[g[k]] ELSE 0]
             Bad == {T \in SUBSET S : SumFunction(F(T)) # SumFunction(H(T))}
  <1>1. SUFFICES ASSUME Bad # {} PROVE FALSE
    BY Zenon DEF Grouped, Weighed
  <1>2. IsFiniteSet(S)
    BY FS_Subset, Zenon
  <1>3. PICK s \in Bad : \A u \in Bad : u \subseteq s => u = s
    <2>1. Bad \in SUBSET SUBSET S
      BY Zenon
    <2> HIDE DEF Bad
    <2> QED
      BY <1>1, <1>2, <2>1, LeastSubset
  <1>4. s \in SUBSET S /\ SumFunction(F(s)) # SumFunction(H(s))
    BY <1>3, Zenon
  <1>5. ASSUME NEW T \in SUBSET S
        PROVE  /\ F(T) \in [E -> Int] /\ H(T) \in [D -> Int]
               /\ \A e : IsFiniteSet(In(T, e)) /\ Cardinality(In(T, e)) \in Nat
    <2>1. \A e : IsFiniteSet(In(T, e)) /\ Cardinality(In(T, e)) \in Nat
      <3>1. \A e : In(T, e) \subseteq S
        BY Zenon
      <3> HIDE DEF In
      <3> QED
        BY <1>2, <3>1, FS_Subset, FS_CardinalityType, Zenon
    <2> HIDE DEF In
    <2>2. F(T) \in [E -> Int]
      BY <2>1
    <2>3. H(T) \in [D -> Int]
      BY <1>5
    <2> QED
      BY <2>1, <2>2, <2>3, Zenon
  <1>6. s # {}
    <2>1. ASSUME s = {} PROVE \A e : Cardinality(In(s, e)) = 0
      <3>1. \A e : In(s, e) = {}
        BY <2>1, Zenon
      <3> HIDE DEF In
      <3> QED
        BY <3>1, FS_EmptySet, Zenon
    <2>2. ASSUME s = {} PROVE \A e \in E : F(s)[e] = 0
      <3> HIDE DEF In
      <3> QED
        BY <2>1, <2>2
    <2>3. ASSUME s = {} PROVE \A k \in D : H(s)[k] = 0
      BY <2>3, Zenon
    <2>4. F(s) \in [E -> Int] /\ H(s) \in [D -> Int]
      BY <1>4, <1>5, Zenon
    <2> HIDE DEF F, H
    <2>5. ASSUME s = {} PROVE SumFunction(F(s)) = 0
      BY <2>2, <2>4, <2>5, SumZero, Zenon
    <2>6. ASSUME s = {} PROVE SumFunction(H(s)) = 0
      BY <2>3, <2>4, <2>6, SumZero, Zenon
    <2> QED
      BY <1>4, <2>5, <2>6, Zenon
  <1>7. PICK x \in s : TRUE
    BY <1>6, Zenon
  <1> DEFINE r == s \ {x}
  <1>8. r \in SUBSET S /\ x \notin r /\ SumFunction(F(r)) = SumFunction(H(r))
    BY <1>3, <1>4, <1>7, Zenon
  <1>9. g[x] \in E /\ x \in D /\ w[g[x]] \in Nat
    BY <1>4, <1>7, Zenon
  <1>10. /\ \A e \in E \ {g[x]} : In(s, e) = In(r, e)
         /\ In(s, g[x]) = In(r, g[x]) \cup {x} /\ x \notin In(r, g[x])
    BY <1>7, Zenon
  <1>11. Cardinality(In(s, g[x])) = Cardinality(In(r, g[x])) + 1
    <2> HIDE DEF F, H, In, r
    <2>1. IsFiniteSet(In(r, g[x]))
      BY <1>5, <1>8, Zenon
    <2>2. PICK A : A = In(r, g[x])
      BY Zenon
    <2>3. IsFiniteSet(A) /\ x \notin A /\ In(s, g[x]) = A \cup {x}
      BY <1>10, <2>1, <2>2, Zenon
    <2>4. Cardinality(A \cup {x}) = Cardinality(A) + 1
      BY <2>3, FS_AddElement, Zenon
    <2> QED
      BY <2>2, <2>3, <2>4, Zenon
  <1>12. \A e \in E \ {g[x]} : F(r)[e] = F(s)[e]
    <2> HIDE DEF In, r
    <2> QED
      BY <1>10, Zenon
  <1>13. F(s)[g[x]] = F(r)[g[x]] + w[g[x]]
    <2>1. PICK n \in Nat : n = Cardinality(In(r, g[x]))
      <3> HIDE DEF F, H, In, r
      <3> QED
        BY <1>5, <1>8, Zenon
    <2>2. F(s)[g[x]] = w[g[x]] * (n + 1) /\ F(r)[g[x]] = w[g[x]] * n
      <3> HIDE DEF In, r
      <3> QED
        BY <1>9, <1>11, <2>1, Zenon
    <2>3. PICK v \in Nat : v = w[g[x]]
      BY <1>9, Zenon
    <2>4. v * (n + 1) = v * n + v
      OBVIOUS
    <2> HIDE DEF F, In, r
    <2> QED
      BY <2>2, <2>3, <2>4, Zenon
  <1>14. /\ \A k \in D \ {x} : H(r)[k] = H(s)[k]
         /\ H(r)[x] = 0 /\ H(s)[x] = w[g[x]]
    BY <1>7, <1>9, Zenon
  <1>15. /\ F(r) \in [E -> Int] /\ H(r) \in [D -> Int] /\ F(s) \in [E -> Int] /\ H(s) \in [D -> Int]
    BY <1>4, <1>5, <1>8, Zenon
  <1> HIDE DEF F, H, In, r
  <1>16. SumFunction(F(s)) = SumFunction(F(r)) - F(r)[g[x]] + F(s)[g[x]]
    BY <1>9, <1>12, <1>15, SumReplace
  <1>17. SumFunction(H(s)) = SumFunction(H(r)) - H(r)[x] + H(s)[x]
    BY <1>9, <1>14, <1>15, SumReplace
  <1>18. SumFunction(F(r)) \in Int /\ F(r)[g[x]] \in Int
    BY <1>9, <1>15, SumType, Zenon
  <1> QED
    BY <1>4, <1>8, <1>9, <1>13, <1>14, <1>16, <1>17, <1>18

(* A set's size is the sum of a one for each of its members. *)
LEMMA SumOnes ==
    ASSUME NEW D, IsFiniteSet(D), NEW S \in SUBSET D
    PROVE  SumFunction([k \in D |-> IF k \in S THEN 1 ELSE 0]) = Cardinality(S)
  <1> DEFINE E == {0}
             g == [k \in D |-> 0]
             w == [e \in E |-> 1]
             F == Grouped(S, E, g, w)
             H == Weighed(D, S, g, w)
             Z == [e \in E |-> 0]
  <1>1. IsFiniteSet(S) /\ Cardinality(S) \in Nat /\ IsFiniteSet(E)
    BY FS_Subset, FS_CardinalityType, FS_Singleton, Zenon
  <1>2. w \in [E -> Nat] /\ Z \in [E -> Int] /\ \A k \in S : g[k] \in E
    OBVIOUS
  <1>3. SumFunction(F) = SumFunction(H)
    <2> HIDE DEF E, g, w
    <2> QED
      BY <1>1, <1>2, SumGroups
  <1>4. {k \in S : g[k] = 0} = S
    BY Zenon
  <1>5. F = [e \in E |-> Cardinality(S)]
    <2>1. PICK n \in Nat : n = Cardinality(S)
      BY <1>1, Zenon
    <2>2. F = [e \in E |-> 1 * n]
      BY <1>4, <2>1, Zenon DEF Grouped
    <2>3. 1 * n = n
      OBVIOUS
    <2> HIDE DEF F, E
    <2> QED
      BY <2>1, <2>2, <2>3, Zenon
  <1>6. H = [k \in D |-> IF k \in S THEN 1 ELSE 0]
    BY Zenon DEF Weighed
  <1>7. /\ F \in [E -> Int] /\ F[0] = Cardinality(S) /\ 0 \in E
        /\ Z[0] = 0 /\ \A e \in E : Z[e] = 0
        /\ \A e \in E \ {0} : Z[e] = F[e]
    <2> HIDE DEF F
    <2> QED
      BY <1>1, <1>5
  <1> HIDE DEF F, Z, E
  <1>8. SumFunction(Z) = 0
    BY <1>1, <1>2, <1>7, SumZero, Zenon
  <1>9. SumFunction(F) = SumFunction(Z) - Z[0] + F[0]
    BY <1>1, <1>2, <1>7, SumReplace
  <1>10. SumFunction(F) = Cardinality(S)
    BY <1>1, <1>7, <1>8, <1>9
  <1> HIDE DEF H
  <1> QED
    BY <1>3, <1>6, <1>10, Zenon

(* Sums are monotonic. *)
LEMMA SumMonotonic ==
    ASSUME NEW D, IsFiniteSet(D), NEW f \in [D -> Int], NEW h \in [D -> Int],
           \A x \in D : f[x] <= h[x]
    PROVE  SumFunction(f) <= SumFunction(h)
  <1> DEFINE d == [x \in D |-> h[x] - f[x]]
  <1>1. /\ d \in [D -> Int] /\ \A x \in D : d[x] \in Nat
        /\ \A x \in D : h[x] = f[x] + d[x]
    OBVIOUS
  <1> HIDE DEF d
  <1>2. SumFunction(h) = SumFunction(f) + SumFunction(d)
    BY <1>1, SumAdd
  <1>3. SumFunction(d) \in Nat
    BY <1>1, SumNatural, Zenon
  <1>4. SumFunction(f) \in Int
    BY SumType, Zenon
  <1> QED
    BY <1>2, <1>3, <1>4

-------------------------------------------------------------------------------
(* The retained list *)

(* The allocations merged with the one at k, and the entry they share. *)
Merged(k) == {j \in Stacked : /\ pointers[j].size = pointers[k].size
                              /\ pointers[j].hash_index = pointers[k].hash_index}
Entries == [k \in Keys |-> [size |-> pointers[k].size, hash_index |-> pointers[k].hash_index,
                            num_allocations |-> Cardinality(Merged(k))]]

(* The bytes of the entries, and the allocations they stand for. *)
EntryBytes(list) == [e \in list |-> e.size * e.num_allocations]
EntryCount(list) == [e \in list |-> e.num_allocations]

StackBytes == [k \in Keys |-> IF k \in Stacked THEN pointers[k].size ELSE 0]
StackOnes == [k \in Keys |-> IF k \in Stacked THEN 1 ELSE 0]

(* The list is finite, and an entry counts the allocations that have it. *)
LEMMA ListEntries ==
    ASSUME TrackerOK
    PROVE  /\ GetUniqueList = {Entries[k] : k \in Stacked} /\ IsFiniteSet(GetUniqueList)
           /\ Stacked \in SUBSET Keys /\ IsFiniteSet(Stacked)
           /\ \A k \in Stacked : pointers[k].size \in Nat
           /\ \A e \in GetUniqueList : /\ e.size \in Nat /\ e.num_allocations \in Nat
                                       /\ e.num_allocations = Cardinality({k \in Stacked : Entries[k] = e})
  <1>1. Stacked \in SUBSET Keys /\ IsFiniteSet(Stacked)
    BY FiniteAssumption, FS_Subset, Zenon DEF Stacked
  <1>2. \A k \in Stacked : pointers[k].size \in Nat
    BY Zenon DEF Stacked, TrackerOK, Records
  <1>3. GetUniqueList = {Entries[k] : k \in Stacked}
    BY <1>1, Zenon DEF GetUniqueList, Entries, Merged
  <1>4. IsFiniteSet(GetUniqueList)
    <2> DEFINE f == [k \in Stacked |-> Entries[k]]
    <2>1. f \in Surjection(Stacked, GetUniqueList)
      BY <1>3, Zenon DEF Surjection
    <2> HIDE DEF f
    <2> QED
      BY <1>1, <2>1, FS_Surjection, Zenon
  <1>5. ASSUME NEW k \in Stacked
        PROVE  /\ Entries[k].size = pointers[k].size
               /\ Entries[k].num_allocations = Cardinality(Merged(k))
               /\ Entries[k].num_allocations \in Nat
               /\ {j \in Stacked : Entries[j] = Entries[k]} = Merged(k)
    <2>1. k \in Keys /\ \A j \in Stacked : j \in Keys
      BY <1>1, Zenon
    <2>2. /\ Entries[k].size = pointers[k].size
          /\ Entries[k].num_allocations = Cardinality(Merged(k))
          /\ \A j \in Stacked : /\ Entries[j].size = pointers[j].size
                                /\ Entries[j].hash_index = pointers[j].hash_index
          /\ Entries[k].hash_index = pointers[k].hash_index
      BY <2>1, Zenon DEF Entries
    <2>3. Cardinality(Merged(k)) \in Nat
      BY <1>1, FS_Subset, FS_CardinalityType, Zenon DEF Merged
    <2>4. ASSUME NEW j \in Merged(k) PROVE j \in Stacked /\ Entries[j] = Entries[k]
      <3>1. Merged(j) = Merged(k)
        BY <2>4, Zenon DEF Merged
      <3>2. j \in Stacked /\ pointers[j].size = pointers[k].size /\ pointers[j].hash_index = pointers[k].hash_index
        BY <2>4, Zenon DEF Merged
      <3> QED
        BY <2>1, <3>1, <3>2, Zenon DEF Entries
    <2>5. ASSUME NEW j \in Stacked, Entries[j] = Entries[k] PROVE j \in Merged(k)
      BY <2>2, <2>5, Zenon DEF Merged
    <2> QED
      BY <2>2, <2>3, <2>4, <2>5, Zenon
  <1>6. ASSUME NEW e \in GetUniqueList
        PROVE  /\ e.size \in Nat /\ e.num_allocations \in Nat
               /\ e.num_allocations = Cardinality({k \in Stacked : Entries[k] = e})
    <2>1. PICK k \in Stacked : e = Entries[k]
      BY <1>3, Zenon
    <2> QED
      BY <1>2, <1>5, <2>1, Zenon
  <1> QED
    BY <1>1, <1>2, <1>3, <1>4, <1>6, Zenon

(* Merging loses nothing: the entries' bytes and counts are those of the records
   that carry a stack. *)
LEMMA ListTotals ==
    ASSUME TrackerOK
    PROVE  /\ SumFunction(EntryBytes(GetUniqueList)) = SumFunction(StackBytes)
           /\ SumFunction(EntryCount(GetUniqueList)) = Cardinality(Stacked)
  <1> DEFINE E == GetUniqueList
             size == [e \in E |-> e.size]
             one == [e \in E |-> 1]
  <1>1. /\ IsFiniteSet(E) /\ Stacked \in SUBSET Keys /\ \A k \in Stacked : Entries[k] \in E
        /\ \A k \in Stacked : Entries[k].size = pointers[k].size
        /\ \A e \in E : /\ e.size \in Nat /\ e.num_allocations \in Nat
                        /\ e.num_allocations = Cardinality({k \in Stacked : Entries[k] = e})
    <2>1. \A k \in Keys : Entries[k].size = pointers[k].size
      BY Zenon DEF Entries
    <2> QED
      BY <2>1, ListEntries, Zenon
  <1>2. size \in [E -> Nat] /\ one \in [E -> Nat]
    <2>1. size \in [E -> Nat]
      BY <1>1, Zenon
    <2> HIDE DEF E
    <2>2. one \in [E -> Nat]
      OBVIOUS
    <2> QED
      BY <2>1, <2>2, Zenon
  <1>3. EntryBytes(E) = Grouped(Stacked, E, Entries, size)
    <2> HIDE DEF E
    <2> QED
      BY <1>1, Zenon DEF EntryBytes, Grouped
  <1>4. EntryCount(E) = Grouped(Stacked, E, Entries, one)
    <2> HIDE DEF E
    <2>1. ASSUME NEW n \in Nat PROVE n = 1 * n
      OBVIOUS
    <2>2. \A e \in E : e.num_allocations = one[e] * Cardinality({k \in Stacked : Entries[k] = e})
      BY <1>1, <2>1, Zenon
    <2> QED
      BY <2>2, Zenon DEF EntryCount, Grouped
  <1> HIDE DEF E
  <1>5. StackBytes = Weighed(Keys, Stacked, Entries, size)
    BY <1>1, Zenon DEF StackBytes, Weighed
  <1>6. StackOnes = Weighed(Keys, Stacked, Entries, one)
    BY <1>1, Zenon DEF StackOnes, Weighed
  <1> HIDE DEF size, one
  <1>7. SumFunction(EntryBytes(E)) = SumFunction(StackBytes)
    BY <1>1, <1>2, <1>3, <1>5, SumGroups, FiniteAssumption
  <1>8. SumFunction(EntryCount(E)) = SumFunction(StackOnes)
    BY <1>1, <1>2, <1>4, <1>6, SumGroups, FiniteAssumption
  <1>9. SumFunction(StackOnes) = Cardinality(Stacked)
    BY <1>1, SumOnes, FiniteAssumption, Zenon DEF StackOnes
  <1> QED
    BY <1>7, <1>8, <1>9, Zenon DEF E

(* With every shard free, what TakePeakSnapshotLocked retains is consistent:
   its totals are those of the records it lists. *)
LEMMA TakenConsistent ==
    ASSUME BookInv, AllShardsFree, Stacked # {}, NEW source \in {"Tracked", "Observed"},
           TakePeakSnapshotLocked(source)
    PROVE  SnapshotConsistent'
  <1> DEFINE Live == {k \in Keys : pointers[k] # NoRecord}
             Bytes(types) == [k \in Keys |-> IF pointers[k] # NoRecord /\ pointers[k].mem_type \in types
                                             THEN pointers[k].size ELSE 0]
             all == Bytes(MemTypes)
             host == Bytes({"HOST", "MMAP"})
             dma == Bytes({"DMA"})
  <1>1. TrackerOK
    BY Zenon DEF BookInv, CallInv, BaseOK
  <1>2. /\ current.used = SumFunction(all) /\ current.host = SumFunction(host)
        /\ current.dma = SumFunction(dma)
    BY QuietCounters, Zenon DEF CountersMatchTable, Quiet, AllShardsFree, BytesOf
  <1>3. /\ peak_list'.entries = GetUniqueList /\ peak_list'.tot = current.used
        /\ peak_list'.host = current.host /\ peak_list'.dma = current.dma
        /\ peak_list'.live = Cardinality(Live) /\ peak_snapshot_source' = source
    BY Zenon DEF TakePeakSnapshotLocked
  <1>4. \A k \in Keys : pointers[k] # NoRecord => pointers[k].size \in Nat /\ pointers[k].mem_type \in MemTypes
    BY <1>1, Zenon DEF TrackerOK, Records
  <1>5. /\ \A k \in Keys : pointers[k] = NoRecord => all[k] = 0 /\ host[k] = 0 /\ dma[k] = 0
        /\ \A k \in Live : all[k] = pointers[k].size
    BY <1>4, Zenon
  <1>6. \A k \in Live : \/ host[k] = pointers[k].size /\ dma[k] = 0
                        \/ host[k] = 0 /\ dma[k] = pointers[k].size
    BY <1>4, Zenon DEF MemTypes
  <1>7. DOMAIN all = Keys /\ DOMAIN host = Keys /\ DOMAIN dma = Keys
        /\ all = [k \in Keys |-> all[k]] /\ host = [k \in Keys |-> host[k]] /\ dma = [k \in Keys |-> dma[k]]
    BY Zenon
  <1> HIDE DEF all, host, dma
  <1>8. /\ all \in [Keys -> Int] /\ host \in [Keys -> Int] /\ dma \in [Keys -> Int]
        /\ \A k \in Keys : all[k] = host[k] + dma[k] /\ all[k] \in Nat
    <2>1. ASSUME NEW k \in Keys
          PROVE  /\ all[k] \in Nat /\ host[k] \in Nat /\ dma[k] \in Nat /\ all[k] = host[k] + dma[k]
      BY <1>4, <1>5, <1>6
    <2>2. \A k \in Keys : all[k] \in Int /\ host[k] \in Int /\ dma[k] \in Int
      BY <2>1
    <2> QED
      BY <1>7, <2>1, <2>2, Zenon
  <1>9. peak_list'.tot = peak_list'.host + peak_list'.dma
    BY <1>2, <1>3, <1>8, SumAdd, FiniteAssumption
  <1>10. /\ Stacked \subseteq Live /\ IsFiniteSet(Live)
         /\ StackBytes \in [Keys -> Int] /\ \A k \in Keys : StackBytes[k] <= all[k]
         /\ Stacked = Live => StackBytes = all
    <2>1. Stacked \subseteq Live
      BY Zenon DEF Stacked
    <2>2. Live \in SUBSET Keys
      BY Zenon
    <2>3. IsFiniteSet(Live)
      <3> HIDE DEF Live
      <3> QED
        BY <2>2, FiniteAssumption, FS_Subset, Zenon
    <2>4. \A k \in Keys : StackBytes[k] = (IF k \in Stacked THEN all[k] ELSE 0)
      BY <1>5, <2>1, Zenon DEF StackBytes
    <2>5. StackBytes = [k \in Keys |-> StackBytes[k]]
      BY Zenon DEF StackBytes
    <2>6. \A k \in Keys : StackBytes[k] \in Int /\ StackBytes[k] <= all[k]
      BY <1>8, <2>4
    <2>7. ASSUME Stacked = Live PROVE StackBytes = all
      <3>1. \A k \in Keys : StackBytes[k] = all[k]
        BY <1>5, <2>4, <2>7, Zenon
      <3> QED
        BY <1>7, <2>5, <3>1, Zenon
    <2>8. StackBytes \in [Keys -> Int]
      BY <2>5, <2>6, Zenon
    <2> QED
      BY <2>1, <2>3, <2>6, <2>7, <2>8, Zenon
  <1>11. SumFunction(StackBytes) <= SumFunction(all)
    BY <1>8, <1>10, SumMonotonic, FiniteAssumption
  <1>12. Cardinality(Stacked) = Cardinality(Live) => Stacked = Live
    <2> HIDE DEF Live
    <2> QED
      BY <1>10, FS_Subset
  <1>13. GetUniqueList # {}
    BY Zenon DEF GetUniqueList
  <1> DEFINE list == peak_list'.entries
  <1>14. /\ SumFunction(EntryBytes(list)) = SumFunction(StackBytes)
         /\ SumFunction(EntryCount(list)) = Cardinality(Stacked)
    BY <1>1, <1>3, ListTotals, Zenon
  <1>15. /\ SumFunction(EntryBytes(list)) <= peak_list'.tot
         /\ SumFunction(EntryCount(list)) = peak_list'.live => SumFunction(EntryBytes(list)) = peak_list'.tot
         /\ list # {} /\ peak_snapshot_source' # "None"
    <2> HIDE DEF Live
    <2> QED
      BY <1>2, <1>3, <1>10, <1>11, <1>12, <1>13, <1>14, Zenon
  <1> QED
    BY <1>9, <1>15, Zenon DEF SnapshotConsistent, EntryBytes, EntryCount

(* Before the first snapshot there is nothing to agree on. *)
LEMMA SnapshotInit == PeakInit => SnapshotConsistent
  <1> SUFFICES ASSUME PeakInit PROVE SnapshotConsistent
    BY Zenon
  <1>1. peak_list = EmptyList /\ peak_snapshot_source = "None"
    BY Zenon DEF PeakInit
  <1>2. /\ peak_list.entries = {} /\ peak_list.tot = 0 /\ peak_list.host = 0 /\ peak_list.dma = 0
    BY <1>1, Zenon DEF EmptyList
  <1>3. ASSUME NEW f \in [{} -> Int] PROVE SumFunction(f) = 0
    BY SumZero, FS_EmptySet
  <1>4. SumFunction(EntryBytes(peak_list.entries)) = 0 /\ SumFunction(EntryCount(peak_list.entries)) = 0
    <2>1. EntryBytes({}) \in [{} -> Int] /\ EntryCount({}) \in [{} -> Int]
      BY Zenon DEF EntryBytes, EntryCount
    <2> QED
      BY <1>2, <1>3, <2>1, Zenon
  <1>5. /\ peak_list.tot = peak_list.host + peak_list.dma
        /\ SumFunction(EntryBytes(peak_list.entries)) <= peak_list.tot
    BY <1>2, <1>4
  <1> QED
    BY <1>1, <1>2, <1>4, <1>5, Zenon DEF SnapshotConsistent, EntryBytes, EntryCount

(* A step that retains no list leaves the retained one alone. *)
LEMMA SnapshotNext == BookInv /\ SnapshotConsistent /\ [PeakNext]_allVars => SnapshotConsistent'
  <1> SUFFICES ASSUME BookInv, SnapshotConsistent, [PeakNext]_allVars PROVE SnapshotConsistent'
    BY Zenon
  <1>1. ASSUME UNCHANGED <<peak_list, peak_snapshot_source>> PROVE SnapshotConsistent'
    BY <1>1, Zenon DEF SnapshotConsistent
  <1>2. ASSUME UNCHANGED peakVars \/ UNCHANGED snapVars PROVE SnapshotConsistent'
    BY <1>1, <1>2, Zenon DEF peakVars, snapVars
  <1>3. ASSUME NEW t \in Threads, SnapshotStep(t) PROVE SnapshotConsistent'
    <2>1. CASE SnapLocked(t)
      BY <1>2, <2>1, TakenConsistent, Zenon DEF SnapLocked
    <2>2. CASE SnapClaim(t) \/ SnapRelease(t)
      BY <1>2, <2>2, Zenon DEF SnapClaim, SnapRelease
    <2>3. CASE SnapThreshold(t) \/ SnapActive(t) \/ SnapRecheck(t)
      BY <1>2, <2>3, Zenon DEF SnapThreshold, SnapActive, SnapRecheck
    <2> QED
      BY <1>3, <2>1, <2>2, <2>3, Zenon DEF SnapshotStep
  <1>4. CASE SamplerCrossing \/ StallChange
    BY <1>2, <1>4, Zenon DEF SamplerCrossing, StallChange
  <1>5. CASE SamplerApply
    BY <1>1, <1>5, Zenon DEF SamplerApply
  <1>6. CASE SamplerWalk
    BY <1>2, <1>6, TakenConsistent, Zenon DEF SamplerWalk
  <1>7. CASE UNCHANGED allVars
    BY <1>2, <1>7, Zenon DEF allVars
  <1> QED
    BY <1>2, <1>3, <1>4, <1>5, <1>6, <1>7, Zenon DEF PeakNext, SamplerStep

(* The retained list and the totals beside it describe one instant, in every
   reachable state: the walk holds every shard, when the counters are the sums of
   the records, and merging equal allocations loses neither bytes nor counts. *)
THEOREM SnapshotsAlwaysConsistent == PeakSpec => []SnapshotConsistent
  BY PeakBooks, SnapshotInit, SnapshotNext, PTL DEF PeakSpec

-------------------------------------------------------------------------------
(* The types of the composition *)

ThresholdOK == next_peak_record_threshold \in Nat

(* The threshold the allocation path sets is a natural. *)
LEMMA ThresholdNext == BookInv /\ ThresholdOK /\ [PeakNext]_allVars => ThresholdOK'
  <1> SUFFICES ASSUME BookInv, next_peak_record_threshold \in Nat, [PeakNext]_allVars
               PROVE  next_peak_record_threshold' \in Nat
    BY Zenon DEF ThresholdOK
  <1>1. ASSUME UNCHANGED next_peak_record_threshold PROVE next_peak_record_threshold' \in Nat
    BY <1>1, Zenon
  <1>2. SIZE_MAX \in Nat /\ NextPeakThreshold(peak.used, Step) \in Nat
    <2>1. PICK n \in Nat : n = peak.used
      BY Zenon DEF BookInv, Naturals, CountersOK
    <2>2. NextPeakThreshold(n, Step) \in Nat
      BY ThresholdAssumption DEF NextPeakThreshold
    <2> QED
      BY <2>1, <2>2, ThresholdAssumption, Zenon
  <1>3. ASSUME NEW t \in Threads, SnapshotStep(t) PROVE next_peak_record_threshold' \in Nat
    <2>1. CASE SnapLocked(t)
      BY <1>1, <1>2, <2>1, Zenon DEF SnapLocked
    <2>2. CASE SnapClaim(t) \/ SnapRelease(t)
      BY <1>1, <2>2, Zenon DEF SnapClaim, SnapRelease
    <2>3. CASE SnapThreshold(t) \/ SnapActive(t) \/ SnapRecheck(t)
      BY <1>1, <2>3, Zenon DEF SnapThreshold, SnapActive, SnapRecheck, peakVars
    <2> QED
      BY <1>3, <2>1, <2>2, <2>3, Zenon DEF SnapshotStep
  <1>4. CASE SamplerCrossing \/ StallChange \/ SamplerApply
    BY <1>1, <1>4, Zenon DEF SamplerCrossing, StallChange, SamplerApply
  <1>5. CASE SamplerWalk
    BY <1>1, <1>2, <1>5, Zenon DEF SamplerWalk
  <1>6. UNCHANGED allVars \/ UNCHANGED peakVars => UNCHANGED next_peak_record_threshold
    BY Zenon DEF allVars, peakVars
  <1> QED
    BY <1>1, <1>3, <1>4, <1>5, <1>6, Zenon DEF PeakNext, SamplerStep

(* Every variable of the calls, the snapshot and the sampler keeps its type. *)
THEOREM PeakTypesAlwaysOK == PeakSpec => []PeakTypeOK
  <1>1. PeakInit => ThresholdOK
    BY ThresholdAssumption, Zenon DEF PeakInit, ThresholdOK
  <1>2. BookInv /\ SnapTypeOK /\ ThresholdOK => PeakTypeOK
    BY BookTypes, Zenon DEF PeakTypeOK, ThresholdOK
  <1> QED
    BY <1>1, <1>2, PeakBooks, SnapTypeCorrect, ThresholdNext, PTL DEF PeakSpec
===============================================================================
