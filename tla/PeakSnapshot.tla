----------------------------- MODULE PeakSnapshot ------------------------------
(***************************************************************************)
(* The retained peak snapshot (PointerData::MaybeRecordPeakSnapshot,       *)
(* TakePeakSnapshotLocked, RecordObservedPeak) and the /proc sampler that  *)
(* competes for it, over the interposed calls of module MallocDebug with   *)
(* RECORD_MEMORY_PEAK on.                                                  *)
(*                                                                         *)
(* Two criteria want to install a snapshot.  An allocating thread that     *)
(* raised peak_tot past the threshold tests it without a lock, claims the  *)
(* /proc read, and tests again under every shard; the sampler thread       *)
(* installs an observed snapshot and applies its /proc context in a second *)
(* critical section.  A section that holds every shard is one step: it     *)
(* waits until no thread is inside a shard.                                *)
(***************************************************************************)
EXTENDS MallocDebug, Functions

CONSTANTS
    FirstCrossing,   \* peak_retention() = FirstCrossing, else ChaseMax
    Floor,           \* backtrace_dump_peak_val()
    Step,            \* peak_record_step_bytes()
    MinPeakStep,     \* kMinPeakStepBytes
    SIZE_MAX,
    StepBudget,      \* kMaxStepSnapshotBytes, in list entries
    ProcReadable,    \* /proc/self/status can always be read
    MaxObserved      \* bound: observed crossings in a behaviour (0: no sampler)

ASSUME RetentionAssumption == FirstCrossing \in BOOLEAN /\ ProcReadable \in BOOLEAN
ASSUME ThresholdAssumption ==
    /\ Floor \in Nat /\ Step \in Nat /\ MinPeakStep \in Nat
    /\ SIZE_MAX \in Nat /\ StepBudget \in Nat /\ MaxObserved \in Nat

VARIABLES
    next_peak_record_threshold,
    peak_snapshot_final,
    peak_snapshot_source,      \* "None", "Tracked" or "Observed"
    peak_snapshot_generation,
    peak_proc_read_inflight,
    observed_peak_active,
    peak_list,                 \* the retained list and the totals beside it
    peak_proc,                 \* the generation whose /proc figures are shown
    step_snaps,                \* [rungs, bytes]: the climb-mode snapshots kept
    sampler,                   \* [at, generation, crossings]
    stalled                    \* ObservedPeakSampler::Stalled()

peakVars == <<next_peak_record_threshold, peak_snapshot_final, peak_snapshot_source,
              peak_snapshot_generation, peak_proc_read_inflight, observed_peak_active,
              peak_list, peak_proc, step_snaps, sampler, stalled>>
snapVars == <<peak_snapshot_source, peak_snapshot_generation, peak_list, peak_proc,
              step_snaps>>
allVars == <<vars, peakVars>>

(* The sampler thread: sampling, in the two sections of RecordObservedPeak, or
   sampling with its one report made ("fired"), and the generation of the
   snapshot its call retained (0: none). *)
Samplers == [at : {"sample", "walk", "apply", "fired"},
             generation : Nat, crossings : 0..MaxObserved]

EmptyList == [entries |-> {}, host |-> 0, dma |-> 0, tot |-> 0, live |-> 0]

(* The types of the snapshot's own state, and of the program counters. *)
SnapTypeOK ==
    /\ pc \in [Threads -> Labels]
    /\ peak_snapshot_final \in BOOLEAN
    /\ peak_snapshot_source \in {"None", "Tracked", "Observed"}
    /\ peak_snapshot_generation \in Nat
    /\ peak_proc_read_inflight \in BOOLEAN
    /\ observed_peak_active \in BOOLEAN
    /\ peak_proc \in Nat
    /\ sampler \in Samplers
    /\ stalled \in BOOLEAN

(* The type invariant of the composition. *)
PeakTypeOK == TypeOK /\ SnapTypeOK /\ next_peak_record_threshold \in Nat

PeakInit ==
    /\ Init
    /\ next_peak_record_threshold = Floor
    /\ peak_snapshot_final = FALSE
    /\ peak_snapshot_source = "None"
    /\ peak_snapshot_generation = 0
    /\ peak_proc_read_inflight = FALSE
    /\ observed_peak_active = FALSE
    /\ peak_list = EmptyList
    /\ peak_proc = 0
    /\ step_snaps = [rungs |-> 0, bytes |-> 0]
    /\ sampler = [at |-> "sample", generation |-> 0, crossings |-> 0]
    /\ stalled = FALSE

-------------------------------------------------------------------------------
(* Helpers *)

(* Slip: the live set is walked without the shards. *)
AllShardsIgnored == TRUE

AllShardsFree == \A s \in Shards : shardMutex[s] = NoThread

(* The observed criterion owns the snapshot and its sampler is delivering. *)
ObservedOwns == observed_peak_active /\ ~stalled

NextPeakThreshold(peak_bytes, step_bytes) ==
    LET quarter == peak_bytes \div 4
        capped == IF quarter > step_bytes THEN step_bytes ELSE quarter
    IN IF step_bytes = 0 THEN peak_bytes
       ELSE peak_bytes + (IF capped < MinPeakStep THEN MinPeakStep ELSE capped)

(* The live records that carry a stack. *)
Stacked == {k \in Keys : pointers[k] # NoRecord
                         /\ pointers[k].hash_index > kBacktraceEmptyIndex}

(* GetUniqueList: equal sizes of one stack share an entry that counts them; the code's
   entries, merged only between neighbours, are in LiveReport. *)
GetUniqueList ==
    {[size |-> pointers[k].size, hash_index |-> pointers[k].hash_index,
      num_allocations |-> Cardinality({j \in Stacked :
                              /\ pointers[j].size = pointers[k].size
                              /\ pointers[j].hash_index = pointers[k].hash_index})]
        : k \in Stacked}

(* The figures of a read that failed are not valid and replace nothing. *)
ShowContext(generation) ==
    \/ peak_proc' = generation
    \/ ~ProcReadable /\ UNCHANGED peak_proc

(* TakePeakSnapshotLocked, with every shard held and something to retain.  The
   caller says whose /proc context is shown from now on. *)
TakePeakSnapshotLocked(source) ==
    LET list == GetUniqueList
        size == Cardinality(list)
    IN
    /\ peak_snapshot_generation' = peak_snapshot_generation + 1
    /\ peak_list' = [entries |-> list, host |-> current.host, dma |-> current.dma,
                     tot |-> current.used,
                     live |-> Cardinality({k \in Keys : pointers[k] # NoRecord})]
    /\ peak_snapshot_source' = source
    /\ step_snaps' = IF ~FirstCrossing /\ step_snaps.bytes + size <= StepBudget
                     THEN [rungs |-> step_snaps.rungs + 1, bytes |-> step_snaps.bytes + size]
                     ELSE step_snaps

-------------------------------------------------------------------------------
(* MaybeRecordPeakSnapshot, from a thread whose Add or Remap raised peak_tot *)

SnapThreshold(t) ==
    /\ pc[t] = "snapshot"
    /\ Goto(t, IF call[t].total > next_peak_record_threshold THEN "snapActive"
               ELSE "dropDisplaced")
    /\ UNCHANGED <<trackerVars, call, mem, calls, peakVars>>

(* Slip: the allocation waits until the observed criterion lets go. *)
SnapActiveWaits(t) ==
    /\ pc[t] = "snapActive"
    /\ ~ObservedOwns
    /\ Goto(t, "snapClaim")
    /\ UNCHANGED <<trackerVars, call, mem, calls, peakVars>>

SnapActive(t) ==
    /\ pc[t] = "snapActive"
    /\ Goto(t, IF ObservedOwns THEN "dropDisplaced" ELSE "snapClaim")
    /\ UNCHANGED <<trackerVars, call, mem, calls, peakVars>>

(* Slip: a store where the exchange is. *)
SnapClaimStores(t) ==
    /\ pc[t] = "snapClaim"
    /\ peak_proc_read_inflight' = TRUE
    /\ Goto(t, "snapRecheck")
    /\ UNCHANGED <<trackerVars, call, mem, calls, next_peak_record_threshold,
                   peak_snapshot_final, observed_peak_active, snapVars, sampler, stalled>>

(* peak_proc_read_inflight_.exchange(true) *)
SnapClaim(t) ==
    /\ pc[t] = "snapClaim"
    /\ peak_proc_read_inflight' = TRUE
    /\ Goto(t, IF peak_proc_read_inflight THEN "dropDisplaced" ELSE "snapRecheck")
    /\ UNCHANGED <<trackerVars, call, mem, calls, next_peak_record_threshold,
                   peak_snapshot_final, observed_peak_active, snapVars, sampler, stalled>>

(* Slip: the early return does not release the claim. *)
SnapRecheckLeaks(t) ==
    /\ pc[t] = "snapRecheck"
    /\ Goto(t, IF ObservedOwns THEN "dropDisplaced" ELSE "snapLocked")
    /\ UNCHANGED <<trackerVars, call, mem, calls, peakVars>>

(* The sampler may have won meanwhile; otherwise /proc is read, lock-free. *)
SnapRecheck(t) ==
    /\ pc[t] = "snapRecheck"
    /\ Goto(t, IF ObservedOwns THEN "snapRelease" ELSE "snapLocked")
    /\ UNCHANGED <<trackerVars, call, mem, calls, peakVars>>

(* Slip: the lock-free tests are trusted, nothing is tested again. *)
SnapLockedUnchecked(t) ==
    /\ pc[t] = "snapLocked"
    /\ AllShardsFree
    /\ Goto(t, "snapRelease")
    /\ IF Stacked = {}
       THEN UNCHANGED <<snapVars, peak_snapshot_final, next_peak_record_threshold>>
       ELSE /\ TakePeakSnapshotLocked("Tracked")
            /\ peak_proc' = peak_snapshot_generation + 1
            /\ peak_snapshot_final' = FirstCrossing
            /\ next_peak_record_threshold' =
                  IF FirstCrossing THEN SIZE_MAX ELSE NextPeakThreshold(peak.used, Step)
    /\ UNCHANGED <<trackerVars, call, mem, calls, peak_proc_read_inflight,
                   observed_peak_active, sampler, stalled>>

(* What the allocation path does with every shard held: nothing if the other
   criterion or another contender was first. *)
SnapLocked(t) ==
    /\ pc[t] = "snapLocked"
    /\ AllShardsFree
    /\ Goto(t, "snapRelease")
    /\ IF ObservedOwns \/ peak_snapshot_final \/ peak.used <= next_peak_record_threshold
       THEN UNCHANGED <<snapVars, peak_snapshot_final, next_peak_record_threshold>>
       ELSE /\ IF Stacked = {}
               THEN UNCHANGED snapVars
               ELSE /\ TakePeakSnapshotLocked("Tracked")
                    /\ ShowContext(peak_snapshot_generation + 1)
            /\ IF FirstCrossing
               THEN IF Stacked = {}
                    THEN UNCHANGED <<peak_snapshot_final, next_peak_record_threshold>>
                    ELSE /\ peak_snapshot_final' = TRUE
                         /\ next_peak_record_threshold' = SIZE_MAX
               ELSE /\ next_peak_record_threshold' = NextPeakThreshold(peak.used, Step)
                    /\ UNCHANGED peak_snapshot_final
    /\ UNCHANGED <<trackerVars, call, mem, calls, peak_proc_read_inflight,
                   observed_peak_active, sampler, stalled>>

(* The claim is dropped after the shards are. *)
SnapRelease(t) ==
    /\ pc[t] = "snapRelease"
    /\ peak_proc_read_inflight' = FALSE
    /\ Goto(t, "dropDisplaced")
    /\ UNCHANGED <<trackerVars, call, mem, calls, next_peak_record_threshold,
                   peak_snapshot_final, observed_peak_active, snapVars, sampler, stalled>>

-------------------------------------------------------------------------------
(* The sampler thread *)

(* A sample is a new observed maximum past the sampler's own threshold:
   RecordObservedPeak starts its /proc reader. *)
SamplerCrossing ==
    /\ sampler.at = "sample" /\ sampler.crossings < MaxObserved
    /\ sampler' = [sampler EXCEPT !.at = "walk", !.crossings = @ + 1]
    /\ UNCHANGED <<vars, next_peak_record_threshold, peak_snapshot_final, snapVars,
                   peak_proc_read_inflight, observed_peak_active, stalled>>

(* With every shard held.  The latch is set before the walk is attempted, and
   the walk is not gated on peak_snapshot_final. *)
SamplerWalk ==
    /\ sampler.at = "walk"
    /\ AllShardsFree
    /\ observed_peak_active' = TRUE
    /\ IF Stacked = {}
       THEN /\ UNCHANGED snapVars
            /\ sampler' = [sampler EXCEPT !.at = "apply", !.generation = 0]
       ELSE /\ TakePeakSnapshotLocked("Observed")
            /\ UNCHANGED peak_proc
            /\ sampler' = [sampler EXCEPT !.at = "apply",
                                          !.generation = peak_snapshot_generation + 1]
    /\ IF Stacked # {} /\ FirstCrossing
       THEN /\ peak_snapshot_final' = TRUE
            /\ next_peak_record_threshold' = SIZE_MAX
       ELSE UNCHANGED <<peak_snapshot_final, next_peak_record_threshold>>
    /\ UNCHANGED <<vars, peak_proc_read_inflight, stalled>>

(* Slips: the one-shot sampler reports again, the context is never applied, or
   it is applied to a snapshot it was not read for. *)
SamplerApplyAs(at, proc) ==
    /\ sampler.at = "apply"
    /\ AllShardsFree
    /\ peak_proc' = proc
    /\ sampler' = [sampler EXCEPT !.at = at, !.generation = 0]
    /\ UNCHANGED <<vars, next_peak_record_threshold, peak_snapshot_final,
                   peak_snapshot_source, peak_snapshot_generation, peak_list, step_snaps,
                   peak_proc_read_inflight, observed_peak_active, stalled>>

SamplerApplyRearms ==
    SamplerApplyAs("sample", IF sampler.generation # 0 THEN sampler.generation ELSE peak_proc)

SamplerApplyDrops ==
    SamplerApplyAs(IF FirstCrossing /\ sampler.generation # 0 THEN "fired" ELSE "sample",
                   peak_proc)

SamplerApplyUnchecked ==
    SamplerApplyAs(IF FirstCrossing /\ sampler.generation # 0 THEN "fired" ELSE "sample",
                   IF sampler.generation # 0 THEN sampler.generation ELSE peak_proc)

(* The reader is joined and, if a snapshot was retained, its context applied
   under every shard unless a newer snapshot replaced it.  A one-shot sampler
   that retained a snapshot reports no further crossing. *)
SamplerApply ==
    /\ sampler.at = "apply"
    /\ sampler.generation # 0 => AllShardsFree
    /\ IF sampler.generation # 0 /\ sampler.generation = peak_snapshot_generation
       THEN ShowContext(sampler.generation) ELSE UNCHANGED peak_proc
    /\ sampler' = [sampler EXCEPT
                      !.at = IF FirstCrossing /\ sampler.generation # 0
                             THEN "fired" ELSE "sample",
                      !.generation = 0]
    /\ UNCHANGED <<vars, next_peak_record_threshold, peak_snapshot_final,
                   peak_snapshot_source, peak_snapshot_generation, peak_list, step_snaps,
                   peak_proc_read_inflight, observed_peak_active, stalled>>

(* The sampler stops delivering samples, or delivers one again. *)
StallChange ==
    /\ MaxObserved > 0
    /\ stalled' = ~stalled
    /\ UNCHANGED <<vars, next_peak_record_threshold, peak_snapshot_final, snapVars,
                   peak_proc_read_inflight, observed_peak_active, sampler>>

-------------------------------------------------------------------------------
SnapshotStep(t) ==
    \/ SnapThreshold(t) \/ SnapActive(t) \/ SnapClaim(t) \/ SnapRecheck(t)
    \/ SnapLocked(t) \/ SnapRelease(t)

SamplerStep == SamplerWalk \/ SamplerApply

PeakNext ==
    \/ \E t \in Threads : \/ (Entry(t) \/ HandlerStep(t)) /\ UNCHANGED peakVars
                          \/ SnapshotStep(t)
    \/ Environment /\ UNCHANGED peakVars
    \/ SamplerCrossing \/ SamplerStep \/ StallChange

PeakFairness ==
    /\ \A t \in Threads :
          WF_allVars((HandlerStep(t) /\ UNCHANGED peakVars) \/ SnapshotStep(t))
    /\ WF_allVars(SamplerStep)

PeakSpec == PeakInit /\ [][PeakNext]_allVars /\ PeakFairness

-------------------------------------------------------------------------------
(* Properties *)

ClaimLabels == {"snapRecheck", "snapLocked", "snapRelease"}
Claimers == {t \in Threads : pc[t] \in ClaimLabels}

(* The claim on the expensive /proc read is held by exactly the one thread
   between winning the exchange and releasing it: no two threads pay for the
   read, and the claim is released on every path out. *)
ClaimExclusive ==
    /\ peak_proc_read_inflight <=> Claimers # {}
    /\ \A t, u \in Claimers : t = u

(* A final snapshot pins the threshold out of reach, in first-crossing mode
   only: the hot path relies on it instead of reading the flag. *)
FinalPinsThreshold ==
    peak_snapshot_final => FirstCrossing /\ next_peak_record_threshold = SIZE_MAX

(* First-crossing retention walks the stacks at most twice: once for tracked
   bytes that reached the floor first, once for the observed crossing. *)
AtMostTwoWalks == FirstCrossing => peak_snapshot_generation <= 2

(* The totals kept beside the retained list describe the same instant as the
   list: they add up, and cover every entry (exactly, if every live record
   carried a stack). *)
SnapshotConsistent ==
    LET Bytes == SumFunction([e \in peak_list.entries |-> e.size * e.num_allocations])
        Count == SumFunction([e \in peak_list.entries |-> e.num_allocations])
    IN /\ peak_list.tot = peak_list.host + peak_list.dma
       /\ Bytes <= peak_list.tot
       /\ Count = peak_list.live => Bytes = peak_list.tot
       /\ peak_list.entries # {} <=> peak_snapshot_source # "None"

(* Outside RecordObservedPeak, and as long as /proc can be read, the context
   shown was read for the retained snapshot. *)
ProcContextCurrent ==
    ProcReadable /\ sampler.at # "apply" => peak_proc = peak_snapshot_generation

(* Whether or not /proc can be read, a context that comes to be shown was read
   for the snapshot retained at that moment: the sampler's slower read is
   discarded if the allocation path has replaced its snapshot meanwhile. *)
NoLateContext ==
    [][peak_proc' # peak_proc => peak_proc' = peak_snapshot_generation']_allVars

(* How retention proceeds in first-crossing mode: the first snapshot is final,
   a tracked one is the first, and a retained observed one ends the sampler's
   reports. *)
RetentionOrder ==
    FirstCrossing =>
        /\ peak_snapshot_generation = 0 <=> peak_snapshot_source = "None"
        /\ peak_snapshot_source # "None" => peak_snapshot_final
        /\ peak_snapshot_source = "Tracked" => peak_snapshot_generation = 1
        /\ peak_snapshot_source = "Observed" =>
              /\ peak_snapshot_generation \in {1, 2}
              /\ \/ sampler.at = "apply" /\ sampler.generation # 0
                 \/ sampler.at = "fired"

(* The context shown is the retained snapshot's, or the sampler is about to
   apply it, if /proc can be read. *)
ContextPending ==
    \/ ~ProcReadable
    \/ peak_proc = peak_snapshot_generation
    \/ /\ sampler.at = "apply" /\ sampler.generation # 0
       /\ sampler.generation = peak_snapshot_generation

SnapInv == ClaimExclusive /\ FinalPinsThreshold /\ RetentionOrder /\ ContextPending

(* A snapshot the allocation path installs never replaces a final one, and
   never an observed one whose sampler is alive. *)
TrackedNeverOverrides ==
    [][(peak_snapshot_generation' # peak_snapshot_generation
        /\ peak_snapshot_source' = "Tracked")
            => ~peak_snapshot_final /\ ~ObservedOwns]_allVars

(* In first-crossing mode an observed snapshot is the last one. *)
ObservedIsLast ==
    [][FirstCrossing /\ peak_snapshot_source = "Observed"
            => peak_snapshot_generation' = peak_snapshot_generation]_allVars

(* RecordObservedPeak carries an observed crossing through.  (That a thread leaves
   MaybeRecordPeakSnapshot is part of CallsReturn: there is no other way out.) *)
SnapshotsEnd == sampler.at \in {"walk", "apply"} ~> sampler.at \in {"sample", "fired"}

(* With no call in progress and no observed snapshot, the retained snapshot
   covers the peak: no peak past the threshold was left without a snapshot. *)
PeakSnapshotted ==
    (/\ \A t \in Threads : pc[t] = "idle"
     /\ ~observed_peak_active) => peak.used <= next_peak_record_threshold

(* An allocation that crosses the floor is turned away by the observed
   criterion only when that criterion retained a snapshot. *)
FallbackStaysOpen ==
    [][\A t \in Threads :
          (pc[t] = "snapActive" /\ pc'[t] = "dropDisplaced")
              => peak_snapshot_source # "None"]_allVars
===============================================================================
