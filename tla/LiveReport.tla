------------------------------- MODULE LiveReport ------------------------------
(***************************************************************************)
(* What a report says of the tracker (PointerData.cpp: GetList,            *)
(* GetUniqueList, DumpLiveToFile, DumpStepReports; malloc_debug.cpp:       *)
(* debug_finalize).  Every figure a report prints is kept with the instant *)
(* it was measured at; wording and units are left out.                     *)
(*                                                                         *)
(* A live allocation is [pointer, size, type, stack, depth, time], with    *)
(* stack 0 where none was captured and depth the frames of the stack.      *)
(***************************************************************************)
EXTENDS Integers, Sequences, FiniteSets, SequencesExt, FiniteSetsExt

CONSTANTS
    StepFileUnit,   \* bytes that the number in the name of a step report counts: 2^20
    StepListBudget  \* kMaxStepSnapshotBytes, in entries

NoStack == 0
BytesOf(live, type) == MapThenSumSet(LAMBDA e : e.size, {e \in live : e.type = type})
Used(live) == MapThenSumSet(LAMBDA e : e.size, live)
WithStack(live) == {e \in live : e.stack # NoStack}

(* A tracker: the live set, the retained snapshot, the rungs of climb mode, the
   exact maximum and what the sampler has seen. *)
NoPeak == [list |-> << >>, host |-> 0, dma |-> 0, tot |-> 0, source |-> "none", observed |-> 0, time |-> 0,
           rss |-> 0, mappings |-> 0, pointers |-> 0]
NewTracker(chase) ==
    [live |-> {}, now |-> 0, peak_tot |-> 0, peak |-> NoPeak, chase |-> chase, steps |-> << >>, samples |-> 0, sampled |-> 0]

--------------------------------------------------------------------------------
(* Sorted by size, depth of the stack and address. *)
LargerFirst(a, b) ==
    IF a.size # b.size THEN a.size > b.size
    ELSE IF (a.stack = NoStack) # (b.stack = NoStack) THEN b.stack = NoStack
    ELSE IF a.stack # NoStack /\ a.depth # b.depth THEN a.depth > b.depth
    ELSE a.pointer < b.pointer
OlderFirst(a, b) == a.time < b.time
GetList(live, by_time) ==
    SetToSortSeq(WithStack(live), LAMBDA a, b : IF by_time THEN OlderFirst(a, b) ELSE LargerFirst(a, b))

ListEntry(e) == [stack |-> e.stack, size |-> e.size, num_allocations |-> 1]

(* Slip: an entry is merged with the one before whatever its stack. *)
UniqueListBySize(live) ==
    LET sorted == GetList(live, FALSE)
        Merge(list, e) ==
            IF list # << >> /\ Last(list).size = e.size
            THEN [list EXCEPT ![Len(list)].num_allocations = @ + 1]
            ELSE Append(list, ListEntry(e))
    IN FoldLeft(Merge, << >>, sorted)

(* Neighbours of one size and one stack are one entry. *)
UniqueList(live) ==
    LET sorted == GetList(live, FALSE)
        Merge(list, e) ==
            IF list # << >> /\ Last(list).size = e.size /\ Last(list).stack = e.stack
            THEN [list EXCEPT ![Len(list)].num_allocations = @ + 1]
            ELSE Append(list, ListEntry(e))
    IN FoldLeft(Merge, << >>, sorted)

(* TakePeakSnapshotLocked: figures of /proc that could not be read stay as they were. *)
Retain(r, source, observed, readable) ==
    LET list == UniqueList(r.live)
        kept == FoldLeft(LAMBDA n, s : n + Len(s.list), 0, r.steps)
        totals == [host |-> BytesOf(r.live, "host"), dma |-> BytesOf(r.live, "dma"), tot |-> Used(r.live)]
        peak == [list |-> list, host |-> totals.host, dma |-> totals.dma, tot |-> totals.tot, source |-> source,
                 observed |-> observed, time |-> r.now, rss |-> IF readable THEN r.now ELSE r.peak.rss,
                 mappings |-> IF readable THEN r.now ELSE r.peak.mappings, pointers |-> Cardinality(r.live)]
    IN IF list = << >> THEN r
       ELSE [r EXCEPT !.peak = peak,
                      !.steps = IF r.chase /\ kept + Len(list) <= StepListBudget
                                THEN Append(@, [list |-> list, host |-> totals.host, dma |-> totals.dma, tot |-> totals.tot])
                                ELSE @]

--------------------------------------------------------------------------------
(* The parts of a report. *)
Omitted(live) == [count |-> Cardinality(live \ WithStack(live)), bytes |-> Used(live) - Used(WithStack(live))]
NothingOmitted == [count |-> 0, bytes |-> 0]

(* The retained snapshot, or the live list where there is none. *)
ListedPart(r, dumping_peak) ==
    IF dumping_peak
    THEN [list |-> r.peak.list, host |-> r.peak.host, dma |-> r.peak.dma, omitted |-> NothingOmitted]
    ELSE [list |-> [i \in 1..Cardinality(WithStack(r.live)) |-> ListEntry(GetList(r.live, TRUE)[i])],
          host |-> BytesOf(r.live, "host"), dma |-> BytesOf(r.live, "dma"), omitted |-> Omitted(r.live)]

(* How much higher the maximum is than what the snapshot shows. *)
Lag(r, dumping_peak) ==
    LET max == IF r.peak.source = "observed" THEN r.sampled ELSE r.peak_tot
        shown == IF r.peak.source = "observed" THEN r.peak.observed ELSE r.peak.tot
    IN IF (r.peak.source = "observed" \/ dumping_peak) /\ max > shown THEN max - shown ELSE 0
PeakLines(r, dumping_peak) ==
    [process_peak |-> r.peak_tot, snapshot_total |-> r.peak.tot, none |-> ~dumping_peak, criterion |-> r.peak.source,
     lag |-> Lag(r, dumping_peak), sampled |-> IF r.samples > 0 THEN r.sampled ELSE 0]

(* Figures of the process, with the instant they are said to be of. *)
HavePeakRss(r, dumping_peak) == dumping_peak /\ r.peak.rss # 0
RssLine(r, dumping_peak) ==
    IF HavePeakRss(r, dumping_peak) THEN [said |-> "at_peak", measured |-> r.peak.rss] ELSE [said |-> "at_exit", measured |-> r.now]
(* Slip: the retained figures whether or not the report is about the peak. *)
MappingLineKept(r, dumping_peak) ==
    IF r.peak.mappings # 0 THEN [said |-> "at_exit", measured |-> r.peak.mappings]
    ELSE [said |-> "at_exit", measured |-> r.now]

MappingLine(r, dumping_peak) ==
    IF HavePeakRss(r, dumping_peak) /\ r.peak.mappings # 0 THEN [said |-> "at_peak", measured |-> r.peak.mappings]
    ELSE [said |-> "at_exit", measured |-> r.now]
OverheadLine(r, dumping_peak) ==
    [said |-> MappingLine(r, dumping_peak).said,
     pointers |-> IF HavePeakRss(r, dumping_peak) THEN r.peak.pointers ELSE Cardinality(r.live)]

DumpLiveToFile(r, dump_peak) ==
    LET dumping_peak == dump_peak /\ r.peak.list # << >>
    IN [listed |-> ListedPart(r, dumping_peak), peak |-> IF dump_peak THEN <<PeakLines(r, dumping_peak)>> ELSE << >>,
        rss |-> RssLine(r, dumping_peak), mappings |-> MappingLine(r, dumping_peak), overhead |-> OverheadLine(r, dumping_peak)]

--------------------------------------------------------------------------------
(* DumpStepReports: the snapshot is pointed at every rung in turn.  A rung whose file
   cannot be opened is passed over; a rung with the name of another's replaces it. *)
WithPeak(r, s) == [r EXCEPT !.peak = [@ EXCEPT !.list = s.list, !.host = s.host, !.dma = s.dma, !.tot = s.tot]]
StepName(s) == s.tot \div StepFileUnit

(* Slip: the totals of the final peak are not put back. *)
DumpStepLeaves(done, k, closed) ==
    LET s == done.r.steps[k]
        shown == WithPeak(done.r, s)
    IN IF StepName(s) \in closed THEN done
       ELSE [r |-> [shown EXCEPT !.peak.list = done.r.peak.list],
             files |-> [f \in DOMAIN done.files \cup {StepName(s)} |->
                          IF f = StepName(s) THEN DumpLiveToFile(shown, TRUE) ELSE done.files[f]]]

DumpStep(done, k, closed) ==
    LET s == done.r.steps[k]
        shown == WithPeak(done.r, s)
    IN IF StepName(s) \in closed THEN done
       ELSE [r |-> WithPeak(shown, done.r.peak),
             files |-> [f \in DOMAIN done.files \cup {StepName(s)} |->
                          IF f = StepName(s) THEN DumpLiveToFile(shown, TRUE) ELSE done.files[f]]]

DumpStepReports(r, closed) ==
    LET all == FoldLeft(LAMBDA done, k : DumpStep(done, k, closed), [r |-> r, files |-> << >>], [k \in DOMAIN r.steps |-> k])
    IN [all EXCEPT !.r.steps = << >>]

(* DumpPeakInfo *)
PeakInfo(r) == [process_peak |-> r.peak_tot, sampled |-> IF r.samples > 0 THEN r.sampled ELSE 0]

(* debug_finalize: the report at exit, the rungs, the summary. *)
Finalize(r, closed) ==
    LET steps == DumpStepReports(r, closed)
    IN [exit |-> DumpLiveToFile(r, TRUE), files |-> steps.files, after |-> steps.r, info |-> PeakInfo(steps.r)]
================================================================================
