------------------------------ MODULE StackCapture -----------------------------
(***************************************************************************)
(* Taking the stack of the calling thread: the four backends, the choice   *)
(* between them and the record they fill; and the frame lines a report     *)
(* makes of it: the table of modules built from /proc/self/maps, and the   *)
(* return addresses of a stack shown as call sites in their modules, from  *)
(* the allocation's caller on.                                             *)
(*                                                                         *)
(* A stack is the sequence of its return addresses, innermost first.  Each *)
(* backend has its own view of it:                                         *)
(*   own    what _Unwind_Backtrace and backtrace() report, own frame first *)
(*   ends   whether _Unwind_Backtrace reaches the end of the stack         *)
(*   words  the stack's memory, with the frame records from fp on          *)
(*   bounds of the thread's stack, low = 0 when they are not known         *)
(*   places the chain as Unwinder::Unwind steps it                         *)
(*                                                                         *)
(* A line of the maps file is a record: start, end, offset, exec, readable *)
(* and name, and first, the address of the first load segment in the ELF   *)
(* header found at its start, or NoHeader.                                 *)
(***************************************************************************)
EXTENDS UnwindLoop, FiniteSetsExt

CONSTANTS MaxRaw,     \* kMaxAsyncRawFrames
          WordSize,   \* sizeof(uintptr_t)
          PcAdjust    \* kReturnAddressPcAdjust, and the unwinder's own pc adjustment

Fewer(a, b) == IF a < b THEN a ELSE b

Blank(backend) == [backend |-> backend, state |-> "Empty", error |-> "none", pcs |-> << >>]
Refused(backend, error) == [backend |-> backend, state |-> "Error", error |-> error, pcs |-> << >>]

(* Slip: the frames beyond the record's room are left out untold. *)
CaptureFrameUntold(st, pc, max) ==
    CASE pc = 0 -> st
      [] pc # 0 /\ st.skip > 0 -> [st EXCEPT !.skip = @ - 1]
      [] OTHER -> IF Len(st.record.pcs) >= max THEN st ELSE [st EXCEPT !.record.pcs = Append(@, pc)]

(* The callback of _Unwind_Backtrace; an answer other than _URC_NO_REASON stops it. *)
CaptureFrame(st, pc, max) ==
    CASE pc = 0 \/ st.stopped -> st
      [] pc # 0 /\ ~st.stopped /\ st.skip > 0 -> [st EXCEPT !.skip = @ - 1]
      [] OTHER -> IF Len(st.record.pcs) >= max
                  THEN [st EXCEPT !.stopped = TRUE, !.record.state = "Partial", !.record.error = "max_frames"]
                  ELSE [st EXCEPT !.record.pcs = Append(@, pc)]

(* _Unwind_Backtrace over the frames, and whether it reached the end of the stack. *)
Backtraced(view, max, skip) ==
    FoldLeft(LAMBDA st, pc : CaptureFrame(st, pc, max),
             [record |-> Blank("CompilerUnwind"), skip |-> skip, stopped |-> FALSE], view.own)

CaptureWithCompiler(view, max_frames, skip) ==
    LET st == Backtraced(view, Fewer(max_frames, MaxRaw), skip)
        ended == view.ends /\ ~st.stopped
    IN CASE max_frames = 0 -> Blank("CompilerUnwind")
         [] max_frames # 0 /\ st.record.pcs # << >> ->
              IF st.record.state = "Partial" THEN st.record
              ELSE [st.record EXCEPT !.state = IF ended THEN "Complete" ELSE "Partial"]
         [] OTHER -> IF ended THEN st.record ELSE [st.record EXCEPT !.state = "Error", !.error = "reason"]

(* How many frames to ask for: those of the record and those in front of them. *)
CaptureLimit(output, skip) == Fewer(MaxRaw, output + Fewer(skip, MaxRaw))

(* The frames behind the skipped ones, as many as the record may hold. *)
Cut(pcs, output, skip) ==
    LET first == Fewer(skip, Len(pcs)) IN SubSeq(pcs, first + 1, first + Fewer(output, Len(pcs) - first))

CaptureLinuxNative(view, max_frames, skip) ==
    LET output == Fewer(max_frames, MaxRaw)
        limit == CaptureLimit(output, skip)
        captured == SubSeq(view.own, 1, Fewer(limit, Len(view.own)))
        pcs == Cut(captured, output, Fewer(skip, MaxRaw))
        record == [Blank("LinuxNative") EXCEPT !.pcs = pcs]
    IN CASE output = 0 -> Blank("LinuxNative")
         [] output # 0 /\ captured = << >> -> Refused("LinuxNative", "backtrace")
         [] output # 0 /\ captured # << >> /\ pcs = << >> -> record
         [] OTHER -> IF Len(captured) = limit THEN [record EXCEPT !.state = "Partial", !.error = "max_frames"]
                     ELSE [record EXCEPT !.state = "Complete"]

(* Slip: room for one word suffices. *)
FrameRecordFitsStackHalf(fp, bounds) ==
    fp % WordSize = 0 /\ fp >= bounds.low /\ fp <= bounds.high /\ bounds.high - fp >= WordSize

(* Both words of a frame record are on the stack. *)
FrameRecordFitsStack(fp, bounds) ==
    fp % WordSize = 0 /\ fp >= bounds.low /\ fp <= bounds.high /\ bounds.high - fp >= 2 * WordSize

(* The walk from fp on, strictly towards the stack's base. *)
RECURSIVE WalkFrom(_, _, _, _, _)
WalkFrom(view, fp, skip, output, pcs) ==
    LET next == view.words[fp]
        lr == view.words[fp + WordSize]
        full == lr # 0 /\ skip = 0 /\ Len(pcs) >= output
        kept == IF lr # 0 /\ skip = 0 THEN Append(pcs, lr) ELSE pcs
    IN IF ~FrameRecordFitsStack(fp, view.bounds) THEN [pcs |-> pcs, truncated |-> FALSE]
       ELSE IF full THEN [pcs |-> pcs, truncated |-> TRUE]
       ELSE IF next <= fp THEN [pcs |-> kept, truncated |-> FALSE]
       ELSE WalkFrom(view, next, IF lr # 0 /\ skip > 0 THEN skip - 1 ELSE skip, output, kept)

CaptureWithFramePointer(view, max_frames, skip) ==
    LET output == Fewer(max_frames, MaxRaw)
        walk == WalkFrom(view, view.fp, skip, output, << >>)
        record == [Blank("FramePointer") EXCEPT !.pcs = walk.pcs]
    IN CASE output = 0 -> Blank("FramePointer")
         [] output # 0 /\ view.bounds.low = 0 -> Refused("FramePointer", "bounds")
         [] OTHER -> CASE walk.pcs = << >> -> record
                       [] walk.pcs # << >> /\ walk.truncated -> [record EXCEPT !.state = "Partial", !.error = "max_frames"]
                       [] OTHER -> [record EXCEPT !.state = "Complete"]

(* Unwind() with AndroidLocalUnwinder: the frames' pcs, which the unwinder has moved
   into the calls already, and its last error. *)
AndroidUnwind(view, limit) ==
    LET unwound == Unwind(view.places, limit)
    IN [pcs |-> [i \in DOMAIN unwound.frames |->
                   LET frame == unwound.frames[i] IN view.own[frame.at] - (IF frame.adjusted THEN PcAdjust ELSE 0)],
        error |-> unwound.error]

BuildCapturedRecord(unwound, max_frames, skip) ==
    LET pcs == Cut(unwound.pcs, Fewer(max_frames, MaxRaw), skip)
        failed == unwound.error # "NONE"
    IN [backend |-> "AndroidUnwindstack", pcs |-> pcs, error |-> IF failed THEN unwound.error ELSE "none",
        state |-> IF pcs = << >> THEN IF failed THEN "Error" ELSE "Empty" ELSE IF failed THEN "Partial" ELSE "Complete"]

CaptureAndroid(view, max_frames, skip) ==
    BuildCapturedRecord(AndroidUnwind(view, CaptureLimit(Fewer(max_frames, MaxRaw), skip)), max_frames, skip)

(* A build and its environment: os, whether it is an aarch64 one, whether the compiler's
   unwinder is there and whether it is forced. *)
CompilerOr(build, view, max_frames, skip) ==
    IF build.compiler THEN CaptureWithCompiler(view, max_frames, skip) ELSE Refused("Fallback", "no_unwinder")

(* active: this thread is in a capture already, which an allocation by the unwinder
   itself leads to. *)
CaptureStackInto(build, active, mode, view, max_frames, skip) ==
    CASE active -> Refused("Fallback", "reentered")
      [] ~active /\ mode = "Fast" ->
           IF build.aarch64 /\ ~build.forced THEN CaptureWithFramePointer(view, max_frames, skip)
           ELSE CompilerOr(build, view, max_frames, skip)
      [] OTHER ->
           CASE build.os = "android" -> CaptureAndroid(view, max_frames, skip)
             [] build.os = "linux" -> CaptureLinuxNative(view, max_frames, skip)
             [] build.os = "ohos" -> CompilerOr(build, view, max_frames, skip)
             [] OTHER -> Refused("Fallback", "unsupported")

IsUsable(record) == record.state \in {"Complete", "Partial"}

(* From a return address into the call in front of it. *)
CallSitePcFromReturnAddress(pc) == IF pc > PcAdjust THEN pc - PcAdjust ELSE pc

--------------------------------------------------------------------------------
(* Reference: the frame records that are linked from fp on.  They are strictly
   ascending, so they are a set: the one in which every record but the first is the
   next of another, and which holds the next of each of its records that has one. *)
OnStack(view, p) == p % WordSize = 0 /\ p >= view.bounds.low /\ p + 2 * WordSize <= view.bounds.high
Follows(view, p, q) == q = view.words[p] /\ q > p /\ OnStack(view, q)
Records(view) ==
    LET all == {p \in DOMAIN view.words : OnStack(view, p)}
    IN IF view.fp \notin all THEN {}
       ELSE CHOOSE s \in SUBSET all :
              /\ view.fp \in s
              /\ \A p \in s : p = view.fp \/ \E q \in s : Follows(view, q, p)
              /\ \A p \in s : \A q \in all : Follows(view, p, q) => q \in s
LinkedReturns(view) ==
    SelectSeq([i \in 1..Cardinality(Records(view)) |->
                 view.words[SetToSortSeq(Records(view), <)[i] + WordSize]], LAMBDA lr : lr # 0)

--------------------------------------------------------------------------------
(* The frame lines of a report. *)

NoHeader == -1
Pseudo == {"", "[stack]"}     \* lines with no file behind them

(* ParseLine over the whole file. *)
RawMappings(lines) == SelectSeq(lines, LAMBDA l : l.name \notin Pseudo)

(* Where the file of a mapping of offset 0 was loaded. *)
FirstLoadVaddr(mapping) == IF mapping.readable THEN mapping.first ELSE NoHeader
Bias(mapping) ==
    LET vaddr == FirstLoadVaddr(mapping)
    IN IF vaddr # NoHeader /\ vaddr <= mapping.start THEN mapping.start - vaddr ELSE mapping.start

(* The lowest place the mapping's file was loaded at. *)
LoadBias(mappings, mapping) ==
    LET bases == {Bias(m) : m \in {n \in Range(mappings) : n.offset = 0 /\ n.readable /\ n.name = mapping.name}}
    IN IF bases = {} THEN mapping.start - mapping.offset ELSE Min(bases)

(* ModuleTable::Build: the executable mappings in the order of their addresses. *)
BuildModules(lines) ==
    LET mappings == RawMappings(lines)
        code == SelectSeq(mappings, LAMBDA m : m.exec)
        ranges == {[start |-> m.start, end |-> m.end, load_bias |-> LoadBias(mappings, m), name |-> m.name] : m \in Range(code)}
    IN SetToSortSeq(ranges, LAMBDA a, b : a.start < b.start)

Unresolved(pc) == [found |-> FALSE, rel |-> pc, name |-> "<unknown>"]

(* ModuleTable::Resolve: the last range that starts at or in front of the pc. *)
ResolvePc(ranges, pc) ==
    LET before == {i \in DOMAIN ranges : ranges[i].start <= pc}
        entry == ranges[Max(before)]
    IN IF before = {} THEN Unresolved(pc)
       ELSE IF pc >= entry.end THEN Unresolved(pc)
       ELSE [found |-> TRUE, rel |-> pc - entry.load_bias, name |-> entry.name]

(* Slip: the module is looked for at the return address. *)
OfHookLate(ranges, self, pc) ==
    self # "<unknown>" /\ ResolvePc(ranges, pc).found /\ ResolvePc(ranges, pc).name = self

(* Whether the call that returns to the pc is the hook's own. *)
OfHook(ranges, self, pc) ==
    LET at == ResolvePc(ranges, CallSitePcFromReturnAddress(pc)) IN self # "<unknown>" /\ at.found /\ at.name = self

(* The frames in front that are the hook's, none when all are. *)
LeadingHook(ranges, self, raw) ==
    LET others == {i \in DOMAIN raw : ~OfHook(ranges, self, raw[i])} IN IF others = {} THEN 0 ELSE Min(others) - 1

(* The lines of one stack, as DumpLiveToFile prints them; probe is the address of
   SelfModuleProbe. *)
FrameLines(lines, probe, raw) ==
    LET ranges == BuildModules(lines)
        self == ResolvePc(ranges, probe).name
        first == LeadingHook(ranges, self, raw)
        line(pc) == LET at == ResolvePc(ranges, CallSitePcFromReturnAddress(pc)) IN [rel |-> at.rel, name |-> at.name]
    IN [i \in 1..Len(raw) - first |-> line(raw[first + i])]

--------------------------------------------------------------------------------
(* Reference: what the dynamic loader maps of a file.  A segment has its address and
   offset in the file, its size, and whether it is code. *)
DownTo(page, n) == n - (n % page)
UpTo(page, n) == DownTo(page, n + page - 1)
Loaded(page, file, bias) ==
    [i \in DOMAIN file.segments |->
       LET s == file.segments[i]
       IN [start |-> bias + DownTo(page, s.vaddr), end |-> bias + UpTo(page, s.vaddr + s.size), offset |-> DownTo(page, s.offset),
           exec |-> s.exec, readable |-> TRUE, name |-> file.name,
           first |-> IF DownTo(page, s.offset) = 0 THEN file.segments[1].vaddr ELSE NoHeader]]
================================================================================
