--------------------------------- MODULE MCHook --------------------------------
(***************************************************************************)
(* The hook's own algorithms on small inputs: taking a stack and showing   *)
(* it in a report.  A task is one input, chosen at the start, and the      *)
(* answer what the program makes of it.                                    *)
(***************************************************************************)
EXTENDS StackCapture, ObservedSample, ProcText, HookConfig, LiveReport, Tasks

CONSTANTS Targets,      \* the backends whose stacks are reported
          PeakKernels,  \* the platforms peaks are measured on
          FirstDigits   \* whether addresses may begin with a decimal digit

Build(os, aarch64, forced) == [os |-> os, aarch64 |-> aarch64, compiler |-> TRUE, forced |-> forced]
BuildOf(target) ==
    CASE target = "fp" -> Build("android", TRUE, FALSE)
      [] target = "forced" -> Build("android", TRUE, TRUE)
      [] target = "compiler" -> Build("ohos", FALSE, FALSE)
      [] target = "linux" -> Build("linux", FALSE, FALSE)
      [] OTHER -> Build("android", TRUE, FALSE)
ModeOf(target) == IF target \in {"fp", "forced"} THEN "Fast" ELSE "Accurate"

(* A stack of the hook's frames and the application's, in memory from 16 on. *)
StackWords(own) ==
    [a \in {16 + 8 * i : i \in 0..2 * Len(own) + 1} |->
        LET i == (a \div 16)
        IN IF i >= Len(own) THEN 0
           ELSE IF a % 16 = 0 THEN a + 16 ELSE own[i + 1]]
View(hook, app, ends) ==
    LET own == hook \o app
    IN [own |-> own, ends |-> ends, fp |-> 16, words |-> StackWords(own), bounds |-> [low |-> 16, high |-> 16 * (Len(own) + 1)],
        places |-> [i \in DOMAIN own |->
                      [map |-> IF i <= Len(hook) THEN "skip" ELSE "plain", step |-> IF i = Len(own) THEN "finish" ELSE "table",
                       lr |-> i, exit |-> FALSE, dex |-> FALSE]]]
(* The pcs a backend has of the stack, innermost first. *)
Shown(target, t) ==
    LET own == t.hook \o t.app
    IN CASE target = "fp" -> IF own = << >> THEN << >> ELSE Tail(own)
         [] target = "android" -> [i \in DOMAIN t.app |-> t.app[i] - (IF i = 1 /\ t.hook = << >> THEN 0 ELSE PcAdjust)]
         [] OTHER -> own

(* The hook's code ends where the program's file begins, and a call may be the last
   instruction of a module. *)
Segment(v, o, n, x) == [vaddr |-> v, offset |-> o, size |-> n, exec |-> x]
HookFile == [name |-> "hook", segments |-> <<Segment(0, 0, 10, FALSE), Segment(32, 16, 16, TRUE)>>]
Pie == [name |-> "app", segments |-> <<Segment(0, 0, 12, FALSE), Segment(32, 16, 20, TRUE)>>]
OnePiece == [name |-> "app", segments |-> <<Segment(0, 0, 30, TRUE)>>]
Fixed == [name |-> "app", segments |-> <<Segment(112, 0, 8, FALSE), Segment(144, 16, 16, TRUE), Segment(160, 32, 16, TRUE)>>]
Files == {[file |-> Pie, bias |-> 112], [file |-> Pie, bias |-> 192], [file |-> OnePiece, bias |-> 112], [file |-> Fixed, bias |-> 0]}
HookBias == 64
Stack == [start |-> 400, end |-> 480, offset |-> 0, exec |-> TRUE, readable |-> TRUE, name |-> "[stack]", first |-> NoHeader]
MapsLines(program) == Loaded(16, HookFile, HookBias) \o Loaded(16, program.file, program.bias) \o <<Stack>>
Last16(program) == UNION {{program.bias + s.vaddr + 4, program.bias + UpTo(16, s.vaddr + s.size)} :
                            s \in {q \in Range(program.file.segments) : q.exec}}

WalkWords == {16, 32, 48}
WalkTasks == [kind : {"walk"}, next : [WalkWords -> {0, 16, 24, 32, 36, 48, 56}], lr : [WalkWords -> BOOLEAN], max : {1, 2, 5}, skip : 0..2]
WalkView(t) ==
    [fp |-> 16, bounds |-> [low |-> 16, high |-> 64],
     words |-> [a \in {16, 24, 32, 40, 48, 56, 64} |->
                  CASE a \in WalkWords -> t.next[a]
                    [] a = 64 -> 999
                    [] OTHER -> IF t.lr[a - 8] THEN 100 + a ELSE 0]]
CaptureTasks == [kind : {"capture"}, target : {"fp", "forced", "compiler", "linux", "android"}, active : BOOLEAN, hook : {<<104>>, <<104, 108>>},
                 app : {SubSeq(<<176, 180, 184, 188, 192>>, 1, n) : n \in 0..5}, ends : BOOLEAN, max : 0..MaxRaw + 1, skip : 0..3]
ReportTasks == {t \in [kind : {"report"}, target : Targets, program : Files, hook : [1..4 -> {100, 112}] \cup [1..5 -> {104, 112}],
                       app : {<<a, b, c>> : a, b, c \in UNION {Last16(p) : p \in Files}}, max : {1, 2, 3}] :
                  Range(t.app) \subseteq Last16(t.program)}
Captured(t, skip) == CaptureStackInto(BuildOf(t.target), FALSE, ModeOf(t.target), View(t.hook, t.app, TRUE), t.max, skip)
HookCaptureSkipFrames == 3

(* A process that is sampled five times; a change comes between two samples, or in the
   second before the pass that tear names. *)
Kernel(ion, node, device, counted) == [ion |-> ion, node |-> node, device |-> device, counted |-> counted]
KernelNamed(name) ==
    CASE name = "plain" -> Kernel(FALSE, "nodriver", FALSE, TRUE)
      [] name = "ion" -> Kernel(TRUE, "nodriver", FALSE, TRUE)
      [] name = "counting" -> Kernel(FALSE, "denied", TRUE, TRUE)
      [] name = "apart" -> Kernel(FALSE, "denied", TRUE, FALSE)
      [] OTHER -> Kernel(FALSE, "served", TRUE, TRUE)
StartWorlds == {[anon |-> 1, fds |-> {2}, maps |-> {2}, gpu |-> 0, warm |-> TRUE, opened |-> FALSE, fault |-> "none"],
                [anon |-> 2, fds |-> {1}, maps |-> {2}, gpu |-> 2, warm |-> TRUE, opened |-> TRUE, fault |-> "none"]}
(* What goes wrong goes wrong in one sample; the mapped total changes under it. *)
Changed(v, change) ==
    LET w == [v EXCEPT !.fault = "none"] IN
    CASE change = "open" -> [w EXCEPT !.fds = {1, 2}]
      [] change = "close" -> [w EXCEPT !.fds = {}]
      [] change = "map" -> [w EXCEPT !.maps = {1, 2}]
      [] change = "unmap" -> [w EXCEPT !.maps = {}]
      [] change = "grow" -> [w EXCEPT !.anon = 3]
      [] change = "shrink" -> [w EXCEPT !.anon = 1]
      [] change = "unreadable" -> [w EXCEPT !.anon = 0]
      [] change = "gpu" -> [w EXCEPT !.gpu = @ + 1, !.opened = TRUE]
      [] change = "nogpu" -> [w EXCEPT !.gpu = 0]
      [] change = "cold" -> [w EXCEPT !.warm = ~@]
      [] change \in {"noopen", "garbled"} -> [w EXCEPT !.fault = change]
      [] change = "nomaps" -> [w EXCEPT !.fault = change, !.gpu = 0]
      [] change = "nosmaps" -> [w EXCEPT !.fault = change, !.gpu = @ + 1]
      [] OTHER -> w
PeakTasks == [kind : {"peak"}, kernel : PeakKernels, start : StartWorlds, tear : {"none", "fds", "maps"},
              changes : [1..4 -> {"open", "close", "map", "unmap", "grow", "shrink", "gpu"}]]
GpuTasks == [kind : {"gpu"}, kernel : {"ion", "counting", "apart", "kgsl"}, start : StartWorlds, tear : {"none"},
             changes : [1..4 -> {"open", "grow", "unreadable", "gpu", "nogpu", "cold"}]]
    \cup [kind : {"gpu"}, kernel : {"counting", "apart", "kgsl"}, start : StartWorlds, tear : {"none"},
          changes : [1..4 -> {"grow", "gpu", "noopen", "garbled", "nomaps", "nosmaps"}]]
WorldsOf(t) == LET w[i \in 0..4] == IF i = 0 THEN t.start ELSE Changed(w[i - 1], t.changes[i]) IN w
SampleOf(t, w, st, i) ==
    LET before == IF i = 0 \/ t.tear = "none" THEN w[i] ELSE w[i - 1]
    IN TakeSample(st, KernelNamed(t.kernel), before, IF t.tear = "maps" THEN before ELSE w[i], w[i])
Sampled(t) ==
    LET w == WorldsOf(t)
        st[i \in 0..4] == SampleOf(t, w, IF i = 0 THEN NewSampler ELSE st[i - 1], i)
    IN st
(* Passes over the inode set, from a generation on. *)
Inodes == {1, 2, 7, 8}
InodeTasks == [kind : {"inodes"}, from : {0, 1}, passes : {<<a, b, c>> : a \in [1..2 -> Inodes], b \in [1..1 -> Inodes], c \in [1..4 -> Inodes]}]
InsertAll(set, seq) ==
    FoldLeft(LAMBDA st, b : LET insert == InsertInode(st.set, b) IN [set |-> insert.set, new |-> Append(st.new, insert.new)],
             [set |-> ResetDmaInodeSet(set), new |-> << >>], seq)
InsertPasses(t) ==
    FoldLeft(LAMBDA st, seq : LET pass == InsertAll(st.set, seq)
                              IN [set |-> pass.set, passes |-> Append(st.passes, [new |-> pass.new, overflowed |-> pass.set.overflowed])],
             [set |-> [NewInodeSet EXCEPT !.generation = t.from], passes |-> << >>], t.passes)
ScheduleTasks == [kind : {"schedule"}, previous : {10, 13}, now : 10..22, work : 0..9, interval : 1..5]

(* Regions of a process: the device's, some of names like it, a file's and anonymous
   ones, with a header that is short, just fits the buffer, or does not. *)
PathNamed(node, rest) == [node |-> node, rest |-> rest, file |-> TRUE]
RegionPaths == {PathNamed("/dev/kgsl-3d0", ""), PathNamed("/dev/kgsl-3d0", " (deleted)"), PathNamed("/dev/kgsl-3d0", "x"), PathNamed("/lib", ""), Anonymous}
Regions(n) == [1..n -> [path : RegionPaths, text : {4, ReadBuffer - 2, ReadBuffer - 1, 2 * ReadBuffer}, size : {3}, rss : {1, 3}, decimal : {TRUE}]]
Chunks == {<<1>>, <<7>>, <<3, 5>>, <<ReadBuffer>>}
SmapsTasks == [kind : {"smaps"}, regions : Regions(2), reads : Chunks]
IonTasks == [kind : {"ionfile"}, reads : Chunks,
             lines : [1..3 -> {Line("buffer", n, PathNamed(pid, ""), 2) : n \in {2, ReadBuffer - 2, ReadBuffer - 1}, pid \in {"self", "other"}}]]
MappingTasks == [kind : {"mappings"}, top : {1, 3},
                 regions : [1..3 -> [path : {PathNamed("/lib", ""), PathNamed("/app", ""), Anonymous}, text : {4}, size : {3}, rss : {0, 1, 3}, decimal : FirstDigits]]]
Texts == {Unset, Malformed, 0, 3}
ConfigTasks == [kind : {"config"}, floor : Texts, interval : Texts \cup {UnsignedSpace, UnsignedSpace + 3}, step : Texts, min : Texts, platform : {0, 40}, mode : {"unset", "accurate"},
                published : {<<>>, <<Malformed>>} \cup UNION {[1..n -> {0, 5, UnsignedSpace}] : n \in 1..2}]
BlockTasks == [kind : {"block"}, alignment : {0, 2, 3, 4, 8, 16, 32, 64}, size : 0..20 \cup SizeMax - 40..SizeMax, base : {MapPage, 3 * MapPage}, mappable : BOOLEAN]

(* Allocations of one size whose stacks alternate, and others; what was live at three
   instants, and which snapshots were taken at the first two. *)
Alloc(p, n, type, stack, depth, at) == [pointer |-> p, size |-> n, type |-> type, stack |-> stack, depth |-> depth, time |-> at]
AllocA == Alloc(1, 2, "host", 1, 2, 1)
AllocB == Alloc(2, 2, "host", 2, 2, 1)
AllocC == Alloc(3, 2, "host", 1, 2, 2)
AllocD == Alloc(4, 3, "dma", 3, 1, 2)
Unstacked == Alloc(5, 2, "dma", NoStack, 0, 3)
Lives == {{}, {AllocA}, {Unstacked}, {AllocA, AllocC, Unstacked}, {AllocA, AllocB, AllocC}, {AllocA, AllocB, AllocC, AllocD, Unstacked}}
Takes == {[source |-> "none", readable |-> TRUE]} \cup [source : {"tracked", "observed"}, readable : BOOLEAN]
DumpTasks == [kind : {"dump"}, chase : BOOLEAN, lives : [1..3 -> Lives], takes : [1..2 -> Takes], closed : {{}, {2}}]
(* Whether a snapshot is taken: at a new maximum, and once where one is enough. *)
Instant(t, r, i) ==
    LET take == IF i = 3 THEN [source |-> "none", readable |-> TRUE] ELSE t.takes[i]
        used == Used(t.lives[i])
        observed == used + 1
        seen == [r EXCEPT !.live = t.lives[i], !.now = i, !.peak_tot = Max({@, used}),
                          !.samples = @ + (IF take.source = "observed" THEN 1 ELSE 0),
                          !.sampled = IF take.source = "observed" THEN Max({@, observed}) ELSE @]
    IN CASE take.source = "tracked" /\ used > r.peak_tot /\ r.peak.source # "observed" /\ (r.chase \/ r.peak.source = "none") ->
              Retain(seen, "tracked", 0, take.readable)
         [] take.source = "observed" /\ observed > r.sampled /\ (r.chase \/ r.peak.source # "observed") ->
              Retain(seen, "observed", observed, take.readable)
         [] OTHER -> seen
Tracked(t) == FoldLeft(LAMBDA r, i : Instant(t, r, i), NewTracker(t.chase), <<1, 2, 3>>)

HookKinds == {"dump", "inodes", "schedule", "peak", "gpu", "walk", "capture", "report", "smaps", "ionfile", "mappings", "config", "block"}
EvaluateDump == Evaluate("dump", DumpTasks, LAMBDA t :
    LET r == Tracked(t)
    IN [tracker |-> r, live |-> DumpLiveToFile(r, FALSE), final |-> Finalize(r, t.closed)])
EvaluateInodes == Evaluate("inodes", InodeTasks, LAMBDA t : [passes |-> InsertPasses(t).passes])
EvaluateSchedule == Evaluate("schedule", ScheduleTasks, LAMBDA t :
    NextSampleSchedule(t.previous, t.now, t.work, t.interval))
EvaluatePeak == Evaluate("peak", PeakTasks, LAMBDA t : [samples |-> Sampled(t)])
EvaluateGpu == Evaluate("gpu", GpuTasks, LAMBDA t : [samples |-> Sampled(t)])
EvaluateSmaps == Evaluate("smaps", SmapsTasks, LAMBDA t :
    LET lines == SmapsOf(t.regions)
    IN [apart |-> ReadGpuMmapBytesFrom(lines, t.reads), mapped |-> ReadGpuMappedBytesFrom(lines, t.reads),
        reading |-> ReadGpuSmapsReading(lines, t.reads)])
EvaluateIonfile == Evaluate("ionfile", IonTasks, LAMBDA t :
    [bytes |-> ReadIonProcInfoBytesFrom(t.lines, "self", t.reads)])
EvaluateMappings == Evaluate("mappings", MappingTasks, LAMBDA t : CollectMappingRss(SmapsOf(t.regions), t.top))
EvaluateConfig == Evaluate("config", ConfigTasks, LAMBDA t :
    [observe |-> ObserveOnlyRequested(t), config |-> ConfigInit(t)])
EvaluateBlock == Evaluate("block", BlockTasks, LAMBDA t : BootstrapAlignedMalloc(t.alignment, t.size, t.base, t.mappable))
EvaluateWalk == Evaluate("walk", WalkTasks, LAMBDA t : CaptureWithFramePointer(WalkView(t), t.max, t.skip))
EvaluateCapture == Evaluate("capture", CaptureTasks, LAMBDA t :
    CaptureStackInto(BuildOf(t.target), t.active, ModeOf(t.target), View(t.hook, t.app, t.ends), t.max, t.skip))
EvaluateReport == Evaluate("report", ReportTasks, LAMBDA t :
    LET raw == Captured(t, HookCaptureSkipFrames).pcs IN [raw |-> raw, lines |-> FrameLines(MapsLines(t.program), 100, raw)])

EvaluateHook ==
    \/ EvaluateDump \/ EvaluateInodes \/ EvaluateSchedule \/ EvaluatePeak \/ EvaluateGpu
    \/ EvaluateWalk \/ EvaluateCapture \/ EvaluateReport \/ EvaluateSmaps \/ EvaluateIonfile
    \/ EvaluateMappings \/ EvaluateConfig \/ EvaluateBlock

Behind(seq, n) == SubSeq(seq, n + 1, Len(seq))
(* However the words on the stack are linked, the frame pointer walk ends, reads no
   word outside the stack's bounds and gives the return addresses of the linked frame
   records; a record is called complete exactly when none of them is left out. *)
WalkExact == Answered("walk") =>
    LET rest == Behind(LinkedReturns(WalkView(task)), task.skip)
    IN /\ answer.pcs = SubSeq(rest, 1, Fewer(Len(rest), task.max))
       /\ answer.state = CASE rest = << >> -> "Empty" [] Len(rest) > task.max -> "Partial" [] OTHER -> "Complete"
(* Whichever backend takes it, a record holds the innermost frames behind the skipped
   ones, no more than asked for and than it has room for; what is left out is told,
   and nothing is left out while there is room. *)
CaptureHonest == Answered("capture") =>
    LET rest == Behind(Shown(task.target, task), task.skip)
        pcs == answer.pcs
    IN IF task.active THEN answer.state = "Error" /\ pcs = << >>
       ELSE /\ IsPrefix(pcs, rest) /\ Len(pcs) <= Fewer(task.max, MaxRaw)
            /\ answer.state = "Complete" => pcs = rest
            /\ pcs # << >> /\ pcs # rest => answer.state = "Partial" /\ answer.error # "none"
            /\ task.skip + task.max <= MaxRaw => Len(pcs) = Fewer(task.max, Len(rest))
            /\ IsUsable(answer) <=> pcs # << >>
(* A report shows a stack from the application's call of the allocator on, every frame
   as the address of its call in the file it was loaded from, at the ends of modules
   and for any number of the hook's own frames. *)
ReportStartsAtCaller == Answered("report") =>
    LET caught == Fewer(task.max, MaxRaw)
        own == Behind(Shown("linux", task), HookCaptureSkipFrames + IF task.target = "fp" THEN 1 ELSE 0)
        app == Fewer(Len(task.app), caught - (Len(own) - Len(task.app)))
    IN app > 0 => answer.lines = [i \in 1..app |-> [rel |-> task.app[i] - PcAdjust - task.program.bias, name |-> "app"]]
(* In every pass each inode is new the first time and only then, through collisions
   and the wrap of the generations; where more inodes are met than the set holds, the
   pass says so. *)
InodesOnce == Answered("inodes") =>
    \A p \in 1..3 :
        LET met == task.passes[p]
            pass == answer.passes[p]
        IN /\ \A i \in DOMAIN met : ~pass.overflowed => pass.new[i] = (\A j \in 1..i - 1 : met[j] # met[i])
           /\ \A i \in DOMAIN met : (\A j \in 1..i - 1 : met[j] # met[i]) => pass.new[i]
           /\ pass.overflowed => Cardinality(Range(met)) >= MaxDeduped
(* The next sample is due on the grid the first one set, after the slot just served, no
   sooner than now and the cost of the last; it is the first such slot, but for the one
   that falls on now itself, and every slot left out is counted. *)
ScheduleOnGrid == Answered("schedule") =>
    LET slots == {n \in 1..40 : task.previous + n * task.interval >= task.now + task.work}
    IN /\ answer.next >= task.now + task.work
       /\ answer.next = task.previous + (answer.skipped + 1) * task.interval
       /\ answer.skipped + 1 \in {Min(slots), Min(slots) + 1}
       /\ answer.skipped + 1 > Min(slots) => task.work = 0 /\ answer.next = task.now + task.interval
(* A peak has its resident, descriptor and mapping parts as they stood in its sample, each
   when its pass was made. *)
PeakAsItStood == Answered("peak") =>
    LET w == WorldsOf(task)
        kernel == KernelNamed(task.kernel)
    IN \A i \in 0..4 :
          LET st == answer.samples[i]
              at_status == IF i > 0 /\ task.tear # "none" THEN w[i - 1] ELSE w[i]
              at_fds == IF i > 0 /\ task.tear = "maps" THEN w[i - 1] ELSE w[i]
          IN st.raised => /\ st.peak.rss = VmRss(kernel, at_status)
                          /\ st.peak.fd = FoldSet(+, 0, at_fds.fds)
                          /\ kernel.ion \/ st.peak.map = FoldSet(+, 0, w[i].maps \ at_fds.fds)
(* A footprint above the peak is missed only in a sample whose mapping pass was skipped,
   and no more than MapRefresh samples in a row are. *)
PeakMissedOnlyStale == Answered("peak") =>
    LET w == WorldsOf(task)
    IN \A i \in 0..4 :
          LET st == answer.samples[i]
          IN /\ st.map.since <= MapRefresh
             /\ task.tear = "none" /\ st.map.since = 0 /\ ~KernelNamed(task.kernel).ion =>
                  st.peak.total >= w[i].anon + FoldSet(+, 0, w[i].fds \cup w[i].maps)
(* No page is counted twice in a sample, whether the device's pages are counted in
   VmRSS or apart, unless the mapped total hides a change of what is resident, or maps or
   smaps cannot be read and the last figure is carried. *)
NoPageTwice == Answered("gpu") /\ (\A i \in 1..4 : task.changes[i] # "cold") =>
    LET w == WorldsOf(task)
    IN \A i \in 0..4 : answer.samples[i].sample.valid /\ w[i].fault \notin {"nomaps", "nosmaps"} =>
          answer.samples[i].sample.rss + answer.samples[i].sample.gpu <= w[i].anon + w[i].gpu
(* The counter of the GPU driver is given up where there is no driver, where it is denied,
   and when the open that fails for another reason is made before it was ever read, though
   it be served; once read it is not given up, and a denial is met once.  As long as it is
   not given up, every sample that can read it uses it. *)
CounterLatched == Answered("gpu") =>
    LET w == WorldsOf(task)
    IN \A i \in 0..4 :
          LET st == answer.samples[i]
          IN /\ st.kgsl = "unavailable" => \/ KernelNamed(task.kernel).node # "served"
                                           \/ \E j \in 0..i : w[j].fault = "noopen"
             /\ st.kgsl = "active" => \A j \in i..4 : answer.samples[j].kgsl = "active"
             /\ st.denials <= 1
             /\ task.kernel = "kgsl" /\ w[i].opened /\ st.sample.valid /\ w[i].fault \notin {"noopen", "garbled"}
                  => st.sample.model \/ st.kgsl = "unavailable"
(* However the kernel's files are cut into reads, every line that fits the buffer is
   read once and whole: the device's regions and the process's own buffers are counted
   with their exact sizes, and a region whose header does not fit is left out, its
   resident part never taken for the device's. *)
FilesReadExactly ==
    LET fits(text) == text < ReadBuffer - 1
        device(r) == fits(r.text) /\ r.path \in {PathNamed("/dev/kgsl-3d0", ""), PathNamed("/dev/kgsl-3d0", " (deleted)")}
        sum(Of(_), rs) == SumOf(rs, LAMBDA r : IF device(r) THEN Of(r) ELSE 0)
    IN /\ Answered("smaps") =>
            /\ answer.mapped = sum(LAMBDA r : r.size, task.regions)
            /\ answer.apart = sum(LAMBDA r : r.size - r.rss, task.regions)
            /\ answer.reading.mapped = answer.mapped
            /\ answer.reading.device_rss = sum(LAMBDA r : r.rss, task.regions)
            /\ answer.reading.all_rss = SumOf(task.regions, LAMBDA r : r.rss)
       /\ Answered("ionfile") =>
            answer.bytes = SumOf(task.lines, LAMBDA l : IF fits(l.text) /\ l.path.node = "self" THEN l.kb ELSE 0)
(* The report's resident bytes are grouped by the mapping they belong to: each path has
   those of its own regions, the totals those of files and of the rest, and the largest
   come first. *)
MappingsAttributed == Answered("mappings") =>
    LET of(p) == SumOf(task.regions, LAMBDA r : IF r.path = p THEN r.rss ELSE 0)
        ranked == answer.ranked
        paths == {r.path : r \in Range(task.regions)}
    IN /\ \A i \in DOMAIN ranked : ranked[i].path \in paths /\ ranked[i].rss = of(ranked[i].path)
       /\ \A p \in paths : (\A i \in DOMAIN ranked : ranked[i].path # p) => \A i \in DOMAIN ranked : ranked[i].rss >= of(p)
       /\ Len(ranked) = Fewer(task.top, Cardinality(paths))
       /\ answer.totals.file.Rss = SumOf(task.regions, LAMBDA r : IF r.path.file THEN r.rss ELSE 0)
       /\ answer.totals.anon.Rss = SumOf(task.regions, LAMBDA r : IF r.path.file THEN 0 ELSE r.rss)
(* The two readings of the environment agree: where a cadence is given, the process
   either records a peak or only observes, never both and never neither; a recording
   has a size filter unless one was given.  The interval is cut to an unsigned: a
   recording or an observation has a sampler unless 0, or a multiple of 2^32, was asked
   for, by the variable itself or, without it, by a host framework. *)
ModesAgree == Answered("config") =>
    LET published == {task.published[i] : i \in DOMAIN task.published}
        asked == IF task.interval >= 0 THEN {task.interval} ELSE {n \in published : n > 0}
        lost == {n \in asked : n % UnsignedSpace = 0}
        records == "RECORD_MEMORY_PEAK" \in answer.config.options
        HasSampler(ms) == (lost = {} => ms > 0) /\ (asked = lost /\ lost # {} => ms = 0)
    IN /\ ~(answer.observe.requested /\ records)
       /\ asked \subseteq {0} \/ answer.observe.requested \/ records
       /\ answer.observe.requested => ~(asked \subseteq {0}) /\ HasSampler(answer.observe.interval)
       /\ records => HasSampler(answer.config.sample_ms)
       /\ records /\ task.min < 0 => answer.config.min_size > 0
(* A block handed out before libc's allocator is known is aligned as asked and lies
   inside its own mapping with its header; it is refused for its alignment, where its
   size with header, alignment and page overflows, and where the kernel maps nothing. *)
BlockInMapping == Answered("block") =>
    LET valid == task.alignment \in {4, 8, 16, 32, 64}
        effective == Max({task.alignment, HeaderAlign})
        overflows == HeaderSize + task.size + effective - 1 > SizeMax - MapPage + 1
    IN /\ answer.error = "none" =>
            /\ valid /\ answer.payload % effective = 0 /\ answer.header >= task.base
            /\ answer.payload + task.size <= task.base + answer.map_size
       /\ answer.error = "EINVAL" <=> ~valid
       /\ answer.error = "ENOMEM" <=> valid /\ overflows
       /\ answer.error = "MAP_FAILED" <=> valid /\ ~overflows /\ ~task.mappable
ListBytes(list) == FoldLeft(LAMBDA n, e : n + e.num_allocations * e.size, 0, list)
ListCount(list, a) == FoldLeft(LAMBDA n, e : n + (IF e.size = a.size /\ e.stack = a.stack THEN e.num_allocations ELSE 0), 0, list)
(* A report accounts for every byte of the instant it is about: its list has every
   allocation with a stack once, however the entries were merged, its totals and what
   is said to be omitted make up the rest, and the lag leads to the process's peak. *)
ReportAddsUp == Answered("dump") =>
    LET peak == answer.tracker.peak
        Whole(report, i) ==
            LET live == task.lives[i]
            IN /\ ListBytes(report.listed.list) = Used(WithStack(live))
               /\ report.listed.host + report.listed.dma = Used(live)
               /\ \A a \in WithStack(live) :
                    ListCount(report.listed.list, a) = Cardinality({b \in live : b.size = a.size /\ b.stack = a.stack})
        OfLive(report) == ListBytes(report.listed.list) + report.listed.omitted.bytes = report.listed.host + report.listed.dma
        lines == answer.final.exit.peak[1]
    IN /\ Whole(answer.live, 3) /\ OfLive(answer.live)
       /\ Whole(answer.final.exit, IF peak.time = 0 THEN 3 ELSE peak.time)
       /\ lines.none => OfLive(answer.final.exit)
       /\ lines.process_peak = Max({Used(task.lives[i]) : i \in 1..3})
       /\ lines.criterion = "tracked" => lines.snapshot_total + lines.lag = lines.process_peak
       /\ lines.criterion = "observed" => peak.observed + lines.lag = lines.sampled
(* Every retained rung has its own report, with its stacks and totals, unless its file
   could not be opened or a later rung has the same name; afterwards the final peak is
   reported as if no rung had been written. *)
RungsReported == Answered("dump") =>
    LET steps == answer.tracker.steps
        files == answer.final.files
        Superseded(k) == \E j \in DOMAIN steps : j > k /\ StepName(steps[j]) = StepName(steps[k])
    IN /\ DOMAIN files = {StepName(s) : s \in Range(steps)} \ task.closed
       /\ \A k \in DOMAIN steps :
            StepName(steps[k]) \notin task.closed /\ ~Superseded(k) =>
              LET shown == files[StepName(steps[k])]
              IN /\ shown.listed.list = steps[k].list
                 /\ shown.listed.host = steps[k].host /\ shown.listed.dma = steps[k].dma
                 /\ shown.peak[1].snapshot_total = steps[k].tot
       /\ DumpLiveToFile(answer.final.after, TRUE) = answer.final.exit
(* The report at exit and the one on a signal are about the instant they say: figures
   "at_peak" were read for the snapshot that is listed, if /proc could be read then,
   and those "at_exit" at the time of the report. *)
ReportTagged == Answered("dump") =>
    LET peak == answer.tracker.peak
        fresh == peak.time = 0 \/ peak.rss \in {0, peak.time}
        Right(report) ==
            /\ \A line \in {report.rss, report.mappings} :
                 line.measured = IF line.said = "at_peak" THEN peak.time ELSE 3
            /\ report.overhead.pointers =
                 Cardinality(task.lives[IF report.overhead.said = "at_peak" THEN peak.time ELSE 3])
    IN fresh => Right(answer.live) /\ Right(answer.final.exit)
================================================================================
