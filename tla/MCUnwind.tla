-------------------------------- MODULE MCUnwind -------------------------------
(***************************************************************************)
(* The unwinder's decoders, each run on what an encoder wrote, and what it *)
(* does besides: reading memory, finding symbols, stepping out of signal   *)
(* handlers.  A task is one input, chosen at the start, and the answer     *)
(* what the program makes of it.                                           *)
(***************************************************************************)
EXTENDS ArmExidx, DwarfAssembler, SymbolTable, ProcessMemory, SignalFrames, MapsList,
        UnwindLoop, ElfHeaders, MapElf, Tasks

CONSTANTS
    Paddings,    \* whether programs of FDEs are padded to a multiple of four
    SymbolSizes  \* sizes of the symbols in a table

(* ARM prologues: pushes first, a frame pointer only where r11 was pushed. *)
ArmPushes == {[op |-> "push", mask |-> {4, 5, 6, FP, ARM_REG_LR}], [op |-> "push", mask |-> {4, 5, 6, 7, ARM_REG_LR}],
              [op |-> "pushret", mask |-> {4, FP, ARM_REG_LR}], [op |-> "push", mask |-> {0, 2, 5, FP}]}
ArmMoves == {[op |-> "sub", words |-> n] : n \in {1, 64, 65, 128, 129, 300}}
            \cup {[op |-> o, count |-> n] : o \in {"vpush", "vpushx"}, n \in {1, 8}}
ArmLater == ArmMoves \cup {[op |-> "push", mask |-> {4, 5}], [op |-> "push", mask |-> {1}]}
ArmPrologues ==
    {<< >>} \cup {<<a>> : a \in ArmPushes \cup ArmLater} \cup {<<a, b>> : a \in ArmPushes, b \in ArmLater}
    \cup {<<a, [op |-> "fp"], b>> : a \in {i \in ArmPushes : FP \in i.mask}, b \in ArmMoves}
ArmTasks ==
    {t \in [kind : {"arm"}, prologue : ArmPrologues, long : BOOLEAN, form : {"inline", "short", "long", "generic"}] :
       Fits(UndoAll(t.prologue, t.long), t.form)}
SortedPcs == {SetToSortSeq(s, <) : s \in SUBSET {2, 3, 5, 8}}
ArmIndexTasks == [kind : {"armIndex"}, addrs : SortedPcs, pc : 0..9]

EncodedTasks == [kind : {"encoded"}, value : {-32768, -129, -128, -65, -64, -1, 0, 1, 63, 64, 127, 128, 255, 256, 16383, 16384, 65535},
                 format : {Formats[n] : n \in DOMAIN Formats}, base : {Bases.abs, Bases.pcrel, Bases.datarel},
                 before : {<< >>, <<128>>}]
SomeBases == [NoBases EXCEPT !.pc = 300, !.data = 65000]

(* Expressions over two registers and a readable word at 40. *)
ExprRegs == 0 :> 40 @@ 1 :> 65530
ExprMemory == 40 :> 513
Leaves == {[op |-> "const", value |-> v] : v \in {0, 3, 200, -5}}
          \cup {[op |-> "reg", reg |-> 1, offset |-> -9], [op |-> "load", of |-> [op |-> "reg", reg |-> 0, offset |-> 0]]}
Small == {[op |-> "const", value |-> 3], [op |-> "const", value |-> 2]}
Trees == Leaves
         \cup {[op |-> "unary", code |-> c, of |-> x] : c \in {25, 31, 32}, x \in Leaves}
         \cup {[op |-> o, of |-> x] : o \in {"square", "over"}, x \in Leaves}
         \cup {[op |-> "binary", code |-> c, a |-> x, b |-> y] :
                 c \in {26, 28, 30, 33, 34} \cup 39..39 \cup 41..46, x \in Leaves, y \in Leaves}
         \cup {[op |-> "binary", code |-> c, a |-> x, b |-> y] : c \in {27, 29, 36, 37, 38}, x \in Leaves, y \in Small}
Deeper == {[op |-> "binary", code |-> 28, a |-> x, b |-> y] :
             x \in {t \in Trees : t.op = "square"}, y \in {t \in Trees : t.op = "unary"}}
ExprTasks == [kind : {"expr"}, tree : Trees \cup Deeper, how : 1..4]
(* Programs that jump: back to their start, or straight on for n operations. *)
LoopTasks == [kind : {"loop"}, straight : {0} \cup MaxIterations - 1..MaxIterations + 1]
LoopCode(n) == IF n = 0 THEN <<150, 47>> \o PutBytes(-4, 2) ELSE [i \in 1..n |-> 48]

push(r) == [do |-> "push", reg |-> r]
Prologues == { << >>, <<push(RA)>>, <<push(1), [do |-> "sub", by |-> 130]>>,
               <<push(FPReg), push(RA), [do |-> "fp"], [do |-> "sub", by |-> 6], push(1)>>,
               <<push(0), [do |-> "keep", reg |-> 1, in |-> 0]>> }
Styles == {<<1, 1, "eh">>, <<1, 4, "debug">>, <<2, 4, "signal">>, <<2, 1, "wide">>, <<3, 4, "eh">>, <<3, 1, "debug">>}
Functions == {[prologue |-> p, early |-> e, link |-> l, how |-> s[1], caf |-> s[2], form |-> s[3], pad |-> d] :
                p \in Prologues, e \in BOOLEAN, l \in BOOLEAN, s \in Styles, d \in Paddings}
(* A return address on the stack is not pushed again. *)
Compiled == {f \in Functions : f.link \/ push(RA) \notin Range(f.prologue)}
DwarfTasks == UNION {[kind : {"dwarf"}, f : {f}, m : 0..Len(CodeOf(f)) - 1, n : 0..Len(CodeOf(f)) - 1] : f \in Compiled}
RowTasks == UNION {[kind : {"row"}, f : {f}, n : 0..Len(CodeOf(f)) - 1] : f \in Compiled}

FdeRanges == {<<a, n>> : a \in {10, 12, 14}, n \in {0, 2, 4, 6}}
FdeTasks == [kind : {"fde"}, ranges : {<<a, b, c>> : a, b, c \in FdeRanges}, pc : {10, 12, 13, 17}]
TableTasks == {[t EXCEPT !.kind = "table"] : t \in {u \in FdeTasks : Apart(u.ranges)}}

DecoderKinds == {"arm", "armIndex", "encoded", "expr", "loop", "row", "dwarf", "fde", "table"}
EvaluateArm == Evaluate("arm", ArmTasks, LAMBDA t : ArmStepFrom(t.prologue, t.long, t.form))
EvaluateArmIndex == Evaluate("armIndex", ArmIndexTasks, LAMBDA t : [entry |-> FindEntry(t.addrs, t.pc)])
EvaluateEncoded == Evaluate("encoded", EncodedTasks, LAMBDA t :
    [back |-> EncodedReadBack(t.value, t.format, t.base, SomeBases, t.before)])
EvaluateExpr == Evaluate("expr", ExprTasks, LAMBDA t :
    LET code == ExprCode(t.tree, t.how) IN OpEval(code, 0, Len(code), ExprRegs, ExprMemory))
EvaluateLoop == Evaluate("loop", LoopTasks, LAMBDA t :
    OpEval(LoopCode(t.straight), 0, Len(LoopCode(t.straight)), ExprRegs, ExprMemory))
EvaluateDwarf == Evaluate("dwarf", DwarfTasks, LAMBDA t : StepTwice(t.f, t.m, t.n))
EvaluateRow == Evaluate("row", RowTasks, LAMBDA t :
    [at |-> RowAt(t.f, t.n), all |-> [k \in 0..Len(CodeOf(t.f)) - 1 |-> RowAt(t.f, k).regs]])
EvaluateFde == Evaluate("fde", FdeTasks, LAMBDA t : [place |-> ByIndex(t.ranges, t.pc)])
EvaluateTable == Evaluate("table", TableTasks, LAMBDA t : [place |-> ByTable(t.ranges, t.pc)])

EvaluateDecoder ==
    \/ EvaluateArm \/ EvaluateArmIndex \/ EvaluateEncoded \/ EvaluateExpr \/ EvaluateLoop
    \/ EvaluateRow \/ EvaluateDwarf \/ EvaluateFde \/ EvaluateTable

(* Unwinding from the body of an ARM function gives the registers, stack pointer and
   return address its caller had, for every form of its index entry. *)
ArmFrameRestored == Answered("arm") => [answer EXCEPT !.regs[ARM_REG_LR] = 1000 + ARM_REG_LR] = ArmUnwound
(* FindEntry's search gives the last entry at or below the pc. *)
ArmEntryCovers == Answered("armIndex") => answer.entry = Cardinality({i \in DOMAIN task.addrs : task.addrs[i] <= task.pc})
(* An encoded pointer is read back as the address that was encoded, and the cursor
   stands behind it, for every format, base and value the format can hold. *)
PointersReadBack == Answered("encoded") => answer.back
(* An expression evaluates to its tree's value, alone on the stack, however it was
   compiled. *)
ExpressionValue == Answered("expr") =>
    answer.error = "NONE" /\ answer.stack = <<ExprValue(task.tree, ExprRegs, ExprMemory)>>
(* A program that jumps in a circle is stopped, and one without jumps is not stopped
   before the bound. *)
EvaluationBounded == Answered("loop") =>
    (answer.error = "NONE") = (task.straight \in 1..MaxIterations)
(* A step finds the caller's frame from any pc of a function, epilogues included,
   also when the section has kept rules from a step at another pc. *)
DwarfFrameRestored == Answered("dwarf") => IsCallerFrame(task.f, answer)
(* The rules found for a pc hold in the whole range noted with them. *)
RowsHoldInRange == Answered("row") =>
    \A k \in DOMAIN answer.all :
        1000 + task.f.caf * k \in answer.at.pc_start..answer.at.pc_end - 1 => answer.all[k] = answer.at.regs
(* Where FDEs overlap, the index leads each pc to the first of them that has it, and
   to none where none has. *)
IndexLeadsToFirst == Answered("fde") => answer.place = FirstWith(task.ranges, task.pc)
(* The search table leads each pc to its FDE also past empty FDEs. *)
TableLeadsToOwner == Answered("table") => answer.place = FirstWith(task.ranges, task.pc)

--------------------------------------------------------------------------------
(* Memory, symbols, signal handlers, maps and images. *)

Symbols == [value : {1, 3, 4}, size : SymbolSizes, func : BOOLEAN]
SymbolLists == {s \in UNION {[1..n -> Symbols] : n \in 1..3} : Disjoint(s)}
SymbolTasks == [kind : {"symbol"}, table : SymbolLists, addrs : {<<a, b, c>> : a, b \in {2, 3, 4}, c \in {1, 3, 5}}]

(* Two pages that can be read around one that cannot, and the other way round. *)
Worlds == [pages : {{0, 1, 2, 3, 4}, {0, 1, 3, 4}, {0, 2}, {1}}, zeros : {{}, {6}, {3, 9}}]
ReadTasks == [kind : {"read"}, world : Worlds, first : {0, 3, 6}, addr : 0..9, size : {1, 2, 4, 7, 9, 12}]
StringTasks == [kind : {"string"}, world : Worlds, addr : 0..9, max : {1, 3, 4, 7, 12}]
(* Parts of a file, mapped in the order of their offsets or not, with or without gaps. *)
Parts == {<<[begin |-> 4, length |-> 4, offset |-> 0], [begin |-> 12, length |-> 6, offset |-> 4]>>,
          <<[begin |-> 8, length |-> 4, offset |-> 0], [begin |-> 0, length |-> 8, offset |-> 8]>>}
RangeTasks == [kind : {"range"}, world : Worlds, parts : Parts, swapped : BOOLEAN, addr : 0..16, size : {1, 3, 6}]
FileTasks == [kind : {"file"}, st_size : {0, 1, 5, 8, 11}, offset : 0..9, size : {0, 1, 3, 6, SizeSpace - 1}, addr : 0..4]

SignalTasks == UNION {[kind : {"signal"}, frame : {i}, code : Frames[i].codes \cup {"other"},
                       missing : {0, 2, 10, FrameWords(Frames[i].fields)}] : i \in DOMAIN Frames}
(* Thumb code of calls and other instructions, long and short. *)
Bl == [size |-> 4, tops |-> <<15, 15>>, call |-> TRUE]
Blx == [size |-> 4, tops |-> <<15, 12>>, call |-> TRUE]
BlxReg == [size |-> 2, tops |-> <<4>>, call |-> TRUE]
Short == [size |-> 2, tops |-> <<14>>, call |-> FALSE]
Wide == [size |-> 4, tops |-> <<15, 4>>, call |-> FALSE]
Instructions == {Bl, Blx, BlxReg, Short, Wide}
CallTasks == {t \in [kind : {"call"}, code : {<<a, b, c>> : a, b, c \in Instructions}, at : 1..3, bias : {0, 16}] :
                t.code[t.at].call}

(* What the kernel's file may say at three times: maps appear, go, split, and change
   their protection, their file or their place in it.  The third reading may fail. *)
KernelMap(a, b, o, f, n) == [start |-> a, end |-> b, offset |-> o, flags |-> f, name |-> n]
KernelMaps == {KernelMap(2, 4, 0, "r", "a"), KernelMap(2, 4, 2, "r", "a"), KernelMap(2, 4, 0, "x", "a"),
               KernelMap(2, 6, 0, "r", "a"), KernelMap(4, 6, 2, "r", "a"), KernelMap(4, 6, 0, "r", "b"),
               KernelMap(6, 8, 0, "x", "b"), KernelMap(0, 1, 0, "r", "c")}
Kernels == {SetToSortSeq(s, LAMBDA a, b : a.start < b.start) :
              s \in {u \in SUBSET KernelMaps : \A a, b \in u : a = b \/ a.end <= b.start \/ b.end <= a.start}}
MapsTasks ==
    [kind : {"maps"}, whole : {TRUE},
     kernel : {<<a, b, c>> : a, b \in Kernels, c \in {k \in Kernels : \A m \in Range(k) : m.name # "c"}}]
    \cup [kind : {"maps"}, whole : {FALSE},
          kernel : {<<a, b, c>> : a, b \in Kernels, c \in {<<KernelMap(0, 1, 0, "r", "c"), KernelMap(4, 6, 0, "r", "b")>>}}]
Sought == {1, 3, 5, 7}
ParsedThrice(k, whole) ==
    LET one == Parse(EmptyList, k[1])
        two == Reparse(one, [lines |-> k[2], whole |-> TRUE])
    IN <<one, two, Reparse(two, [lines |-> k[3], whole |-> whole])>>

(* Chains of three, and a place that is not of the chain. *)
Place(m, s, l, e, d) == [map |-> m, step |-> s, lr |-> l, exit |-> e, dex |-> d]
Places(p) == {Place("plain", s, l, FALSE, FALSE) : s \in {"table", "fail"}, l \in {p, p + 1, 4}}
             \cup {Place("plain", s, 4, FALSE, FALSE) : s \in {"signal", "finish", "same"}}
             \cup {Place(m, "table", 4, FALSE, FALSE) : m \in {"skip", "device", "stack", "suffix"}}
             \cup {Place("none", "fail", l, FALSE, FALSE) : l \in {p + 1, 4}}
             \cup {Place("skip", "fail", 4, FALSE, FALSE), Place("plain", "table", 4, TRUE, FALSE), Place("plain", "table", 4, FALSE, TRUE)}
Stray == {Place(m, "fail", 4, FALSE, FALSE) : m \in {"plain", "none"}}
Chains == {<<a, b, c, s>> : a \in Places(1), b \in Places(2), c \in {q \in Places(3) : q.step \in {"finish", "fail"}}, s \in Stray}
UnwindTasks == [kind : {"unwind"}, world : Chains, max : {1, 2, 3, 8}]

Ph(t, x, o, v) == [type |-> t, exec |-> x, offset |-> o, vaddr |-> v, memsz |-> 4]
Sh(t, n, o, l) == [type |-> t, name |-> n, offset |-> o, addr |-> o + 10, size |-> 4, link |-> l]
ProgramHeaders == {Ph("LOAD", FALSE, 0, 0), Ph("LOAD", TRUE, 4, 12), Ph("LOAD", TRUE, 8, 32), Ph("EH_FRAME", FALSE, 2, 2), Ph("NOTE", FALSE, 1, 1)}
SectionHeaders == {Sh("NOTE", ".note.gnu.build-id", 5, 0), Sh("NOTE", ".note.other", 6, 0), Sh("PROGBITS", ".eh_frame", 7, 0),
                   Sh("PROGBITS", ".debug_frame", 8, 0), Sh("PROGBITS", ".eh_frame_hdr", 2, 0), Sh("STRTAB", ".strtab", 9, 0), Sh("SYMTAB", ".symtab", 3, 2)}
Null == Sh("NULL", "", 0, 0)
BiasTasks == [kind : {"headers"}, elf : [ph : {<<a, b, c>> : a, b, c \in ProgramHeaders}, phread : 0..3, sh : {<<Null>>}, shread : {{}}, shstrndx : {0}]]
SectionTasks == [kind : {"headers"},
                 elf : [ph : {<<Ph("LOAD", TRUE, 4, 12)>>}, phread : {1}, sh : {<<Null, a, b, c>> : a, b, c \in SectionHeaders},
                        shread : {0..3, {0, 1, 3}, {0, 2, 3}, 0..2, {1, 2, 3}}, shstrndx : {0, 3, 4}]]
PartTasks == [kind : {"parts"}, elf : [ph : {<< >>, <<Ph("EH_FRAME", FALSE, 2, 2)>>}, phread : {1},
                                       sh : {<<Null, a, b>> : a, b \in {s \in SectionHeaders : s.type = "PROGBITS"}},
                                       shread : {0..2}, shstrndx : {0}],
              good : SUBSET {"hdr", "eh", "debug"}, eh : {"OK", "NO_FDES"}, debug : {"OK", "ILLEGAL_STATE"}, gnu : {"OK", "NO_FDES"}]
Results(t) == [hdr |-> t.eh, eh |-> t.eh, debug |-> t.debug, gnu |-> t.gnu]
Note(n, t, d) == [name |-> n, type |-> t, desc |-> d]
Gnu == <<71, 78, 85, 0>>
Notes == {Note(Gnu, 3, <<1, 2, 3, 4, 5>>), Note(Gnu, 3, << >>), Note(Gnu, 1, <<9>>), Note(<<71>>, 3, <<7, 7>>), Note(<< >>, 3, <<8>>), Note(<<71, 78, 85, 71, 0>>, 3, << >>)}
NoteTasks == [kind : {"notes"}, notes : {<< >>} \cup {<<a>> : a \in Notes} \cup {<<a, b>> : a, b \in Notes} \cup {<<a, b, c>> : a, b, c \in Notes}]
BuildIds(notes) == SelectSeq(notes, LAMBDA n : n.name = Gnu /\ n.type = 3)

(* A file that is an image or holds two, loaded the ways linkers do: in one map, with
   the read-only part in a map of its own (adjacent or with a gap, in pages shared
   with the code or not), followed by data that is read-only again. *)
Seg(p, n, f) == [page |-> p, pages |-> n, flags |-> f]
OneMap == <<Seg(0, 2, {"r", "x"})>>
Split == <<Seg(0, 1, {"r"}), Seg(1, 1, {"r", "x"})>>
Relro == <<Seg(0, 1, {"r"}), Seg(1, 2, {"r", "x"}), Seg(3, 1, {"r"})>>
ExecOnly == <<Seg(0, 1, {"r"}), Seg(1, 1, {"x"})>>
OneExecOnly == <<Seg(0, 2, {"x"})>>
SharedPage == <<Seg(0, 2, {"r"}), Seg(1, 1, {"r", "x"})>>
DeviceMap == <<Seg(0, 1, {"r", "x", "device"})>>
ImagePages == 4
LoadedImage(t, n) == [at |-> PageSize * (IF t.whole THEN 0 ELSE 1 + (n - 1) * ImagePages),
                max |-> IF t.sections THEN PageSize * ImagePages - 1 ELSE 0,
                bias |-> 8 * n, arch |-> t.arch]
(* The segments of an image as maps, the gap behind the first; between two images
   there is memory of no file. *)
MapAt(a, o, n, f, name) == [start |-> a, end |-> a + n * PageSize, offset |-> o, flags |-> f, name |-> name]
LoadedAt(t, style, n, page) ==
    LET gap == IF Len(style) > 1 THEN t.gap ELSE 0
        From(k) == page + (IF k = 1 THEN 0 ELSE gap) + FoldLeft(LAMBDA sum, g : sum + g.pages, 0, SubSeq(style, 1, k - 1))
        segments == [k \in DOMAIN style |->
                       MapAt(PageSize * From(k), LoadedImage(t, n).at + PageSize * style[k].page, style[k].pages, style[k].flags, "file")]
    IN IF gap = 0 THEN segments
       ELSE <<segments[1], MapAt(segments[1].end, 0, gap, {}, "")>> \o Tail(segments)
LoadedMaps(t) ==
    LoadedAt(t, t.first, 1, 8)
    \o (IF t.bss THEN <<MapAt(PageSize * 15, 0, 1, {"r", "w"}, "")>> ELSE << >>)
    \o (IF t.second = << >> THEN << >> ELSE LoadedAt(t, t.second, 2, 16))
(* Which image a map was loaded from. *)
ImageOf(t, map) == IF t.whole THEN 1 ELSE IF map.start >= PageSize * 16 THEN 2 ELSE 1
LoadedWorld(t) ==
    [maps |-> LoadedMaps(t), elfs |-> {LoadedImage(t, n) : n \in IF t.whole THEN {1} ELSE {1, 2}},
     st_size |-> PageSize * (1 + 2 * ImagePages), readable |-> t.readable, arch |-> "mine"]
Layouts == {t \in [first : {OneMap, Split, Relro, ExecOnly, OneExecOnly, SharedPage, DeviceMap}, second : {<< >>, OneMap, Split},
                   whole : BOOLEAN, readable : BOOLEAN, sections : BOOLEAN, gap : {0, 1, 3}, bss : BOOLEAN, arch : {"mine", "other"}] :
              /\ t.arch = "other" => t.sections /\ t.gap = 0 /\ ~t.bss
              /\ Len(t.first) = 1 => t.gap = 0}
LoadTasks == UNION {[kind : {"load"}, layout : {t}, early : {""}, order : (DOMAIN LoadedMaps(t)) \X (DOMAIN LoadedMaps(t))]
                    \cup [kind : {"load"}, layout : {t}, early : {"bias", "id"}, order : (DOMAIN LoadedMaps(t)) \X {1}] : t \in Layouts}
(* Two calls for some maps, and then one for every map. *)
Looked(t) ==
    LET world == LoadedWorld(t.layout)
        none == [i \in DOMAIN world.maps |-> NoFields]
        began == CASE t.early = "" -> GetElf(world, none, t.order[1])
                   [] t.early = "bias" -> MapLoadBias(world, none, t.order[1])
                   [] t.early = "id" -> BuildID(world, none, t.order[1])
        all == FoldLeft(LAMBDA f, i : GetElf(world, f, i), GetElf(world, began, t.order[2]), [i \in DOMAIN world.maps |-> i])
    IN FoldLeft(LAMBDA f, i : BuildID(world, MapLoadBias(world, f, i), i), all, [i \in DOMAIN world.maps |-> i])
Code(world) == {i \in DOMAIN world.maps : "x" \in world.maps[i].flags}
HeadOf(t, world, i) == CHOOSE j \in 1..i : /\ world.maps[j].name = "file" /\ world.maps[j].offset = LoadedImage(t, ImageOf(t, world.maps[i])).at
                                          /\ \A k \in j + 1..i : ~(world.maps[k].name = "file" /\ world.maps[k].offset = world.maps[j].offset)
(* The image of a map can be told: from the file, where its section headers reach as
   far as the map behind the read-only one, or from memory that can be read. *)
Tellable(t, world, i) ==
    LET head == world.maps[HeadOf(t, world, i)]
        map == world.maps[i]
    IN /\ t.arch = "mine"
       /\ "device" \notin map.flags
       /\ IF t.readable THEN head = map \/ t.whole \/ LoadedImage(t, 1).max >= map.end - head.end
          ELSE "r" \in head.flags /\ (head = map \/ ~SameEnd(head, map))

ImageKinds == {"load", "symbol", "read", "string", "range", "file", "signal", "call", "headers", "parts", "notes", "maps", "unwind"}
Ranges(t) ==
    LET parts == IF t.swapped THEN Reverse(t.parts) ELSE t.parts
    IN Insert(Insert(<< >>, parts[1]), parts[2])
(* Behind the call, with the Thumb bit. *)
ReturnAddress(t) == CodeBefore(t.code, t.at + 1) + 1

EvaluateSymbol == Evaluate("symbol", SymbolTasks, LAMBDA t :
    [names |-> Lookups(NewSymbols, t.table, Len(t.table), t.addrs)])
EvaluateRead == Evaluate("read", ReadTasks, LAMBDA t :
    LET warm == CachedRead(t.world, << >>, t.first, 2).cache
    IN [direct |-> ProcessVmRead(t.world, t.addr, t.size), cached |-> CachedRead(t.world, warm, t.addr, t.size).data])
EvaluateString == Evaluate("string", StringTasks, LAMBDA t : [text |-> ReadString(t.world, t.addr, t.max)])
EvaluateRange == Evaluate("range", RangeTasks, LAMBDA t : [data |-> RangesRead(t.world, Ranges(t), t.addr, t.size)])
EvaluateFile == Evaluate("file", FileTasks, LAMBDA t :
    [data |-> FileRead(FileInit(t.st_size, t.offset, t.size), t.addr, 4)])
EvaluateSignal == Evaluate("signal", SignalTasks, LAMBDA t :
    StepOut(Frames[t.frame], t.code, FrameWords(Frames[t.frame].fields) - t.missing))
EvaluateCall == Evaluate("call", CallTasks, LAMBDA t :
    [by |-> GetPcAdjustment(ReturnAddress(t) + t.bias,
                            [valid |-> TRUE, bias |-> t.bias, tops |-> Halfwords(t.code)], "arm")])
EvaluateHeaders == Evaluate("headers", BiasTasks \cup SectionTasks, LAMBDA t : ReadAllHeaders(t.elf))
EvaluateParts == Evaluate("parts", PartTasks, LAMBDA t :
    StepParts(InitHeaders(ReadAllHeaders(t.elf), t.good), Results(t)))
EvaluateNotes == Evaluate("notes", NoteTasks, LAMBDA t :
    [id |-> ReadBuildID(NoteBytes(t.notes), Len(NoteBytes(t.notes)))])
EvaluateMaps == Evaluate("maps", MapsTasks, LAMBDA t :
    LET lists == ParsedThrice(t.kernel, t.whole)
    IN [lists |-> lists,
        found |-> [pc \in Sought |-> UpdatableFind(lists[2], [lines |-> t.kernel[3], whole |-> t.whole], pc)]])
EvaluateUnwind == Evaluate("unwind", UnwindTasks, LAMBDA t : Unwind(t.world, t.max))
EvaluateLoad == Evaluate("load", LoadTasks, LAMBDA t : [all |-> Looked(t)])

EvaluateImage ==
    \/ EvaluateLoad \/ EvaluateSymbol \/ EvaluateRead \/ EvaluateString \/ EvaluateRange
    \/ EvaluateFile \/ EvaluateSignal \/ EvaluateCall \/ EvaluateHeaders \/ EvaluateParts
    \/ EvaluateNotes \/ EvaluateMaps \/ EvaluateUnwind

(* Whatever was looked up before and whether or not the table is sorted, an address is
   given the name of the function that holds it, or none. *)
SymbolNamed == Answered("symbol") => \A i \in DOMAIN task.addrs : answer.names[i] = Holder(task.table, task.addrs[i])
(* A read starts with the bytes up to the first that cannot be read, also out of the
   cache and across its pages, and one that is not short is exact.  It ends there, too,
   if one batch of iovecs holds it; a longer one goes on with the next batch, so that a
   short answer may go on with bytes from behind a hole. *)
ReadsExact == Answered("read") =>
    LET prefix == ReadablePrefix(task.world, task.addr, task.size)
        pages == (task.addr + task.size - 1) \div PageSize - task.addr \div PageSize + 1
    IN /\ answer.cached = answer.direct
       /\ IsPrefix(prefix, answer.direct)
       /\ answer.direct # prefix => pages > MaxIovecs /\ Len(answer.direct) < task.size
(* A string is found exactly when its end can be reached, also across blocks and up to
   a page that cannot be read. *)
StringsExact == Answered("string") => answer.text = StringAt(task.world, task.addr, task.max)
(* Reading the parts of a file at an offset gives the bytes mapped for it. *)
RangesExact == Answered("range") =>
    LET in == {p \in Range(task.parts) : task.addr \in p.offset..p.offset + p.length - 1}
    IN IF in = {} THEN answer.data = << >>
       ELSE LET p == CHOOSE q \in in : TRUE
            IN answer.data = ReadablePrefix(task.world, p.begin + task.addr - p.offset,
                                            Least(task.size, p.offset + p.length - task.addr))
(* A view of a file starts at the offset asked for and holds no more than the size
   asked for, whether or not the offset is a page's and however large the size. *)
FileViewExact == Answered("file") =>
    LET first == task.offset + task.addr
        end == Least(task.st_size, task.offset + task.size)
    IN answer.data = [i \in 1..Max({0, Least(4, end - first)}) |-> first + i - 1]
(* Stepping out of a signal handler restores the registers of the interrupted code.
   It fails where the code is not the kernel's trampoline or the frame cannot be read to
   its end.  x86 and MIPS then keep their registers; ARM, ARM64 and MIPS64, which read
   straight into them, have overwritten those in the part that can be read, and the
   others stay. *)
SignalFrameRestored == Answered("signal") =>
    LET frame == Frames[task.frame]
        before == InHandler(frame, 2000)
        words == FrameWords(frame.fields) - task.missing
        overwritten == {r \in DOMAIN before : /\ frame.arch \in {"arm", "arm64", "mips64"}
                                              /\ task.code # "other" /\ SavedWithin(frame, r, words)}
    IN IF answer.ok THEN /\ task.code # "other" /\ task.missing = 0
                         /\ \A r \in DOMAIN before : answer.regs[r] = IF r \in frame.lost THEN before[r] ELSE SavedIn(frame, r)
       ELSE /\ task.code = "other" \/ task.missing > 0
            /\ \A r \in DOMAIN before : answer.regs[r] = IF r \in overwritten THEN SavedIn(frame, r) ELSE before[r]
(* A return address, adjusted, lies in the call it returns to. *)
AdjustedIntoCall == Answered("call") =>
    ReturnAddress(task) - answer.by - 1 \in CodeBefore(task.code, task.at)..CodeBefore(task.code, task.at + 1) - 1
(* After every parse that succeeds the list has the kernel's maps, in order and linked,
   and every address is found in its map; one that fails leaves the list as it was.  A map
   whose range, protection and file are what they were keeps its old object, and with it
   the offset of the earlier parse; every other map has the offset the kernel says.  A
   lookup that may parse again misses no address the kernel maps, unless that parse fails. *)
MapsFollowKernel == Answered("maps") =>
    /\ \A i \in 1..(IF task.whole THEN 3 ELSE 2) :
        LET list == answer.lists[i]
            before == IF i = 1 THEN EmptyList ELSE answer.lists[i - 1]
        IN /\ FollowsFile(list, task.kernel[i])
           /\ Linked(list)
           /\ Kept(before, list) /\ Placed(before, list, task.kernel[i])
           /\ \A pc \in 0..8 : LET in == {j \in DOMAIN list.maps : pc \in task.kernel[i][j].start..task.kernel[i][j].end - 1}
                               IN Find(list, pc) = IF in = {} THEN Unmapped ELSE list.maps[Min(in)]
    /\ ~task.whole => answer.lists[3] = answer.lists[2]
    /\ \A pc \in Sought :
         LET found == answer.found[pc]
             In(list) == \E m \in Range(list) : pc \in m.start..m.end - 1
         IN /\ Linked(found.list)
            /\ found.map = Unmapped <=> ~In(task.kernel[2]) /\ ~(task.whole /\ In(task.kernel[3]))
            /\ found.map # Unmapped =>
                 pc \in found.list.heap[found.map].start..found.list.heap[found.map].end - 1
(* The frames are those of the chain, in its order and without a gap behind the ones
   skipped at the start; a place that is not of the chain is left only where the
   first frame is in no map. *)
ChainShown == Answered("unwind") =>
    LET places == RealPlaces(answer.frames)
        odd == {i \in DOMAIN places : places[i] # FirstShown(task.world) + i - 1 \/ places[i] = 4}
    IN /\ Len(answer.frames) <= task.max
       /\ odd # {} => Len(answer.frames) <= 2 /\ odd = {Len(places)} /\ ~Mapped(task.world, places[1])
(* A chain that can be stepped to its end is shown to its end, or its truncation is
   told; every pc behind the first is adjusted except that of a signal's frame. *)
ChainWhole == Answered("unwind") =>
    LET sound == \A p \in 1..3 : task.world[p].map \in {"plain", "skip"} /\ ~task.world[p].exit
                                  /\ task.world[p].step \in (IF p = 3 THEN {"finish"} ELSE {"table", "signal"})
        places == RealPlaces(answer.frames)
    IN sound => IF answer.error = "MAX_FRAMES_EXCEEDED" THEN Len(answer.frames) = task.max
                ELSE /\ places = [i \in 1..4 - FirstShown(task.world) |-> FirstShown(task.world) + i - 1]
                     /\ \A f \in Range(answer.frames) :
                            f.kind = "real" => f.adjusted = (f.at > 1 /\ task.world[f.at].step # "signal")
(* The load bias and the place of the build id are the same when read by themselves
   and with all headers, whichever headers can be read. *)
HeadersAgree == Answered("headers") =>
    /\ GetLoadBias(task.elf) = answer.bias
    /\ Cardinality({i \in DOMAIN task.elf.sh : task.elf.sh[i].name = ".note.gnu.build-id"}) <= 1 =>
         GetBuildIDInfo(task.elf) = answer.buildid
(* The build id is that of the first note that has one, past notes of any name and
   length. *)
BuildIdFound == Answered("notes") =>
    answer.id = IF BuildIds(task.notes) = << >> THEN NoId ELSE Head(BuildIds(task.notes)).desc
(* A pc that some usable section or the debug data knows is stepped: a table of
   contents that is broken costs nothing where the section itself is sound. *)
PartsSuffice == Answered("parts") =>
    LET headers == ReadAllHeaders(task.elf)
        usable == \/ headers.debug.offset # 0 /\ "debug" \in task.good /\ task.debug = "OK"
                  \/ headers.eh.offset # 0 /\ "eh" \in task.good /\ task.eh = "OK"
                  \/ task.gnu = "OK"
    IN usable => answer.by # "none" /\ answer.error = "NONE"
(* However an image is loaded and in whichever order its maps are asked for, a map of
   code is given its image whenever that can be told, and a pc in it the address the
   image was linked with; the load bias and build id are that image's. *)
PcsPlaced == Answered("load") =>
    LET world == LoadedWorld(task.layout)
    IN \A i \in Code(world) :
         LET fields == answer.all[i]
             image == LoadedImage(task.layout, ImageOf(task.layout, world.maps[i]))
             pc == world.maps[i].start + 1
         IN /\ fields.elf.valid <=> Tellable(task.layout, world, i)
            /\ fields.elf.valid =>
                 /\ GetRelPc(world, answer.all, i, pc) = 1 + (world.maps[i].offset - image.at) + image.bias
                 /\ fields.elf_start_offset = image.at
                 /\ fields.load_bias = image.bias
                 /\ fields.build_id = IF task.layout.readable /\ task.layout.sections THEN image.at ELSE NoBuildID
(* The read-only map of an image and the code behind it get one Elf object, whichever
   is asked for first, and it can read both maps where the file can be read. *)
OneElf == Answered("load") =>
    LET world == LoadedWorld(task.layout)
    IN \A i \in Code(world) :
         LET head == HeadOf(task.layout, world, i)
             elf == answer.all[i].elf
         IN elf.valid =>
              /\ answer.all[head].elf = elf
              /\ task.layout.readable /\ task.layout.sections =>
                   \A j \in {head, i} : world.maps[j].offset..world.maps[j].offset + Size(world.maps[j]) - 1 \subseteq elf.memory.holds
================================================================================
