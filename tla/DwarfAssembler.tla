----------------------------- MODULE DwarfAssembler ----------------------------
(***************************************************************************)
(* Reference for DwarfSection: functions of a small machine, what their    *)
(* instructions do to registers and stack, and the call-frame information  *)
(* a compiler writes for them.  Nothing here is part of the program: it is *)
(* what the program must undo.  A word has PointerSize bytes and the stack *)
(* holds one value per address written.                                    *)
(*                                                                         *)
(* A function is a record: prologue, its first instructions; early, an     *)
(* epilogue and return stand in the middle of the body; link, a call       *)
(* leaves the return address in RA and not on the stack; caf, pcs per      *)
(* instruction; how, the way its rows are written; pad, its program is     *)
(* padded to a multiple of four bytes; form, the kind of section.          *)
(***************************************************************************)
EXTENDS DwarfSection

SP == 2
FPReg == 3
RA == 4
PCReg == 5
Scratch == {0}  \* registers a call does not preserve
Machine == [name |-> "ARM64", total |-> 6, sp |-> SP, pc |-> PCReg]
Top == 400      \* the caller's stack pointer
Caller == [r \in 0..5 |-> IF r = SP THEN Top ELSE 500 + r]
Junk == 9

Entered(f) ==
    IF f.link THEN [regs |-> Caller, mem |-> << >>]
    ELSE [regs |-> [Caller EXCEPT ![SP] = @ - PointerSize, ![RA] = Junk],
          mem |-> (Top - PointerSize) :> Caller[RA]]

Execute(s, i) ==
    LET sp == s.regs[SP]
    IN CASE i.do = "push" -> [regs |-> [s.regs EXCEPT ![SP] = sp - PointerSize, ![i.reg] = Junk],
                              mem |-> ((sp - PointerSize) :> s.regs[i.reg]) @@ s.mem]
         [] i.do = "pop" -> [s EXCEPT !.regs[i.reg] = s.mem[sp], !.regs[SP] = sp + PointerSize]
         [] i.do = "sub" -> [s EXCEPT !.regs[SP] = sp - i.by]
         [] i.do = "add" -> [s EXCEPT !.regs[SP] = sp + i.by]
         [] i.do = "fp" -> [s EXCEPT !.regs[FPReg] = sp]
         [] i.do = "unfp" -> [s EXCEPT !.regs[SP] = s.regs[FPReg]]
         [] i.do = "keep" -> [s EXCEPT !.regs[i.in] = s.regs[i.reg], !.regs[i.reg] = Junk]
         [] i.do = "unkeep" -> [s EXCEPT !.regs[i.reg] = s.regs[i.in]]
         [] i.do = "nop" -> s

Nop == [do |-> "nop"]
Backwards(i) ==
    CASE i.do = "push" -> [do |-> "pop", reg |-> i.reg]
      [] i.do = "sub" -> [do |-> "add", by |-> i.by]
      [] i.do = "fp" -> [do |-> "unfp"]
      [] i.do = "keep" -> [do |-> "unkeep", reg |-> i.reg, in |-> i.in]

(* Instruction n is at n - 1.  The code after an early return is reached from the
   body before it. *)
Body(f) == Len(f.prologue) + 1
Early(f) == IF f.early THEN Reverse([i \in DOMAIN f.prologue |-> Backwards(f.prologue[i])]) \o <<Nop>> ELSE << >>
Resumes(f) == Body(f) + Len(Early(f))
CodeOf(f) == f.prologue \o <<Nop>> \o Early(f) \o <<Nop, Nop>>
Reached(f, n) == IF n >= Resumes(f) THEN Body(f) ELSE n
StateAt(f, n) == FoldLeft(Execute, Entered(f), SubSeq(CodeOf(f), 1, Reached(f, n)))

--------------------------------------------------------------------------------
(* What is known after n instructions: the CFA is base + off, and the stack deep. *)
Track(k, i) ==
    LET by == CASE i.do = "push" -> PointerSize [] i.do = "pop" -> -PointerSize
                [] i.do = "sub" -> i.by [] i.do = "add" -> -i.by [] OTHER -> 0
    IN CASE i.do = "fp" -> [k EXCEPT !.base = FPReg]
         [] i.do = "unfp" -> [k EXCEPT !.base = SP, !.off = k.deep]
         [] OTHER -> [k EXCEPT !.off = IF k.base = SP THEN @ + by ELSE @, !.deep = @ + by]
KnownAt(f, n) ==
    LET start == IF f.link THEN 0 ELSE PointerSize
    IN FoldLeft(Track, [base |-> SP, off |-> start, deep |-> start], SubSeq(CodeOf(f), 1, Reached(f, n)))

Factored(n) == -(n \div PointerSize)
Sized(code) == PutULEB128(Len(code)) \o code
BaseCode(reg, offset, how) == Sized(ExprCode([op |-> "reg", reg |-> reg, offset |-> offset], how))

EmitCfa(how, old, k) ==
    CASE how = 1 /\ k.base = old.base -> <<14>> \o PutULEB128(k.off)
      [] how = 1 /\ k.off = old.off -> <<13>> \o PutULEB128(k.base)
      [] how = 1 -> <<12>> \o PutULEB128(k.base) \o PutULEB128(k.off)
      [] how = 2 /\ k.base = old.base -> <<19>> \o PutSLEB128(Factored(k.off))
      [] how = 2 -> <<18>> \o PutULEB128(k.base) \o PutSLEB128(Factored(k.off))
      [] how = 3 -> <<15>> \o BaseCode(k.base, k.off, 1)

EmitSaved(how, reg, k) ==
    CASE how = 1 -> <<128 + reg>> \o PutULEB128(Factored(-k.deep))
      [] how = 2 -> <<17>> \o PutULEB128(reg) \o PutSLEB128(Factored(-k.deep))
      [] how = 3 /\ k.base = SP -> <<47>> \o PutULEB128(reg) \o PutULEB128(k.deep)
      [] how = 3 -> <<16>> \o PutULEB128(reg) \o BaseCode(k.base, k.off - k.deep, 2)

EmitRow(f, n) ==
    LET i == CodeOf(f)[n]
        old == KnownAt(f, n - 1)
        k == KnownAt(f, n)
    IN (IF [k EXCEPT !.deep = 0] = [old EXCEPT !.deep = 0] THEN << >> ELSE EmitCfa(f.how, old, k))
       \o CASE i.do = "push" -> EmitSaved(f.how, i.reg, k)
            [] i.do = "pop" -> (IF f.how = 1 THEN <<192 + i.reg>> ELSE <<6>> \o PutULEB128(i.reg))
            [] i.do = "keep" -> <<9>> \o PutULEB128(i.reg) \o PutULEB128(i.in)
            [] i.do = "unkeep" -> <<8>> \o PutULEB128(i.reg)
            [] OTHER -> << >>

EmitAdvance(how, n) ==
    CASE how = 1 -> <<64 + n>> [] how = 2 -> <<2>> \o PutBytes(n, 1) [] how = 3 -> <<3>> \o PutBytes(n, 2)

(* A row is written when something changes; last is the pc of the row before. *)
Emit(f) ==
    LET row(acc, n) ==
          LET items == CASE f.early /\ n = Body(f) -> EmitRow(f, n) \o <<10>>
                         [] f.early /\ n = Resumes(f) -> <<11>>
                         [] OTHER -> EmitRow(f, n)
          IN IF items = << >> THEN acc
             ELSE [code |-> acc.code \o EmitAdvance(f.how, n - acc.last) \o items, last |-> n]
        all == FoldLeft(row, [code |-> << >>, last |-> 0], [n \in 1..Len(CodeOf(f)) |-> n])
    IN all.code
Pad(code, to, with) == code \o [i \in 1..to - Len(code) |-> with]
UpToFour(n) == ((n + 3) \div 4) * 4

--------------------------------------------------------------------------------
(* The section: a CIE at offset 0 and one FDE per function, at its pc. *)
InitialRows(f) == <<12>> \o PutULEB128(SP) \o PutULEB128(IF f.link THEN 0 ELSE PointerSize)
                  \o (IF f.link THEN << >> ELSE <<128 + RA, 1>>)
WithLength(f, body) == IF f.form = "wide" THEN <<255, 255, 255, 255>> \o PutBytes(Len(body), 8) \o body
                       ELSE PutBytes(Len(body), 4) \o body
IdSize(f) == IF f.form = "wide" THEN 8 ELSE 4
LengthSize(f) == IF f.form = "wide" THEN 12 ELSE 4
SectionKind(f) == IF f.form \in {"debug", "wide"} THEN "debug" ELSE "eh"

(* eh has a personality, an LSDA encoding and 4-byte relative pcs; debug is plain
   version 4, wide its 64-bit form. *)
CieBytes(f) ==
    LET factors == PutULEB128(f.caf) \o PutSLEB128(-PointerSize)
        id == IF SectionKind(f) = "eh" THEN 0 ELSE -1
    IN WithLength(f, PutBytes(id, IdSize(f))
         \o (CASE f.form = "eh" -> <<1, 122, 80, 76, 82, 0>> \o factors \o <<RA, 5, 2, 7, 7, 27, 27>>
               [] f.form = "signal" -> <<3, 122, 82, 83, 0>> \o factors \o <<RA, 1, 27>>
               [] OTHER -> <<4, 0, PointerSize, 0>> \o factors \o <<RA>>)
         \o InitialRows(f))

FdeBytes(f, cieAt, at, pc, size, code) ==
    LET field == at + LengthSize(f) + IdSize(f)
    IN WithLength(f,
         (CASE SectionKind(f) = "eh" ->
                 PutBytes(at + 4 - cieAt, 4) \o PutBytes(pc - field, 4) \o PutBytes(size, 4)
                 \o (IF f.form = "eh" THEN <<4, 0, 0, 0, 0>> ELSE <<0>>)
            [] OTHER -> PutBytes(cieAt, IdSize(f)) \o PutBytes(pc, IdSize(f)) \o PutBytes(size, IdSize(f)))
         \o code)

SizeOf(f) == f.caf * Len(CodeOf(f))
(* One function at pc; the bytes of the section. *)
SectionOf(f, pc) ==
    LET cie == CieBytes(f)
        code == Emit(f)
    IN cie \o FdeBytes(f, 0, Len(cie), pc, SizeOf(f), IF f.pad THEN Pad(code, UpToFour(Len(code) + 1), 0) ELSE code)

(* Two steps over one section, the first at m and the second at n instructions. *)
StepTwice(f, m, n) ==
    LET mem == SectionOf(f, 1000)
        sec == [kind |-> SectionKind(f), offset |-> 0, size |-> Len(mem), bias |-> 0]
        step(k, cache) == LET s == StateAt(f, k)
                              pc == 1000 + f.caf * k
                          IN SectionStep(mem, Machine, GetFdeFromPc(mem, sec, pc), pc, s.regs, s.mem, cache)
    IN step(n, step(m, EmptyCache).cache).result

(* The caller's frame, but for the registers a call does not preserve. *)
IsCallerFrame(f, result) ==
    /\ result.stepped /\ ~result.finished
    /\ result.signal = (f.form = "signal")
    /\ \A r \in DOMAIN Caller \ Scratch :
         result.regs[r] = (IF r = PCReg THEN Caller[RA] ELSE Caller[r])

(* The rules the program finds n instructions into a function. *)
RowAt(f, n) ==
    LET mem == SectionOf(f, 1000)
        sec == [kind |-> SectionKind(f), offset |-> 0, size |-> Len(mem), bias |-> 0]
        pc == 1000 + f.caf * n
    IN GetCfaLocationInfo(mem, Machine, pc, GetFdeFromPc(mem, sec, pc), << >>).locs

--------------------------------------------------------------------------------
(* A section with one FDE per range <<start, size>>, and after it the search table
   of .eh_frame_hdr: the bytes, each FDE's offset, and where the table starts. *)
Plain == [prologue |-> << >>, early |-> FALSE, link |-> TRUE, how |-> 1, caf |-> 1, form |-> "signal", pad |-> TRUE]
WithFdes(ranges) ==
    LET cie == CieBytes(Plain)
        add(acc, r) == [bytes |-> acc.bytes \o FdeBytes(Plain, 0, Len(acc.bytes), r[1], r[2], <<0>>),
                        offsets |-> Append(acc.offsets, Len(acc.bytes))]
    IN FoldLeft(add, [bytes |-> cie, offsets |-> << >>], ranges)

SearchTable(ranges, offsets, at) ==
    LET before(i, j) == ranges[i][1] < ranges[j][1] \/ (ranges[i][1] = ranges[j][1] /\ i < j)
        order == SetToSortSeq(DOMAIN ranges, before)
        pair(i) == PutBytes(ranges[i][1] - at, 4) \o PutBytes(offsets[i] - at, 4)
    IN <<1, 27, 3, 59>> \o PutBytes(0 - at - 4, 4) \o PutBytes(Len(ranges), 4)
       \o FlattenSeq([k \in DOMAIN order |-> pair(order[k])])

(* The place in the list of the FDE found for a pc, 0 when there is none. *)
PlaceOf(fde, ranges) ==
    IF ~fde.ok THEN 0
    ELSE LET same == {i \in DOMAIN ranges : fde.pc_start = ranges[i][1] /\ fde.pc_end = ranges[i][1] + ranges[i][2]}
         IN Min(same)
ByIndex(ranges, pc) ==
    LET all == WithFdes(ranges)
    IN PlaceOf(GetFdeFromPc(all.bytes, [kind |-> "eh", offset |-> 0, size |-> Len(all.bytes), bias |-> 0], pc), ranges)
ByTable(ranges, pc) ==
    LET all == WithFdes(ranges)
        at == Len(all.bytes)
        mem == all.bytes \o SearchTable(ranges, all.offsets, at)
    IN PlaceOf(HdrGetFdeFromPc(mem, [kind |-> "eh", offset |-> 0, size |-> at, bias |-> 0], HdrInit(mem, at), pc), ranges)

(* The first of the ranges that has the pc. *)
FirstWith(ranges, pc) ==
    LET having == {i \in DOMAIN ranges : ranges[i][1] <= pc /\ pc < ranges[i][1] + ranges[i][2]}
    IN IF having = {} THEN 0 ELSE Min(having)
Apart(ranges) == \A i, j \in DOMAIN ranges :
    i # j /\ ranges[i][2] > 0 /\ ranges[j][2] > 0 =>
        ranges[i][1] + ranges[i][2] <= ranges[j][1] \/ ranges[j][1] + ranges[j][2] <= ranges[i][1]
================================================================================
