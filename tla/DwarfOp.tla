-------------------------------- MODULE DwarfOp --------------------------------
(***************************************************************************)
(* The DWARF expression machine of unwindstack/DwarfOp.cpp.  An evaluation *)
(* is a record: cursor, stack (top first), whether a register was named,   *)
(* whether the dex-pc marker was met, and the error code.  regs and memory *)
(* are what the expression may read: register values and, per readable     *)
(* address, one word.  Shift counts at or above the word's width and the   *)
(* quotient -2^(w-1) / -1 are undefined in the code and left out of the    *)
(* inputs.  GetLogInfo, which only prints, is left out.                    *)
(***************************************************************************)
EXTENDS DwarfMemory, Bitwise, TLC

CONSTANT MaxIterations  \* the bound on decoded operations, 1000 in the program
ASSUME MaxIterationsAssumption == MaxIterations \in Nat

(* kCallbackTable: handler, stack values required, operand formats. *)
Entry(handler, needs, operands) == [handler |-> handler, needs |-> needs, operands |-> operands]

Pushes ==
    (3 :> Entry("push", 0, <<Formats.absptr>>)) @@ (8 :> Entry("push", 0, <<Formats.udata1>>))
    @@ (9 :> Entry("push", 0, <<Formats.sdata1>>)) @@ (10 :> Entry("push", 0, <<Formats.udata2>>))
    @@ (11 :> Entry("push", 0, <<Formats.sdata2>>)) @@ (12 :> Entry("push", 0, <<Formats.udata4>>))
    @@ (13 :> Entry("push", 0, <<Formats.sdata4>>)) @@ (14 :> Entry("push", 0, <<Formats.udata8>>))
    @@ (15 :> Entry("push", 0, <<Formats.sdata8>>)) @@ (16 :> Entry("push", 0, <<Formats.uleb128>>))
    @@ (17 :> Entry("push", 0, <<Formats.sleb128>>)) @@ (6 :> Entry("deref", 1, << >>))
Shuffles ==
    (18 :> Entry("dup", 1, << >>)) @@ (19 :> Entry("drop", 1, << >>)) @@ (20 :> Entry("over", 2, << >>))
    @@ (21 :> Entry("pick", 0, <<Formats.udata1>>)) @@ (22 :> Entry("swap", 2, << >>))
    @@ (23 :> Entry("rot", 3, << >>)) @@ (24 :> Entry("not_implemented", 2, << >>))
Arithmetic ==
    [op \in {26, 27, 28, 29, 30, 33, 34} \cup 36..39 |-> Entry("binary", 2, << >>)]
    @@ [op \in {25, 31, 32} |-> Entry("unary", 1, << >>)]
    @@ (35 :> Entry("plus_uconst", 1, <<Formats.uleb128>>))
Control ==
    (40 :> Entry("bra", 1, <<Formats.sdata2>>)) @@ (47 :> Entry("skip", 0, <<Formats.sdata2>>))
    @@ [op \in 41..46 |-> Entry("binary", 2, << >>)]
Literals == [op \in 48..79 |-> Entry("lit", 0, << >>)]
Registers == [op \in 80..111 |-> Entry("reg", 0, << >>)]
BaseRegisters == [op \in 112..143 |-> Entry("breg", 0, <<Formats.sleb128>>)]
Others ==
    (144 :> Entry("regx", 0, <<Formats.uleb128>>)) @@ (145 :> Entry("not_implemented", 0, <<Formats.sleb128>>))
    @@ (146 :> Entry("bregx", 0, <<Formats.uleb128, Formats.sleb128>>))
    @@ (147 :> Entry("not_implemented", 0, <<Formats.uleb128>>))
    @@ (148 :> Entry("deref_size", 1, <<Formats.udata1>>))
    @@ (149 :> Entry("not_implemented", 0, <<Formats.udata1>>)) @@ (150 :> Entry("nop", 0, << >>))
    @@ (152 :> Entry("not_implemented", 0, <<Formats.udata2>>))
    @@ (153 :> Entry("not_implemented", 0, <<Formats.udata4>>))
    @@ (157 :> Entry("not_implemented", 0, <<Formats.uleb128, Formats.uleb128>>))
    @@ (158 :> Entry("not_implemented", 0, <<Formats.uleb128>>))
    @@ (159 :> Entry("not_implemented", 1, << >>))
    @@ [op \in {151, 154, 155, 156} |-> Entry("not_implemented", 0, << >>)]
OpTable == Pushes @@ Shuffles @@ Arithmetic @@ Control @@ Literals @@ Registers @@ BaseRegisters @@ Others

--------------------------------------------------------------------------------
Signed(value) == IF 2 * value < DwarfSpace THEN value ELSE value - DwarfSpace
Truth(b) == IF b THEN 1 ELSE 0
Quotient(a, b) ==
    LET abs(x) == IF x < 0 THEN -x ELSE x
        q == abs(a) \div abs(b)
    IN IF (a < 0) = (b < 0) THEN q ELSE -q

(* A product, kept small on the way. *)
Times(a, b) == Word(a * (b \div 256)) * 256 + a * (b % 256)

(* a is below the top. *)
Binary(op, a, top) ==
    CASE op = 26 -> a & top          [] op = 27 -> Quotient(Signed(a), Signed(top))
      [] op = 28 -> a - top          [] op = 29 -> a % top
      [] op = 30 -> Times(a, top)       [] op = 33 -> a | top
      [] op = 34 -> a + top          [] op = 36 -> a * 2^top
      [] op = 37 -> a \div 2^top     [] op = 38 -> Signed(a) \div 2^top
      [] op = 39 -> a ^^ top
      [] op = 41 -> Truth(a = top)   [] op = 42 -> Truth(a >= top)
      [] op = 43 -> Truth(a > top)   [] op = 44 -> Truth(a <= top)
      [] op = 45 -> Truth(a < top)   [] op = 46 -> Truth(a # top)

(* op_abs, op_neg, op_not *)
Unary(op, a) ==
    CASE op = 25 -> (IF Signed(a) < 0 THEN -Signed(a) ELSE a)
      [] op = 31 -> -Signed(a)
      [] op = 32 -> DwarfSpace - 1 - a

Fail(e, code) == [e EXCEPT !.error = code]
Push(e, value) == [e EXCEPT !.stack = <<Word(value)>> \o @]
Jump(e, distance) == [e EXCEPT !.at = @ + distance]

(* Slip: the third value goes to the top. *)
ShuffleBackwards(handler, s) ==
    CASE handler = "dup" -> <<s[1]>> \o s          [] handler = "drop" -> Tail(s)
      [] handler = "over" -> <<s[2]>> \o s         [] handler = "swap" -> <<s[2], s[1]>> \o SubSeq(s, 3, Len(s))
      [] handler = "rot" -> <<s[3], s[1], s[2]>> \o SubSeq(s, 4, Len(s))

Shuffle(handler, s) ==
    CASE handler = "dup" -> <<s[1]>> \o s          [] handler = "drop" -> Tail(s)
      [] handler = "over" -> <<s[2]>> \o s         [] handler = "swap" -> <<s[2], s[1]>> \o SubSeq(s, 3, Len(s))
      [] handler = "rot" -> <<s[2], s[3], s[1]>> \o SubSeq(s, 4, Len(s))

(* op_deref and op_deref_size *)
Deref(e, memory, bytes) ==
    LET addr == Head(e.stack)
        below == [e EXCEPT !.stack = Tail(@)]
    IN IF bytes = 0 \/ bytes > PointerSize THEN Fail(e, "ILLEGAL_VALUE")
       ELSE IF addr \notin DOMAIN memory THEN Fail(below, "MEMORY_INVALID")
       ELSE Push(below, memory[addr] % 256^bytes)

BasedOn(e, regs, reg, offset) ==
    IF reg \notin DOMAIN regs THEN Fail(e, "ILLEGAL_VALUE") ELSE Push(e, regs[reg] + offset)

(* A branch that is not taken still moves the cursor, backwards. *)
Bra(e, offset) ==
    LET below == [e EXCEPT !.stack = Tail(@)]
    IN Jump(below, IF Head(e.stack) # 0 THEN offset ELSE -offset)

(* One operation, its operands v read. *)
Handle(e, regs, memory, op, handler, v) ==
    LET s == e.stack
        below == [e EXCEPT !.stack = SubSeq(@, 3, Len(@))]
    IN CASE handler = "push" -> Push(e, v[1])
         [] handler \in {"dup", "drop", "over", "swap", "rot"} -> [e EXCEPT !.stack = Shuffle(handler, @)]
         [] handler = "pick" -> IF v[1] >= Len(s) THEN Fail(e, "STACK_INDEX_NOT_VALID") ELSE Push(e, s[v[1] + 1])
         [] handler = "binary" -> IF op \in {27, 29} /\ s[1] = 0 THEN Fail([e EXCEPT !.stack = Tail(@)], "ILLEGAL_VALUE")
                                  ELSE Push(below, Binary(op, s[2], s[1]))
         [] handler = "unary" -> [e EXCEPT !.stack[1] = Word(Unary(op, @))]
         [] handler = "plus_uconst" -> [e EXCEPT !.stack[1] = Word(@ + v[1])]
         [] handler = "bra" -> Bra(e, Signed(v[1]))
         [] handler = "skip" -> Jump(e, Signed(v[1]))
         [] handler = "lit" -> Push(e, op - 48)
         [] handler = "reg" -> Push([e EXCEPT !.is_register = TRUE], op - 80)
         [] handler = "regx" -> Push([e EXCEPT !.is_register = TRUE], v[1])
         [] handler = "breg" -> BasedOn(e, regs, op - 112, v[1])
         [] handler = "bregx" -> BasedOn(e, regs, v[1], v[2])
         [] handler = "deref" -> Deref(e, memory, PointerSize)
         [] handler = "deref_size" -> Deref(e, memory, v[1])
         [] handler = "nop" -> e
         [] handler = "not_implemented" -> Fail(e, "NOT_IMPLEMENTED")

NoBases == [pc |-> NoBase, text |-> NoBase, data |-> NoBase, func |-> NoBase]

ReadOperands(mem, at, formats) ==
    LET more(r, format) == IF r.ok THEN WithOperand(r, ReadEncodedValue(mem, r.next, format, NoBases)) ELSE r
    IN FoldLeft(more, NoOperands(at), formats)

(* An operation of the table, its operands read. *)
DecodeRead(e, regs, memory, op, handler, read) ==
    IF ~read.ok THEN Fail(e, "MEMORY_INVALID")
    ELSE Handle([e EXCEPT !.at = read.next, !.last = <<op>> \o read.values], regs, memory, op, handler, read.values)
DecodeEntry(e, mem, regs, memory, op, entry) ==
    IF Len(e.stack) < entry.needs THEN Fail(e, "STACK_INDEX_NOT_VALID")
    ELSE DecodeRead(e, regs, memory, op, entry.handler, ReadOperands(mem, e.at + 1, entry.operands))
DecodeOp(e, mem, regs, memory) ==
    IF e.at \notin 0..Len(mem) - 1 THEN Fail(e, "MEMORY_INVALID")
    ELSE LET op == mem[e.at + 1]
         IN IF op \notin DOMAIN OpTable THEN Fail(e, "ILLEGAL_VALUE")
            ELSE DecodeEntry(e, mem, regs, memory, op, OpTable[op])

(* The marker 'DEX1' followed by a drop. *)
DexMarker == Word(827868484)

(* Slip: one operation more. *)
TooManyLater(decoded) == decoded = MaxIterations + 1

(* decoded counts the operations before the last. *)
TooMany(decoded) == decoded = MaxIterations

(* next is what the operation made of e. *)
OpEvaluated(e, next, decoded) ==
    IF next.error # "NONE" THEN next
    ELSE IF TooMany(decoded) THEN Fail(next, "TOO_MANY_ITERATIONS")
    ELSE [next EXCEPT !.dex_pc_set = @ \/ (decoded = 1 /\ e.last = <<12, DexMarker>> /\ next.last = <<19>>)]

RECURSIVE OpEvalFrom(_, _, _, _, _, _)
OpEvalFrom(e, mem, end, regs, memory, decoded) ==
    IF e.error # "NONE" \/ e.at >= end THEN e
    ELSE OpEvalFrom(OpEvaluated(e, DecodeOp(e, mem, regs, memory), decoded), mem, end, regs, memory, decoded + 1)
OpEval(mem, start, end, regs, memory) ==
    OpEvalFrom([at |-> start, stack |-> << >>, is_register |-> FALSE, dex_pc_set |-> FALSE, last |-> << >>,
                error |-> "NONE"], mem, end, regs, memory, 0)

--------------------------------------------------------------------------------
(* Reference: expression trees, the code a compiler emits for them, and their
   value.  how picks among equivalent sequences of operations. *)
RECURSIVE ExprCode(_, _)
ExprCode(x, how) ==
    CASE x.op = "const" ->
           (CASE x.value \in 0..31 /\ how = 1 -> <<48 + x.value>>
              [] x.value >= 0 /\ how = 2 -> <<16>> \o PutULEB128(x.value)
              [] x.value >= 0 /\ how = 3 -> <<10>> \o PutBytes(x.value, 2)
              [] OTHER -> <<17>> \o PutSLEB128(x.value))
      [] x.op = "reg" -> IF how = 1 THEN <<112 + x.reg>> \o PutSLEB128(x.offset)
                         ELSE <<146>> \o PutULEB128(x.reg) \o PutSLEB128(x.offset)
      [] x.op = "load" -> ExprCode(x.of, how) \o <<6>>
      [] x.op = "unary" -> ExprCode(x.of, how) \o <<x.code>>
      [] x.op = "square" -> ExprCode(x.of, how) \o (IF how = 1 THEN <<18>> ELSE <<21, 0>>) \o <<30>>
      [] x.op = "binary" ->
           (CASE how = 1 -> ExprCode(x.a, how) \o ExprCode(x.b, how) \o <<x.code>>
              [] how = 2 -> ExprCode(x.b, how) \o ExprCode(x.a, how) \o <<22, x.code>>
              \* a, b, a copy of a below, then the copies turned round and dropped
              [] how = 3 -> ExprCode(x.a, how) \o ExprCode(x.b, how) \o <<20, 22, 150, x.code, 22, 19>>
              \* a, b and a filler that is turned below them
              [] how = 4 -> ExprCode(x.a, how) \o ExprCode(x.b, how) \o <<49, 23, x.code, 22, 19>>)
      \* bytes that are no operation, jumped over by a skip or a taken branch
      [] x.op = "over" -> (IF how = 1 THEN <<47, 3, 0>> ELSE <<53, 40, 3, 0>>) \o <<0, 7, 255>> \o ExprCode(x.of, how)

RECURSIVE ExprValue(_, _, _)
ExprValue(x, regs, memory) ==
    CASE x.op = "const" -> Word(x.value)
      [] x.op = "reg" -> Word(regs[x.reg] + x.offset)
      [] x.op = "over" -> ExprValue(x.of, regs, memory)
      [] x.op = "load" -> memory[ExprValue(x.of, regs, memory)]
      [] x.op = "unary" -> Word(Unary(x.code, ExprValue(x.of, regs, memory)))
      [] x.op = "square" -> Word(Times(ExprValue(x.of, regs, memory), ExprValue(x.of, regs, memory)))
      [] x.op = "binary" -> Word(Binary(x.code, ExprValue(x.a, regs, memory), ExprValue(x.b, regs, memory)))
================================================================================
