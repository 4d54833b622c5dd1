-------------------------------- MODULE DwarfCfa -------------------------------
(***************************************************************************)
(* The call-frame instructions of unwindstack/DwarfCfa.cpp: which rule     *)
(* gives each register of the caller at a pc.  A set of rules (locations)  *)
(* is [regs, pc_start, pc_end]: per register a rule [type, a, b], and the  *)
(* range of pcs it holds for.  The run is a record: cursor, cur_pc, rules, *)
(* remembered rules, error.  Log and its helpers, which only print, are    *)
(* left out.                                                               *)
(***************************************************************************)
EXTENDS DwarfMemory, TLC

CFA_REG == 65535
RA_SIGN_STATE == 34   \* pseudo register of ARM64
Block == 15  \* an operand that is a length and as many bytes

(* DwarfCfaInfo::kTable and kCallbackTable: the operands of each instruction
   that has a handler. *)
CfaOperands ==
    [op \in {0, 10, 11, 45} |-> << >>]
    @@ (1 :> <<Formats.absptr>>) @@ (2 :> <<Formats.udata1>>) @@ (3 :> <<Formats.udata2>>)
    @@ (4 :> <<Formats.udata4>>)
    @@ [op \in {6, 7, 8, 13, 14, 46} |-> <<Formats.uleb128>>]
    @@ [op \in {5, 9, 12, 20, 47} |-> <<Formats.uleb128, Formats.uleb128>>]
    @@ [op \in {17, 18, 21} |-> <<Formats.uleb128, Formats.sleb128>>]
    @@ (19 :> <<Formats.sleb128>>) @@ (15 :> <<Block>>)
    @@ [op \in {16, 22} |-> <<Formats.uleb128, Block>>]

Rule(type, a, b) == [type |-> type, a |-> a, b |-> b]
Undefined == Rule("UNDEFINED", 0, 0)
SignedWord(value) == IF 2 * value < DwarfSpace THEN value ELSE value - DwarfSpace

CfaFail(c, code) == [c EXCEPT !.error = code]
SetRule(c, reg, rule) == [c EXCEPT !.locs.regs = (reg :> rule) @@ @]
DropRule(c, reg) == [c EXCEPT !.locs.regs = [r \in DOMAIN @ \ {reg} |-> @[r]]]
Scaled(cie, operand) == Word(SignedWord(operand) * cie.data_alignment_factor)
Advance(c, cie, count) == [c EXCEPT !.cur_pc = Word(@ + count * cie.code_alignment_factor)]

(* Back to the rule of the CIE.  initial is its rules, or NoRules while the CIE's
   own program runs. *)
NoRules == [none |-> TRUE]
cfa_restore(c, initial, reg) ==
    IF initial = NoRules THEN CfaFail(c, "ILLEGAL_STATE")
    ELSE IF reg \in DOMAIN initial.regs THEN SetRule(c, reg, initial.regs[reg])
    ELSE DropRule(c, reg)

cfa_remember_state(c) == [c EXCEPT !.saved = <<c.locs>> \o @]

(* Everything remembered comes back, the start of its range included. *)
cfa_restore_state(c) ==
    IF c.saved = << >> THEN c ELSE [c EXCEPT !.locs = Head(c.saved), !.saved = Tail(@)]

(* def_cfa_register and def_cfa_offset change a rule that must be a register. *)
ChangeCfa(c, field, value) ==
    IF CFA_REG \notin DOMAIN c.locs.regs \/ c.locs.regs[CFA_REG].type # "REGISTER"
    THEN CfaFail(c, "ILLEGAL_STATE") ELSE SetRule(c, CFA_REG, [c.locs.regs[CFA_REG] EXCEPT ![field] = value])

cfa_aarch64_negate_ra_state(c, arch) ==
    IF arch # "ARM64" THEN CfaFail(c, "ILLEGAL_VALUE")
    ELSE LET old == IF RA_SIGN_STATE \in DOMAIN c.locs.regs THEN c.locs.regs[RA_SIGN_STATE].a ELSE 0
         IN SetRule(c, RA_SIGN_STATE, Rule("PSEUDO_REGISTER", 1 - old, 0))

(* One instruction of the table, its operands v read; end is the cursor after it. *)
CfaHandle(c, cie, initial, arch, op, v, end) ==
    CASE op \in {0, 46} -> c
      [] op = 1 -> [c EXCEPT !.cur_pc = v[1]]
      [] op \in {2, 3, 4} -> Advance(c, cie, v[1])
      [] op = 5 -> SetRule(c, v[1], Rule("OFFSET", v[2], 0))
      [] op = 6 -> cfa_restore(c, initial, v[1])
      [] op = 7 -> SetRule(c, v[1], Undefined)
      [] op = 8 -> DropRule(c, v[1])
      [] op = 9 -> SetRule(c, v[1], Rule("REGISTER", v[2], 0))
      [] op = 10 -> cfa_remember_state(c)
      [] op = 11 -> cfa_restore_state(c)
      [] op = 12 -> SetRule(c, CFA_REG, Rule("REGISTER", v[1], v[2]))
      [] op = 13 -> ChangeCfa(c, "a", v[1])
      [] op = 14 -> ChangeCfa(c, "b", v[1])
      [] op = 15 -> SetRule(c, CFA_REG, Rule("VAL_EXPRESSION", v[1], end))
      [] op = 16 -> SetRule(c, v[1], Rule("EXPRESSION", v[2], end))
      [] op = 17 -> SetRule(c, v[1], Rule("OFFSET", Scaled(cie, v[2]), 0))
      [] op = 18 -> SetRule(c, CFA_REG, Rule("REGISTER", v[1], Scaled(cie, v[2])))
      [] op = 19 -> ChangeCfa(c, "b", Scaled(cie, v[1]))
      [] op \in {20, 21} -> SetRule(c, v[1], Rule("VAL_OFFSET", Scaled(cie, v[2]), 0))
      [] op = 22 -> SetRule(c, v[1], Rule("VAL_EXPRESSION", v[2], end))
      [] op = 45 -> cfa_aarch64_negate_ra_state(c, arch)
      [] op = 47 -> SetRule(c, v[1], Rule("OFFSET", Word(-SignedWord(v[2])), 0))

(* The operands of an instruction; a block is skipped and its length kept. *)
ReadCfaOperands(mem, at, formats) ==
    LET none == [pc |-> NoBase, text |-> NoBase, data |-> NoBase, func |-> NoBase]
        skipped(read) == [read EXCEPT !.next = @ + read.value]
        more(r, format) ==
            IF ~r.ok THEN r
            ELSE WithOperand(r, IF format = Block THEN skipped(ReadULEB128(mem, r.next))
                                ELSE ReadEncodedValue(mem, r.next, format, none))
    IN FoldLeft(more, NoOperands(at), formats)

CfaStep(c, mem, cie, initial, arch) ==
    LET byte == mem[c.at + 1]
        low == byte % 64
        past == [c EXCEPT !.at = @ + 1]
        offset(leb) == IF ~leb.ok THEN CfaFail(c, "MEMORY_INVALID")
                       ELSE SetRule([c EXCEPT !.at = leb.next], low, Rule("OFFSET", Scaled(cie, leb.value), 0))
        handled(read) == IF ~read.ok THEN CfaFail(c, "MEMORY_INVALID")
                         ELSE CfaHandle([c EXCEPT !.at = read.next], cie, initial, arch, low, read.values, read.next)
    IN IF c.at \notin 0..Len(mem) - 1 THEN CfaFail(c, "MEMORY_INVALID")
       ELSE CASE byte \div 64 = 1 -> Advance(past, cie, low)
              [] byte \div 64 = 2 -> offset(ReadULEB128(mem, c.at + 1))
              [] byte \div 64 = 3 -> cfa_restore(past, initial, low)
              [] byte \div 64 = 0 ->
                   IF low \notin DOMAIN CfaOperands THEN CfaFail(c, "ILLEGAL_VALUE")
                   ELSE handled(ReadCfaOperands(mem, c.at + 1, CfaOperands[low]))

(* Slip: the range takes in the next row's first pc. *)
ClosedLate(c, end) == [c EXCEPT !.locs.pc_end = end + 1]

(* The rules are complete; their range ends before end. *)
Closed(c, end) == [c EXCEPT !.locs.pc_end = end]

RECURSIVE CfaRun(_, _, _, _, _, _, _)
CfaRun(c, mem, fde, initial, arch, pc, end) ==
    IF c.error # "NONE" THEN c
    ELSE IF c.cur_pc > pc THEN Closed(c, c.cur_pc)
    ELSE IF c.at >= end THEN Closed(c, fde.pc_end)
    ELSE CfaRun(CfaStep([c EXCEPT !.locs.pc_start = c.cur_pc], mem, fde.cie, initial, arch),
                mem, fde, initial, arch, pc, end)

(* The rules at a pc: locs are those so far, saved what is remembered so far. *)
GetLocationInfo(mem, fde, initial, arch, pc, start, end, locs, saved) ==
    LET regs == IF initial = NoRules THEN locs.regs ELSE initial.regs @@ locs.regs
    IN CfaRun([at |-> start, cur_pc |-> fde.pc_start, saved |-> saved, error |-> "NONE",
               locs |-> [locs EXCEPT !.regs = regs, !.pc_start = fde.pc_start]],
              mem, fde, initial, arch, pc, end)
================================================================================
