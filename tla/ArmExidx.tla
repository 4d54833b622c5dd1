------------------------------- MODULE ArmExidx --------------------------------
(***************************************************************************)
(* One frame of ARM exception-index unwinding (unwindstack/ArmExidx.cpp    *)
(* and ElfInterfaceArm.cpp): lookup of the index entry, extraction of the  *)
(* unwind bytes, and their interpretation over registers and stack.        *)
(*                                                                         *)
(* A 32-bit word of the image is a tuple of four bytes, most significant   *)
(* first.  The stack holds one value per address that is readable.  The    *)
(* interpreter is a record: unread bytes, registers, cfa, status, pc_set.  *)
(* Log output is left out.                                                 *)
(***************************************************************************)
EXTENDS Integers, Sequences, FiniteSets, TLC, SequencesExt

CONSTANT ArmSpace  \* addresses are taken modulo this, 2^32 in the program
ASSUME ArmSpaceAssumption == ArmSpace \in Nat \ {0}

ARM_REG_SP == 13
ARM_REG_LR == 14
ARM_REG_PC == 15
ARM_OP_FINISH == 176  \* 0xb0

Wrap(address) == address % ArmSpace
Low(byte, bits) == byte % 2^bits
BitsOf(byte, shift) == {shift + i : i \in {j \in 0..7 : (byte \div 2^j) % 2 = 1}}

--------------------------------------------------------------------------------
(* The signed 31-bit offset of a word whose top bit is clear. *)
Prel31(word) ==
    LET v == word[1] * 2^24 + word[2] * 2^16 + word[3] * 2^8 + word[4]
    IN IF v < 2^30 THEN v ELSE (v - 2^30) - 2^30

Failed(status) == [status |-> status, data |-> << >>]
Extracted(bytes) ==
    [status |-> "NONE",
     data |-> IF Last(bytes) = ARM_OP_FINISH THEN bytes ELSE Append(bytes, ARM_OP_FINISH)]

(* The table words that follow the first bytes. *)
WithTable(elf, bytes, addr, words) ==
    IF words > 5 THEN Failed("MALFORMED")
    ELSE IF \E i \in 0..words - 1 : addr + 4 * i \notin DOMAIN elf THEN Failed("READ_FAILED")
    ELSE Extracted(bytes \o FlattenSeq([i \in 1..words |-> elf[addr + 4 * (i - 1)]]))

(* Unwind data kept apart from its index entry: compact or generic model. *)
OutOfLine(elf, addr) ==
    LET word == elf[addr]
    IN CASE word[1] >= 128 /\ Low(word[1], 4) = 0 -> WithTable(elf, Tail(word), addr, 0)
         [] word[1] >= 128 /\ Low(word[1], 4) \in {1, 2} ->
              WithTable(elf, SubSeq(word, 3, 4), addr + 4, word[2])
         [] word[1] >= 128 /\ Low(word[1], 4) > 2 -> Failed("INVALID_PERSONALITY")
         [] OTHER ->
              IF addr + 4 \notin DOMAIN elf THEN Failed("READ_FAILED")
              ELSE WithTable(elf, Tail(elf[addr + 4]), addr + 8, elf[addr + 4][1])

ExtractEntryData(elf, entry_offset) ==
    IF entry_offset % 2 # 0 THEN Failed("INVALID_ALIGNMENT")
    ELSE IF entry_offset + 4 \notin DOMAIN elf THEN Failed("READ_FAILED")
    ELSE LET word == elf[entry_offset + 4]
         IN CASE word = <<0, 0, 0, 1>> -> Failed("NO_UNWIND")
              [] word[1] >= 128 ->
                   IF Low(word[1], 4) # 0 THEN Failed("INVALID_PERSONALITY")
                   ELSE Extracted(Tail(word))
              [] OTHER ->
                   LET addr == entry_offset + 4 + Prel31(word)
                   IN IF addr \notin DOMAIN elf THEN Failed("READ_FAILED") ELSE OutOfLine(elf, addr)

--------------------------------------------------------------------------------
(* Reads registers in ascending order from the cfa on.  A read that fails
   leaves the ones before it read. *)
Popped(m, mem, mask) ==
    LET at(r) == Wrap(m.cfa + 4 * Cardinality({q \in mask : q < r}))
        bad == {r \in mask : at(r) \notin DOMAIN mem}
        read == {r \in mask : \A b \in bad : r < b}
    IN [m EXCEPT !.regs = [r \in DOMAIN @ |-> IF r \in read THEN mem[at(r)] ELSE @[r]],
                 !.cfa = Wrap(@ + 4 * Cardinality(read)),
                 !.status = IF bad = {} THEN @ ELSE "READ_FAILED"]

Moved(m, distance) == [m EXCEPT !.cfa = Wrap(@ + distance)]
Stopped(m, status) == [m EXCEPT !.status = status]

(* An instruction's next byte, and what is left behind it; after is what the
   instruction makes of the two. *)
Rest(m) == [m EXCEPT !.data = Tail(@)]
Operand(m, after) == IF m.data = << >> THEN Stopped(m, "TRUNCATED") ELSE after

DecodePrefix_10_00(m, mem, byte) ==
    LET op(n, second) ==
          LET mask == BitsOf(second, 4) \cup BitsOf(Low(byte, 4), 12)
              after == Popped(n, mem, mask)
          IN IF mask = {} THEN Stopped(n, "NO_UNWIND")
             ELSE IF after.status # "NONE" THEN after
             ELSE [after EXCEPT !.cfa = IF ARM_REG_SP \in mask THEN after.regs[ARM_REG_SP] ELSE @,
                                !.pc_set = @ \/ ARM_REG_PC \in mask]
    IN Operand(m, op(Rest(m), Head(m.data)))

DecodePrefix_10_01(m, byte) ==
    IF Low(byte, 4) \in {ARM_REG_SP, ARM_REG_PC} THEN Stopped(m, "RESERVED")
    ELSE [m EXCEPT !.cfa = m.regs[Low(byte, 4)]]

(* Slip: one register fewer. *)
DecodePrefix_10_10_Short(m, mem, byte) ==
    Popped(m, mem, (4..3 + Low(byte, 3)) \cup (IF Low(byte, 4) >= 8 THEN {ARM_REG_LR} ELSE {}))

DecodePrefix_10_10(m, mem, byte) ==
    Popped(m, mem, (4..4 + Low(byte, 3)) \cup (IF Low(byte, 4) >= 8 THEN {ARM_REG_LR} ELSE {}))

DecodePrefix_10_11_0001(m, mem) ==
    LET op(n, second) ==
          IF second = 0 \/ second >= 16 THEN Stopped(n, "SPARE") ELSE Popped(n, mem, BitsOf(second, 0))
    IN Operand(m, op(Rest(m), Head(m.data)))

(* The adjustment with a uleb128 operand (DecodePrefix_10_11_0010). *)
Uleb128Adjust(m) ==
    LET ends == {i \in 1..Len(m.data) : m.data[i] < 128}
        n == CHOOSE i \in ends : \A j \in ends : i <= j
        value == SumFunction([i \in 1..n |-> Low(m.data[i], 7) * 2^(7 * (i - 1))])
    IN IF ends = {} THEN [m EXCEPT !.data = << >>, !.status = "TRUNCATED"]
       ELSE Moved([m EXCEPT !.data = SubSeq(@, n + 1, Len(@))], 516 + 4 * value)

(* Coprocessor registers are skipped, not read. *)
Skips(m, unit, extra) == Operand(m, Moved(Rest(m), Low(Head(m.data), 4) * unit + extra))

DecodePrefix_10(m, mem, byte) ==
    LET high == (byte \div 16) % 4
        low == Low(byte, 4)
    IN CASE high = 0 -> DecodePrefix_10_00(m, mem, byte)
         [] high = 1 -> DecodePrefix_10_01(m, byte)
         [] high = 2 -> DecodePrefix_10_10(m, mem, byte)
         [] high = 3 /\ low = 0 -> Stopped(m, "FINISH")
         [] high = 3 /\ low = 1 -> DecodePrefix_10_11_0001(m, mem)
         [] high = 3 /\ low = 2 -> Uleb128Adjust(m)
         [] high = 3 /\ low = 3 -> Skips(m, 8, 12)
         [] high = 3 /\ low \in 4..7 -> Stopped(m, "SPARE")
         [] high = 3 /\ low >= 8 -> Moved(m, Low(byte, 3) * 8 + 12)

DecodePrefix_11_000(m, byte) ==
    LET pops(n, second) ==
          IF second = 0 \/ second >= 16 THEN Stopped(n, "SPARE")
          ELSE Moved(n, 4 * Cardinality(BitsOf(second, 0)))
    IN CASE Low(byte, 3) = 6 -> Skips(m, 8, 8)
         [] Low(byte, 3) = 7 -> Operand(m, pops(Rest(m), Head(m.data)))
         [] OTHER -> Moved(m, Low(byte, 3) * 8 + 8)

DecodePrefix_11_001(m, byte) ==
    IF Low(byte, 3) \in {0, 1} THEN Skips(m, 8, 8) ELSE Stopped(m, "SPARE")

DecodePrefix_11_010(m, byte) == Moved(m, Low(byte, 3) * 8 + 8)

DecodePrefix_11(m, byte) ==
    LET class == (byte \div 8) % 8
    IN CASE class = 0 -> DecodePrefix_11_000(m, byte)
         [] class = 1 -> DecodePrefix_11_001(m, byte)
         [] class = 2 -> DecodePrefix_11_010(m, byte)
         [] OTHER -> Stopped(m, "SPARE")

Decode(m, mem) ==
    LET op(n, byte) ==
          CASE byte < 64 -> Moved(n, Low(byte, 6) * 4 + 4)
            [] byte \in 64..127 -> Moved(n, -(Low(byte, 6) * 4 + 4))
            [] byte \in 128..191 -> DecodePrefix_10(n, mem, byte)
            [] OTHER -> DecodePrefix_11(n, byte)
        fresh == [m EXCEPT !.status = "NONE"]
    IN Operand(fresh, op(Rest(fresh), Head(m.data)))

RECURSIVE ExidxEval(_, _)
ExidxEval(m, mem) ==
    LET next == Decode(m, mem)
    IN IF next.status = "NONE" THEN ExidxEval(next, mem) ELSE next

--------------------------------------------------------------------------------
(* Slip: an entry is not found from its own address. *)
FindEntryAfter(addrs, pc) == Cardinality({j \in 1..Len(addrs) : addrs[j] < pc})

(* The binary search over the sorted index: the first and last of the code's
   loop; 0 when the address precedes every entry. *)
RECURSIVE FindEntryIn(_, _, _, _)
FindEntryIn(addrs, pc, first, last) ==
    IF first >= last THEN last
    ELSE LET current == (first + last) \div 2
             addr == addrs[current + 1]
         IN IF pc = addr THEN current + 1
            ELSE IF pc < addr THEN FindEntryIn(addrs, pc, first, current)
            ELSE FindEntryIn(addrs, pc, current + 1, last)
FindEntry(addrs, pc) == FindEntryIn(addrs, pc, 0, Len(addrs))

NoStep(regs, code) == [stepped |-> FALSE, finished |-> FALSE, regs |-> regs, error |-> code]

(* The error code of a step that failed. *)
ErrorFor(status) ==
    CASE status \in {"NONE", "NO_UNWIND", "FINISH"} -> "ERROR_NONE"
      [] status = "READ_FAILED" -> "ERROR_MEMORY_INVALID"
      [] OTHER -> "ERROR_UNWIND_INFO"

(* ElfInterfaceArm::StepExidx, from the entry found on. *)
StepExidx(elf, entry_offset, mem, regs) ==
    LET data == ExtractEntryData(elf, entry_offset)
        m == ExidxEval([data |-> data.data, regs |-> regs, cfa |-> regs[ARM_REG_SP],
                        status |-> "NONE", pc_set |-> FALSE], mem)
        status == IF data.status # "NONE" THEN data.status ELSE m.status
        reached == IF data.status # "NONE" THEN regs ELSE m.regs
        pc == IF m.pc_set THEN m.regs[ARM_REG_PC] ELSE m.regs[ARM_REG_LR]
    IN CASE status = "FINISH" ->
              [stepped |-> TRUE, finished |-> pc = 0, error |-> "ERROR_NONE",
               regs |-> [m.regs EXCEPT ![ARM_REG_SP] = m.cfa, ![ARM_REG_PC] = pc]]
         [] status = "NO_UNWIND" ->
              [stepped |-> TRUE, finished |-> TRUE, error |-> "ERROR_NONE", regs |-> reached]
         [] OTHER -> NoStep(reached, ErrorFor(status))

--------------------------------------------------------------------------------
(* Reference: what an ARM prologue does to registers and stack, and the unwind
   bytes the ARM exception-handling ABI gives for undoing it. *)
FP == 11

(* The machine after one prologue instruction.  mem holds the slots written. *)
ArmRun(s, i) ==
    CASE i.op \in {"push", "pushret"} ->
           LET sp == s.sp - 4 * Cardinality(i.mask)
               at(r) == sp + 4 * Cardinality({q \in i.mask : q < r})
               slots == [a \in {at(r) : r \in i.mask} |-> s.regs[CHOOSE r \in i.mask : at(r) = a]]
           IN [s EXCEPT !.sp = sp, !.mem = slots @@ @]
      [] i.op = "sub" -> [s EXCEPT !.sp = @ - 4 * i.words]
      [] i.op = "vpush" -> [s EXCEPT !.sp = @ - 8 * i.count]
      [] i.op = "vpushx" -> [s EXCEPT !.sp = @ - 8 * i.count - 4]
      [] i.op = "fp" -> [s EXCEPT !.regs[FP] = s.sp]

BitMask(regs, shift) == SumFunction([r \in regs |-> 2^(r - shift)])
PutWords(n) == IF n < 128 THEN <<n>> ELSE <<(n % 128) + 128, n \div 128>>

(* long asks for the two-byte form where there is a choice. *)
Undo(i, long) ==
    CASE i.op = "push" ->
           LET low == i.mask \cap 0..3
               high == i.mask \ low
               top == Cardinality(high \ {ARM_REG_LR}) + 3
           IN (IF low = {} THEN << >> ELSE <<177, BitMask(low, 0)>>)
              \o (IF high = {} THEN << >>
                  ELSE IF ~long /\ top > 3 /\ high \ {ARM_REG_LR} = 4..top
                  THEN <<(IF ARM_REG_LR \in high THEN 168 ELSE 160) + top - 4>>
                  ELSE <<128 + BitMask(high \cap 12..15, 12), BitMask(high \cap 4..11, 4)>>)
      [] i.op = "pushret" -> \* the slot of the link register is popped into the pc
           LET high == (i.mask \ {ARM_REG_LR}) \cup {ARM_REG_PC}
           IN <<128 + BitMask(high \cap 12..15, 12), BitMask(high \cap 4..11, 4)>>
      [] i.op = "sub" -> IF i.words > 128 THEN <<178>> \o PutWords(i.words - 129)
                         ELSE IF i.words > 64 THEN <<63, i.words - 65>> ELSE <<i.words - 1>>
      [] i.op = "vpush" -> IF long THEN <<201, 128 + i.count - 1>> ELSE <<208 + i.count - 1>>
      [] i.op = "vpushx" -> IF long THEN <<179, 128 + i.count - 1>> ELSE <<184 + i.count - 1>>
      [] i.op = "fp" -> <<144 + FP>>

(* Nothing set aside after the frame pointer needs undoing. *)
UpToFp(prologue) ==
    LET fps == {i \in DOMAIN prologue : prologue[i].op = "fp"}
    IN IF fps = {} THEN prologue ELSE SubSeq(prologue, 1, Max(fps))
UndoAll(prologue, long) ==
    LET steps == UpToFp(prologue)
    IN FlattenSeq(Reverse([i \in DOMAIN steps |-> Undo(steps[i], long)]))

Padded(bytes, count) == bytes \o [i \in 1..count - Len(bytes) |-> ARM_OP_FINISH]
WordsFor(bytes, first) == IF Len(bytes) <= first THEN 0 ELSE (Len(bytes) - first + 3) \div 4

(* An image whose index entry at 0 leads to the bytes, in one of four forms. *)
Image(bytes, form) ==
    LET table(head, at) ==
          LET words == WordsFor(bytes, 4 - Len(head))
              all == Padded(bytes, 4 - Len(head) + 4 * words)
              text == head \o all
          IN [a \in {at + 4 * k : k \in 0..words} |-> SubSeq(text, a - at + 1, a - at + 4)]
        far == 4 :> <<0, 0, 0, 12>>
    IN CASE form = "inline" -> 4 :> <<128>> \o Padded(bytes, 3)
         [] form = "short" -> far @@ table(<<128>>, 16)
         [] form = "long" -> far @@ table(<<129, WordsFor(bytes, 2)>>, 16)
         [] form = "generic" -> far @@ 16 :> <<0, 0, 1, 0>> @@ table(<<WordsFor(bytes, 3)>>, 20)
Fits(bytes, form) == form \in {"inline", "short"} => Len(bytes) <= 3

ArmCaller == [regs |-> [r \in 0..15 |-> 1000 + r], sp |-> 8000, mem |-> << >>]
ArmBody(prologue) ==
    LET s == FoldLeft(ArmRun, ArmCaller, prologue)
        saved == UNION {prologue[i].mask : i \in {j \in DOMAIN prologue : prologue[j].op \in {"push", "pushret"}}}
        hasFp == \E i \in DOMAIN prologue : prologue[i].op = "fp"
        lost == IF hasFp THEN saved \ {FP} ELSE saved
        \* With a frame pointer the body may move the stack pointer at will.
        sp == IF hasFp THEN s.sp - 24 ELSE s.sp
    IN [s EXCEPT !.regs = [r \in 0..15 |-> CASE r = ARM_REG_SP -> sp
                                             [] r \in lost -> 7
                                             [] OTHER -> @[r]]]

(* The step from the body of a function with this prologue. *)
ArmStepFrom(prologue, long, form) ==
    LET body == ArmBody(prologue)
    IN StepExidx(Image(UndoAll(prologue, long), form), 0, body.mem, body.regs)
ArmUnwound == [stepped |-> TRUE, finished |-> FALSE, error |-> "ERROR_NONE",
               regs |-> [r \in 0..15 |-> CASE r = ARM_REG_SP -> 8000
                                           [] r = ARM_REG_PC -> 1000 + ARM_REG_LR
                                           [] OTHER -> 1000 + r]]
================================================================================
