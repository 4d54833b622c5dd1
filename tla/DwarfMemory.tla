------------------------------ MODULE DwarfMemory ------------------------------
(***************************************************************************)
(* The cursor of unwindstack/DwarfMemory.cpp: LEB128 numbers and encoded   *)
(* pointers.  The section is a sequence of bytes, offset 0 first; a read   *)
(* gives [ok, value, next], next being the cursor after it.  Values are    *)
(* taken modulo DwarfSpace.                                                *)
(***************************************************************************)
EXTENDS Integers, Sequences, FiniteSets, SequencesExt

CONSTANTS
    DwarfSpace,   \* number of values of an unsigned word, 2^64 in the program
    PointerSize   \* sizeof(AddressType), in bytes
ASSUME DwarfSpaceAssumption == DwarfSpace \in Nat \ {0}
ASSUME PointerSizeAssumption == PointerSize \in Nat \ {0}

NoBase == -1  \* an offset that has not been set

(* DwarfEncoding: the value's form in the low bits, its base above them. *)
Formats == [ absptr |-> 0, uleb128 |-> 1, udata2 |-> 2, udata4 |-> 3, udata8 |-> 4,
             sleb128 |-> 9, sdata2 |-> 10, sdata4 |-> 11, sdata8 |-> 12,
             udata1 |-> 13, sdata1 |-> 14 ]
Bases == [ abs |-> 0, pcrel |-> 16, textrel |-> 32, datarel |-> 48, funcrel |-> 64 ]
DW_EH_PE_aligned == 80
DW_EH_PE_omit == 255

Word(value) == value % DwarfSpace
Got(value, next) == [ok |-> TRUE, value |-> Word(value), next |-> next]
NoRead(next) == [ok |-> FALSE, value |-> 0, next |-> next]

(* 256^n as far as it counts modulo DwarfSpace. *)
RECURSIVE ByteWeight(_)
ByteWeight(n) == IF n = 0 THEN Word(1) ELSE Word(256 * ByteWeight(n - 1))

(* ReadBytes of a little-endian number. *)
ReadBytes(mem, at, count) ==
    IF at + count > Len(mem) THEN NoRead(at)
    ELSE Got(SumFunction([i \in 1..count |-> Word(mem[at + i] * ByteWeight(i - 1))]), at + count)

(* ReadSigned: the number's top bit is its sign. *)
ReadSigned(mem, at, count) ==
    LET extended(read) == IF read.ok /\ mem[read.next] >= 128 THEN [read EXCEPT !.value = Word(@ - ByteWeight(count))]
                          ELSE read
    IN extended(ReadBytes(mem, at, count))

RECURSIVE SevenBits(_)
SevenBits(n) == IF n = 0 THEN Word(1) ELSE Word(128 * SevenBits(n - 1))

(* The last byte of the number that starts at the cursor, 0 when there is none. *)
LebEnd(mem, at) ==
    LET ends == {i \in at + 1..Len(mem) : mem[i] < 128}
    IN IF ends = {} THEN 0 ELSE Min(ends)
LebValue(mem, at, end) ==
    SumFunction([i \in 1..end - at |-> Word((mem[at + i] % 128) * SevenBits(i - 1))])

ReadULEB128(mem, at) ==
    LET end == LebEnd(mem, at)
    IN IF end = 0 THEN NoRead(Len(mem)) ELSE Got(LebValue(mem, at, end), end)

(* Slip: the sign is taken from bit 7 of the last byte, which is never set. *)
ReadSLEB128Unsigned(mem, at) ==
    LET end == LebEnd(mem, at)
    IN IF end = 0 THEN NoRead(Len(mem)) ELSE Got(LebValue(mem, at, end), end)

ReadSLEB128(mem, at) ==
    LET end == LebEnd(mem, at)
        sign == IF mem[end] >= 64 THEN SevenBits(end - at) ELSE 0
    IN IF end = 0 THEN NoRead(Len(mem)) ELSE Got(LebValue(mem, at, end) - sign, end)

(* The size of a format that can be searched by bisection, else 0. *)
GetEncodedSize(encoding) ==
    LET format == encoding % 16
    IN CASE format = Formats.absptr -> PointerSize
         [] format \in {Formats.udata1, Formats.sdata1} -> 1
         [] format \in {Formats.udata2, Formats.sdata2} -> 2
         [] format \in {Formats.udata4, Formats.sdata4} -> 4
         [] format \in {Formats.udata8, Formats.sdata8} -> 8
         [] OTHER -> 0

(* bases gives the pc, text, data and func offsets. *)
AdjustEncodedValue(base, bases, read) ==
    LET add(offset) == IF offset = NoBase THEN NoRead(read.next)
                       ELSE [read EXCEPT !.value = Word(@ + offset)]
    IN CASE base = Bases.abs -> read
         [] base = Bases.pcrel -> add(bases.pc)
         [] base = Bases.textrel -> add(bases.text)
         [] base = Bases.datarel -> add(bases.data)
         [] base = Bases.funcrel -> add(bases.func)
         [] OTHER -> NoRead(read.next)

ReadFormat(mem, at, format) ==
    CASE format = Formats.uleb128 -> ReadULEB128(mem, at)
      [] format = Formats.sleb128 -> ReadSLEB128(mem, at)
      [] format \in {Formats.sdata1, Formats.sdata2, Formats.sdata4, Formats.sdata8} ->
           ReadSigned(mem, at, GetEncodedSize(format))
      [] GetEncodedSize(format) = 0 -> NoRead(at)
      [] OTHER -> ReadBytes(mem, at, GetEncodedSize(format))

(* A cursor rounded up to the next pointer. *)
Aligned(at) == ((at + PointerSize - 1) \div PointerSize) * PointerSize

ReadEncodedValue(mem, at, encoding, bases) ==
    IF encoding = DW_EH_PE_omit THEN Got(0, at)
    ELSE IF encoding = DW_EH_PE_aligned THEN ReadBytes(mem, Aligned(at), PointerSize)
    ELSE LET adjusted(read) == IF ~read.ok THEN read
                               ELSE AdjustEncodedValue(16 * ((encoding \div 16) % 8), bases, read)
         IN adjusted(ReadFormat(mem, at, encoding % 16))

(* The operands of an operation are read one after the other, as far as they can be:
   r is [ok, values, next], read the next of them. *)
NoOperands(at) == [ok |-> TRUE, values |-> << >>, next |-> at]
WithOperand(r, read) ==
    IF read.ok THEN [r EXCEPT !.values = Append(@, read.value), !.next = read.next] ELSE [r EXCEPT !.ok = FALSE]

--------------------------------------------------------------------------------
(* Reference: what an assembler writes. *)
RECURSIVE PutULEB128(_)
PutULEB128(value) == IF value < 128 THEN <<value>>
                     ELSE <<(value % 128) + 128>> \o PutULEB128(value \div 128)

(* value may be negative. *)
RECURSIVE PutSLEB128(_)
PutSLEB128(value) == IF value \in -64..63 THEN <<value % 128>>
                     ELSE <<(value % 128) + 128>> \o PutSLEB128(value \div 128)

PutBytes(value, count) == [i \in 1..count |-> IF i > 3 THEN (IF value < 0 THEN 255 ELSE 0)
                                              ELSE (value \div 256^(i - 1)) % 256]

(* The bytes of value in a format, << >> when it cannot hold the value. *)
PutFormat(value, format) ==
    LET holds(low, high, count) == IF value \in low..high THEN PutBytes(value, count) ELSE << >>
    IN CASE format = Formats.absptr -> holds(0, DwarfSpace - 1, PointerSize)
         [] format = Formats.uleb128 -> IF value >= 0 THEN PutULEB128(value) ELSE << >>
         [] format = Formats.sleb128 -> PutSLEB128(value)
         [] format = Formats.udata1 -> holds(0, 255, 1)
         [] format = Formats.sdata1 -> holds(-128, 127, 1)
         [] format = Formats.udata2 -> holds(0, 65535, 2)
         [] format = Formats.sdata2 -> holds(-32768, 32767, 2)
         [] format = Formats.udata4 -> holds(0, DwarfSpace - 1, 4)
         [] format = Formats.sdata4 -> holds(-DwarfSpace, DwarfSpace - 1, 4)
         [] format = Formats.udata8 -> holds(0, DwarfSpace - 1, 8)
         [] format = Formats.sdata8 -> holds(-DwarfSpace, DwarfSpace - 1, 8)

(* What the program reads back from an encoded pointer is the address that was
   encoded, whatever the format and base, and the cursor stands after it. *)
EncodedReadBack(value, format, base, bases, padding) ==
    LET offset == CASE base = Bases.abs -> 0 [] base = Bases.pcrel -> bases.pc
                    [] base = Bases.datarel -> bases.data [] OTHER -> 0
        bytes == PutFormat(value, format)
        read == ReadEncodedValue(padding \o bytes \o <<255>>, Len(padding), format + base, bases)
    IN bytes # << >> => read = Got(value + offset, Len(padding) + Len(bytes))
================================================================================
