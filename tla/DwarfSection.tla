------------------------------ MODULE DwarfSection -----------------------------
(***************************************************************************)
(* A section of call-frame information (unwindstack/DwarfSection.cpp, with *)
(* DwarfEhFrame.h, DwarfDebugFrame.h and DwarfEhFrameWithHdr.cpp): its CIE *)
(* and FDE entries, the index of FDEs by pc, and the step from a frame to  *)
(* its caller, with the caches of rules that it keeps between steps.       *)
(*                                                                         *)
(* mem is the file's bytes.  sec is [kind, offset, size, bias], kind "eh"  *)
(* or "debug".  arch is [name, total, sp, pc].  The cached CIE and FDE     *)
(* records are functions of the bytes and are computed anew.               *)
(***************************************************************************)
EXTENDS DwarfOp, DwarfCfa

Bad == [ok |-> FALSE]
CieId(sec) == IF sec.kind = "eh" THEN 0 ELSE Word(-1)
SectionBases(sec, pc) == [NoBases EXCEPT !.data = sec.offset, !.pc = pc]

(* Length and id of an entry, 32-bit or 64-bit form. *)
EntryHeader(mem, at) ==
    LET head(length, id, wide) == IF ~length.ok \/ ~id.ok THEN Bad
                                  ELSE [ok |-> TRUE, id |-> id.value, at |-> id.next,
                                        end |-> length.next + length.value, wide |-> wide]
        narrow(length) == head(length, ReadBytes(mem, length.next, 4), FALSE)
        wide(length) == head(length, ReadBytes(mem, length.next, 8), TRUE)
        form(short) == IF short.ok /\ short.value = Word(-1) THEN wide(ReadBytes(mem, at + 4, 8)) ELSE narrow(short)
    IN form(ReadBytes(mem, at, 4))

(* One letter of the augmentation string; unknown ones are passed over. *)
Augment(mem, sec, c, letter) ==
    LET byte == ReadBytes(mem, c.at, 1)
        handler == ReadEncodedValue(mem, c.at + 1, byte.value, SectionBases(sec, sec.offset))
    IN CASE ~c.ok -> c
         [] letter = 76 -> [c EXCEPT !.ok = byte.ok, !.at = @ + 1, !.lsda_encoding = byte.value]
         [] letter = 80 -> [c EXCEPT !.ok = byte.ok /\ handler.ok, !.at = handler.next]
         [] letter = 82 -> [c EXCEPT !.ok = byte.ok, !.at = @ + 1, !.fde_address_encoding = byte.value]
         [] letter = 83 -> [c EXCEPT !.is_signal_frame = TRUE]
         [] OTHER -> c

(* The letters after a 'z', whose data has a length. *)
AugmentAll(mem, sec, cie, letters, length) ==
    LET augment(c, letter) == Augment(mem, sec, c, letter)
    IN IF ~length.ok THEN Bad
       ELSE FoldLeft(augment, [cie EXCEPT !.at = length.next, !.cfa_start = length.next + length.value,
                                          !.has_z = TRUE], letters)

(* The fields behind the augmentation string, which ends before sizes. *)
CieFields(mem, head, version, sizes) ==
    LET fields(caf, daf, ra) ==
            IF ~caf.ok \/ ~daf.ok \/ ~ra.ok THEN Bad
            ELSE [ok |-> TRUE, at |-> ra.next, cfa_start |-> ra.next, cfa_end |-> head.end, has_z |-> FALSE,
                  segment_size |-> IF version >= 4 THEN mem[sizes] ELSE 0,
                  code_alignment_factor |-> caf.value, data_alignment_factor |-> Signed(daf.value),
                  return_address_register |-> ra.value, is_signal_frame |-> FALSE,
                  lsda_encoding |-> DW_EH_PE_omit,
                  fde_address_encoding |-> IF head.wide THEN Formats.sdata8 ELSE Formats.sdata4]
        return(caf, daf) == fields(caf, daf, IF version = 1 THEN ReadBytes(mem, daf.next, 1) ELSE ReadULEB128(mem, daf.next))
        data(caf) == return(caf, ReadSLEB128(mem, caf.next))
    IN data(ReadULEB128(mem, sizes))

(* FillInCie, from the byte after the id. *)
FillInCie(mem, sec, head) ==
    LET zeros == {i \in head.at + 2..Len(mem) : mem[i] = 0}
        version == mem[head.at + 1]
        letters == SubSeq(mem, head.at + 2, Min(zeros))
        augmented(cie) == IF ~cie.ok \/ letters[1] # 122 THEN cie
                          ELSE AugmentAll(mem, sec, cie, Tail(letters), ReadULEB128(mem, cie.at))
    IN IF head.at >= Len(mem) \/ zeros = {} THEN Bad
       ELSE IF version \notin {1, 3, 4, 5} THEN Bad
       ELSE augmented(CieFields(mem, head, version, Min(zeros) + (IF version >= 4 THEN 2 ELSE 0)))

GetCieFromOffset(mem, sec, offset) ==
    LET filled(head) == IF ~head.ok THEN Bad ELSE IF head.id # CieId(sec) THEN Bad ELSE FillInCie(mem, sec, head)
    IN IF offset < 0 THEN Bad ELSE filled(EntryHeader(mem, offset))

GetCieOffsetFromFde(sec, head) ==
    IF sec.kind = "eh" THEN head.at - head.id - (IF head.wide THEN 8 ELSE 4) ELSE sec.offset + head.id

(* The field is taken to have four bytes. *)
AdjustPcFromFde(sec, pc, next) == IF sec.kind = "eh" THEN Word(pc + next - 4) ELSE Word(pc)

(* The augmentation data of an FDE: its length, then the LSDA, which is passed over. *)
FdeAugmented(mem, sec, fde, length) ==
    IF ~length.ok THEN Bad
    ELSE IF ~ReadEncodedValue(mem, length.next, fde.cie.lsda_encoding, SectionBases(sec, sec.offset)).ok THEN Bad
    ELSE [fde EXCEPT !.cfa_start = length.next + length.value]

FdeOfCie(mem, sec, head, cie) ==
    LET augmented(fde) == IF fde.ok /\ cie.has_z THEN FdeAugmented(mem, sec, fde, ReadULEB128(mem, fde.cfa_start)) ELSE fde
        ranged(start, pc_start, range) ==
            IF ~start.ok \/ ~range.ok THEN Bad
            ELSE [ok |-> TRUE, cie |-> cie, cie_offset |-> GetCieOffsetFromFde(sec, head), pc_start |-> pc_start,
                  pc_end |-> Word(pc_start + range.value), cfa_end |-> head.end, cfa_start |-> range.next]
        started(start) ==
            ranged(start, AdjustPcFromFde(sec, start.value, start.next),
                   ReadEncodedValue(mem, start.next, cie.fde_address_encoding, SectionBases(sec, 0)))
    IN IF ~cie.ok THEN Bad
       ELSE augmented(started(ReadEncodedValue(mem, head.at + cie.segment_size, cie.fde_address_encoding,
                                               SectionBases(sec, sec.bias))))
FillInFde(mem, sec, head) == FdeOfCie(mem, sec, head, GetCieFromOffset(mem, sec, GetCieOffsetFromFde(sec, head)))

GetFdeFromOffset(mem, sec, offset) ==
    LET filled(head) == IF ~head.ok THEN Bad ELSE IF head.id = CieId(sec) THEN Bad ELSE FillInFde(mem, sec, head)
    IN filled(EntryHeader(mem, offset))

--------------------------------------------------------------------------------
(* Slip: an entry that is already there does not cut the new one. *)
InsertFdeWhole(offset, start, end, fdes) ==
    IF start < end THEN (end :> [start |-> start, offset |-> offset]) @@ fdes ELSE fdes

(* The index maps an end pc to a start pc and an FDE offset.  Parts already
   covered keep their FDE. *)
RECURSIVE InsertFdeFrom(_, _, _, _)
InsertFdeFrom(offset, start, end, fdes) ==
    LET later == {e \in DOMAIN fdes : e > start}
        it == Min(later)
        new(upto) == upto :> [start |-> start, offset |-> offset]
    IN IF later # {} /\ start < end /\ fdes[it].start < end
       THEN InsertFdeFrom(offset, it, end,
                          IF start < fdes[it].start THEN new(fdes[it].start) @@ fdes ELSE fdes)
       ELSE IF start < end THEN new(end) @@ fdes ELSE fdes
InsertFde(offset, start, end, fdes) == InsertFdeFrom(offset, start, end, fdes)

(* BuildFdeIndex: entry after entry, until one cannot be read. *)
IndexStep(mem, sec, index) ==
    LET stop == [index EXCEPT !.done = TRUE]
        cie(head, entry) == IF ~entry.ok THEN stop
                            ELSE [index EXCEPT !.offset = head.end, !.done = head.end < entry.at]
        fde(head, entry) ==
            IF ~entry.ok THEN stop
            ELSE [offset |-> head.end, done |-> head.end < entry.cfa_start,
                  fdes |-> InsertFde(index.offset, entry.pc_start, entry.pc_end, index.fdes)]
        entry(head) == IF ~head.ok THEN stop
                       ELSE IF head.id = CieId(sec) THEN cie(head, FillInCie(mem, sec, head))
                       ELSE fde(head, FillInFde(mem, sec, head))
    IN IF index.offset >= sec.offset + sec.size THEN stop ELSE entry(EntryHeader(mem, index.offset))
RECURSIVE BuildFdeIndex(_, _, _)
BuildFdeIndex(mem, sec, index) ==
    IF index.done THEN index.fdes ELSE BuildFdeIndex(mem, sec, IndexStep(mem, sec, index))

GetFdeFromPc(mem, sec, pc) ==
    LET reaching(fde) == IF ~fde.ok THEN Bad ELSE IF fde.pc_start <= pc THEN fde ELSE Bad
        search(fdes) == LET later == {e \in DOMAIN fdes : e > pc}
                        IN IF later = {} THEN Bad ELSE reaching(GetFdeFromOffset(mem, sec, fdes[Min(later)].offset))
    IN search(BuildFdeIndex(mem, sec, [offset |-> sec.offset, fdes |-> << >>, done |-> FALSE]))

--------------------------------------------------------------------------------
(* .eh_frame_hdr: a sorted table of (pc, FDE offset) pairs. *)
HdrInit(mem, at) ==
    LET table == mem[at + 4]
        counted(count) == IF ~count.ok \/ count.value = 0 THEN Bad
                          ELSE [ok |-> TRUE, table |-> table, count |-> count.value, entries |-> count.next, at |-> at]
        pointed(ptr) == IF ~ptr.ok THEN Bad
                        ELSE counted(ReadEncodedValue(mem, ptr.next, mem[at + 3], [NoBases EXCEPT !.data = at, !.pc = ptr.next]))
    IN IF at + 4 > Len(mem) THEN Bad
       ELSE IF mem[at + 1] # 1 \/ GetEncodedSize(table) = 0 THEN Bad
       ELSE pointed(ReadEncodedValue(mem, at + 4, mem[at + 2], [NoBases EXCEPT !.data = at, !.pc = at + 4]))

(* The table's bytes are there for every index of the inputs. *)
GetFdeInfoFromIndex(mem, sec, hdr, index) ==
    LET bases == [NoBases EXCEPT !.data = hdr.at, !.pc = 0]
        entry(pc) == [pc |-> Word(pc.value + (IF hdr.table \div 16 \in 1..4 THEN sec.bias ELSE 0)),
                      offset |-> ReadEncodedValue(mem, pc.next, hdr.table, bases).value]
    IN entry(ReadEncodedValue(mem, hdr.entries + 2 * index * GetEncodedSize(hdr.table), hdr.table, bases))

(* Slip: the last entry is never looked at. *)
HdrSearchShort(mem, sec, hdr, pc) ==
    Cardinality({i \in 0..hdr.count - 2 : GetFdeInfoFromIndex(mem, sec, hdr, i).pc <= pc})

RECURSIVE HdrSearchFrom(_, _, _, _, _, _)
HdrSearchFrom(mem, sec, hdr, pc, first, last) ==
    IF first >= last THEN last
    ELSE LET current == (first + last) \div 2
             at == GetFdeInfoFromIndex(mem, sec, hdr, current).pc
         IN IF pc = at THEN current + 1
            ELSE IF pc < at THEN HdrSearchFrom(mem, sec, hdr, pc, first, current)
            ELSE HdrSearchFrom(mem, sec, hdr, pc, current + 1, last)
(* How many entries of the table lead up to the pc; the last of them is its FDE. *)
HdrSearch(mem, sec, hdr, pc) == HdrSearchFrom(mem, sec, hdr, pc, 0, hdr.count)

(* DwarfEhFrameWithHdr::GetFdeFromPc: an empty FDE sends the search to the index. *)
HdrGetFdeFromPc(mem, sec, hdr, pc) ==
    LET reaching(fde) == IF ~fde.ok THEN Bad ELSE IF pc < fde.pc_end THEN fde ELSE Bad
        owner(listed) == IF ~listed.ok THEN Bad
                         ELSE reaching(IF listed.pc_start = listed.pc_end THEN GetFdeFromPc(mem, sec, pc) ELSE listed)
        led(found) == IF found = 0 THEN Bad
                      ELSE owner(GetFdeFromOffset(mem, sec, GetFdeInfoFromIndex(mem, sec, hdr, found - 1).offset))
    IN led(HdrSearch(mem, sec, hdr, pc))

--------------------------------------------------------------------------------
NoLocations == [regs |-> << >>, pc_start |-> 0, pc_end |-> 0]

(* cies caches the rules of each CIE: the result is [ok, locs, cies]. *)
GetCfaLocationInfo(mem, arch, pc, fde, cies) ==
    LET cached == fde.cie_offset \in DOMAIN cies
        first == GetLocationInfo(mem, fde, NoRules, arch.name, pc, fde.cie.cfa_start, fde.cie.cfa_end,
                                 NoLocations, << >>)
        known == IF cached THEN cies ELSE (fde.cie_offset :> first.locs) @@ cies
        second == GetLocationInfo(mem, fde, known[fde.cie_offset], arch.name, pc, fde.cfa_start, fde.cfa_end,
                                  IF cached THEN NoLocations ELSE first.locs,
                                  IF cached THEN << >> ELSE first.saved)
    IN IF ~cached /\ first.error # "NONE" THEN [ok |-> FALSE, locs |-> NoLocations, cies |-> cies]
       ELSE [ok |-> second.error = "NONE", locs |-> second.locs, cies |-> known]

EvalExpression(mem, loc, regs, memory) ==
    LET result(e) == IF e.error # "NONE" \/ e.stack = << >> \/ e.is_register THEN Bad
                     ELSE [ok |-> TRUE, value |-> e.stack[1], dex |-> e.dex_pc_set]
    IN result(OpEval(mem, loc.b - loc.a, loc.b, regs, memory))

(* The caller's value of a register; the registers it reads are the callee's. *)
EvalRegister(mem, loc, reg, cfa, regs, memory) ==
    LET read(addr) == IF addr \in DOMAIN memory THEN [ok |-> TRUE, value |-> memory[addr]] ELSE Bad
        expression(value) == IF loc.type = "EXPRESSION" /\ value.ok THEN read(value.value) ELSE value
    IN CASE loc.type = "OFFSET" -> read(Word(cfa + loc.a))
         [] loc.type = "VAL_OFFSET" -> [ok |-> TRUE, value |-> Word(cfa + loc.a)]
         [] loc.type = "REGISTER" -> IF loc.a \notin DOMAIN regs THEN Bad
                                     ELSE [ok |-> TRUE, value |-> Word(regs[loc.a] + loc.b)]
         [] loc.type \in {"EXPRESSION", "VAL_EXPRESSION"} -> expression(EvalExpression(mem, loc, regs, memory))
         [] loc.type = "UNDEFINED" -> [ok |-> TRUE, value |-> regs[reg]]
         [] loc.type = "PSEUDO_REGISTER" -> Bad

(* The CFA: only a register rule or an expression will do. *)
EvalCfa(mem, locs, regs, memory) ==
    LET loc == locs.regs[CFA_REG]
    IN IF CFA_REG \notin DOMAIN locs.regs THEN Bad
       ELSE IF loc.type \in {"REGISTER", "VAL_EXPRESSION"} THEN EvalRegister(mem, loc, CFA_REG, 0, regs, memory)
       ELSE Bad

(* Slip: registers are changed one after the other, so that a rule can read a
   register that already holds the caller's value. *)
RestoredInTurn(mem, locs, cfa, regs, memory) ==
    LET vals == [reg \in DOMAIN regs |-> [ok |-> TRUE, value |-> regs[reg]]]
        step(v, reg) == [v EXCEPT ![reg] = EvalRegister(mem, locs.regs[reg], reg, cfa,
                                                        [q \in DOMAIN regs |-> v[q].value], memory)]
    IN FoldLeft(step, vals, SetToSortSeq(DOMAIN locs.regs \cap DOMAIN regs, <))

(* Every register with a rule, read from the callee's registers. *)
Restored(mem, locs, cfa, regs, memory) ==
    [reg \in DOMAIN regs |-> IF reg \in DOMAIN locs.regs
                             THEN EvalRegister(mem, locs.regs[reg], reg, cfa, regs, memory)
                             ELSE [ok |-> TRUE, value |-> regs[reg]]]

NoFrame == [stepped |-> FALSE, finished |-> FALSE]

(* Eval.  Rules for registers the program does not know are skipped, but for the
   pseudo register of ARM64. *)
SectionEval(mem, arch, cie, locs, regs, memory) ==
    LET ra == cie.return_address_register
        lost == ra \in DOMAIN locs.regs /\ locs.regs[ra].type = "UNDEFINED"
        signed == IF RA_SIGN_STATE \in DOMAIN locs.regs THEN locs.regs[RA_SIGN_STATE].a ELSE 0
        frame(cfa, new) ==
            LET pc == IF lost THEN 0 ELSE new[ra].value
                values == [reg \in DOMAIN regs |-> new[reg].value]
            IN IF \E reg \in DOMAIN regs : ~new[reg].ok THEN NoFrame
               ELSE [stepped |-> TRUE, finished |-> pc = 0 /\ ~cie.is_signal_frame, signed |-> signed,
                     signal |-> cie.is_signal_frame,
                     regs |-> [values EXCEPT ![arch.pc] = pc, ![arch.sp] = cfa]]
        restored(cfa) == IF ~cfa.ok THEN NoFrame ELSE frame(cfa.value, Restored(mem, locs, cfa.value, regs, memory))
    IN IF ra \notin DOMAIN regs THEN NoFrame ELSE restored(EvalCfa(mem, locs, regs, memory))

(* The rules for a pc are kept under the end of their range. *)
CachedRows(cache, pc) ==
    LET later == {e \in DOMAIN cache.rows : e > pc}
    IN IF later = {} THEN {}
       ELSE {row \in {cache.rows[Min(later)]} : pc >= row.locs.pc_start}

EmptyCache == [rows |-> << >>, cies |-> << >>]

(* DwarfSection::Step: [result, cache].  fde is what GetFdeFromPc finds. *)
SectionStep(mem, arch, fde, pc, regs, memory, cache) ==
    LET hit == CachedRows(cache, pc)
        by(row, kept) == [result |-> SectionEval(mem, arch, row.cie, row.locs, regs, memory), cache |-> kept]
        \* emplace keeps a row that is already there
        found(info) ==
            LET rows == cache.rows @@ (info.locs.pc_end :> [cie |-> fde.cie, locs |-> info.locs])
            IN IF ~info.ok THEN [result |-> NoFrame, cache |-> [cache EXCEPT !.cies = info.cies]]
               ELSE by(rows[info.locs.pc_end], [rows |-> rows, cies |-> info.cies])
    IN IF hit # {} THEN by(CHOOSE r \in hit : TRUE, cache)
       ELSE IF ~fde.ok THEN [result |-> NoFrame, cache |-> cache]
       ELSE found(GetCfaLocationInfo(mem, arch, pc, fde, cache.cies))
================================================================================
