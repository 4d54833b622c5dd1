------------------------------- MODULE ElfHeaders ------------------------------
(***************************************************************************)
(* What the unwinder takes from an ELF file's headers                      *)
(* (unwindstack/ElfInterface.cpp).  The same facts are read twice: with    *)
(* the whole file when it is unwound, and by themselves when only the load *)
(* bias or the build id is asked for.                                      *)
(*                                                                         *)
(* An elf is [ph, phread, sh, shread, shstrndx]: program headers           *)
(* [type, exec, offset, vaddr, memsz] and how many can be read; section    *)
(* headers [type, name, offset, addr, size], the first one being null, and *)
(* the numbers of those that can be read (from 0).  Sums of addresses that *)
(* overflow are left out.                                                  *)
(***************************************************************************)
EXTENDS Integers, Sequences, FiniteSets, SequencesExt, FiniteSetsExt

NoPart == [offset |-> 0, bias |-> 0, size |-> 0]
Part(h) == [offset |-> h.offset, bias |-> h.vaddr - h.offset, size |-> h.memsz]
SectionPart(s) == [offset |-> s.offset, bias |-> s.addr - s.offset, size |-> s.size]

NoHeaders == [bias |-> 0, loads |-> {}, hdr |-> NoPart, eh |-> NoPart, debug |-> NoPart, dynamic |-> NoPart,
              gnu |-> NoPart, data |-> NoPart, text |-> NoPart, buildid |-> NoPart, symtabs |-> << >>, strtabs |-> << >>]

(* ElfInterface::GetLoadBias, by itself. *)
RECURSIVE LoadBiasFrom(_, _)
LoadBiasFrom(elf, i) ==
    IF i > Len(elf.ph) \/ i > elf.phread THEN 0
    ELSE IF elf.ph[i].type = "LOAD" /\ elf.ph[i].exec THEN elf.ph[i].vaddr - elf.ph[i].offset
    ELSE LoadBiasFrom(elf, i + 1)
GetLoadBias(elf) == LoadBiasFrom(elf, 1)

(* Slip: every executable segment sets the bias. *)
HandleProgramHeaderLast(st, h) ==
    CASE h.type = "LOAD" /\ h.exec -> [st EXCEPT !.loads = @ \cup {[start |-> h.vaddr, end |-> h.vaddr + h.memsz]}, !.bias = h.vaddr - h.offset]
      [] h.type = "EH_FRAME" -> [st EXCEPT !.hdr = Part(h)]
      [] h.type = "DYNAMIC" -> [st EXCEPT !.dynamic = Part(h)]
      [] OTHER -> st

(* The switch of ReadProgramHeaders: the first executable segment sets the bias. *)
HandleProgramHeader(st, h) ==
    CASE h.type = "LOAD" /\ h.exec ->
           [st EXCEPT !.loads = @ \cup {[start |-> h.vaddr, end |-> h.vaddr + h.memsz]},
                      !.bias = IF st.loads = {} THEN h.vaddr - h.offset ELSE @]
      [] h.type = "EH_FRAME" -> [st EXCEPT !.hdr = Part(h)]
      [] h.type = "DYNAMIC" -> [st EXCEPT !.dynamic = Part(h)]
      [] OTHER -> st
ReadProgramHeaders(elf, st) ==
    FoldLeft(HandleProgramHeader, st, SubSeq(elf.ph, 1, IF Len(elf.ph) < elf.phread THEN Len(elf.ph) ELSE elf.phread))

(* The names of sections can be read. *)
NamesKnown(elf) == elf.shstrndx < Len(elf.sh) /\ elf.shstrndx \in elf.shread
HandleSection(elf, st, s) ==
    LET linked == s.link < Len(elf.sh) /\ s.link \in elf.shread /\ elf.sh[s.link + 1].type = "STRTAB"
    IN CASE s.type = "SYMTAB" -> IF linked THEN [st EXCEPT !.symtabs = Append(@, s.offset)] ELSE st
         [] s.type \in {"PROGBITS", "NOBITS"} /\ NamesKnown(elf) ->
              CASE s.name = ".debug_frame" -> [st EXCEPT !.debug = SectionPart(s)]
                [] s.name = ".eh_frame" -> [st EXCEPT !.eh = SectionPart(s)]
                [] s.name = ".eh_frame_hdr" -> IF st.hdr.offset = 0 THEN [st EXCEPT !.hdr = SectionPart(s)] ELSE st
                [] s.name = ".gnu_debugdata" -> [st EXCEPT !.gnu = SectionPart(s)]
                [] s.name = ".data" -> [st EXCEPT !.data = SectionPart(s)]
                [] s.name = ".text" -> [st EXCEPT !.text = SectionPart(s)]
                [] OTHER -> st
         [] s.type = "STRTAB" -> [st EXCEPT !.strtabs = Append(@, [addr |-> s.addr, offset |-> s.offset])]
         [] s.type = "NOTE" /\ NamesKnown(elf) /\ s.name = ".note.gnu.build-id" -> [st EXCEPT !.buildid = SectionPart(s)]
         [] OTHER -> st
(* The headers from number i on, up to one that cannot be read. *)
RECURSIVE SectionsFrom(_, _, _)
SectionsFrom(elf, st, i) ==
    IF i >= Len(elf.sh) \/ i \notin elf.shread THEN st
    ELSE SectionsFrom(elf, HandleSection(elf, st, elf.sh[i + 1]), i + 1)
ReadSectionHeaders(elf, st) == SectionsFrom(elf, st, 1)
ReadAllHeaders(elf) == ReadSectionHeaders(elf, ReadProgramHeaders(elf, NoHeaders))

(* GetBuildIDInfo, by itself. *)
RECURSIVE BuildIDInfoFrom(_, _)
BuildIDInfoFrom(elf, i) ==
    IF i >= Len(elf.sh) \/ i \notin elf.shread THEN NoPart
    ELSE IF elf.sh[i + 1].type = "NOTE" /\ elf.sh[i + 1].name = ".note.gnu.build-id" THEN SectionPart(elf.sh[i + 1])
    ELSE BuildIDInfoFrom(elf, i + 1)
GetBuildIDInfo(elf) == IF NamesKnown(elf) THEN BuildIDInfoFrom(elf, 1) ELSE NoPart

--------------------------------------------------------------------------------
(* Notes, as bytes: three words, the name and the description, padded to four. *)
NoId == << >>
NoteWord(bytes, o) == bytes[o + 1] + 256 * bytes[o + 2]
PaddedTo4(n) == ((n + 3) \div 4) * 4

(* Slip: the name's padding is not skipped. *)
AfterNameUnpadded(o, namesz) == o + 12 + namesz
AfterName(o, namesz) == o + 12 + PaddedTo4(namesz)

(* ReadBuildID and ReadBuildIDFromMemory over a section of `size` bytes. *)
RECURSIVE BuildIDFrom(_, _, _)
BuildIDFrom(bytes, size, o) ==
    LET namesz == NoteWord(bytes, o)
        descsz == NoteWord(bytes, o + 4)
        name == SubSeq(bytes, o + 13, o + 12 + namesz)
        desc == AfterName(o, namesz)
    IN IF o >= size \/ size - o < 12 \/ size - (o + 12) < namesz THEN NoId
       ELSE IF namesz > 0 /\ name \in {<<71, 78, 85, 0>>, <<71, 78, 85>>} /\ NoteWord(bytes, o + 8) = 3
       THEN IF (desc <= size /\ size - desc < descsz) \/ descsz = 0 \/ desc + descsz > Len(bytes) THEN NoId
            ELSE SubSeq(bytes, desc + 1, desc + descsz)
       ELSE BuildIDFrom(bytes, size, desc + PaddedTo4(descsz))
ReadBuildID(bytes, size) == BuildIDFrom(bytes, size, 0)

--------------------------------------------------------------------------------
(* Slip: where the table of contents cannot be used, nothing is. *)
InitHeadersStrict(st, good) ==
    [eh |-> IF st.hdr.offset # 0 THEN (IF {"eh", "hdr"} \subseteq good THEN "hdr" ELSE "none")
            ELSE IF st.eh.offset # 0 /\ "eh" \in good THEN "eh" ELSE "none",
     debug |-> st.debug.offset # 0 /\ "debug" \in good]

(* InitHeaders: good names the parts whose Init succeeds.  The table of contents is
   used when it and the section can be, the section alone otherwise. *)
InitHeaders(st, good) ==
    [eh |-> IF st.hdr.offset # 0 /\ {"eh", "hdr"} \subseteq good THEN "hdr"
            ELSE IF st.eh.offset # 0 /\ "eh" \in good THEN "eh" ELSE "none",
     debug |-> st.debug.offset # 0 /\ "debug" \in good]

(* The switch at the end of Step. *)
ExternalError(code) ==
    CASE code \in {"ILLEGAL_VALUE", "ILLEGAL_STATE", "STACK_INDEX_NOT_VALID", "TOO_MANY_ITERATIONS",
                   "CFA_NOT_DEFINED", "NO_FDES"} -> "UNWIND_INFO"
      [] code \in {"NOT_IMPLEMENTED", "UNSUPPORTED_VERSION"} -> "UNSUPPORTED"
      [] OTHER -> code

(* ElfInterface::Step: parts tried in turn; results gives what each would answer. *)
StepParts(sections, results) ==
    LET parts == (IF sections.debug THEN <<"debug">> ELSE << >>) \o (IF sections.eh # "none" THEN <<sections.eh>> ELSE << >>)
                 \o (IF "gnu" \in DOMAIN results THEN <<"gnu">> ELSE << >>)
        stepped == {i \in DOMAIN parts : results[parts[i]] = "OK"}
    IN IF stepped # {} THEN [by |-> parts[Min(stepped)], error |-> "NONE"]
       ELSE [by |-> "none", error |-> IF parts = << >> THEN "NONE" ELSE ExternalError(results[parts[1]])]

--------------------------------------------------------------------------------
(* Reference: an assembler of notes [name, type, desc]. *)
PadTo4(bytes) == bytes \o [i \in 1..PaddedTo4(Len(bytes)) - Len(bytes) |-> 0]
Le4(n) == <<n, 0, 0, 0>>
NoteBytes(notes) ==
    FoldLeft(LAMBDA all, n : all \o Le4(Len(n.name)) \o Le4(Len(n.desc)) \o Le4(n.type) \o PadTo4(n.name) \o PadTo4(n.desc), << >>, notes)
================================================================================
