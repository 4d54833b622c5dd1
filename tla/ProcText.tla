-------------------------------- MODULE ProcText -------------------------------
(***************************************************************************)
(* Reading the kernel's per-process files line by line.  The sampler's     *)
(* readers (ObservedMemory.cpp) stream a file through a buffer of fixed    *)
(* size and give up a line that does not fit; the report's reader          *)
(* (PointerData.cpp) keeps as much as a line needs.  A line is what the    *)
(* parsers tell apart, with the length of its text; sizes are in kB.       *)
(***************************************************************************)
EXTENDS Integers, Sequences, FiniteSetsExt, SequencesExt, TLC

CONSTANT ReadBuffer  \* sizeof(buffer)

Anonymous == [node |-> "[anonymous]", rest |-> "", file |-> FALSE]
Line(is, text, path, kb) == [is |-> is, text |-> text, path |-> path, kb |-> kb, decimal |-> TRUE]
Fragment == Line("text", 0, Anonymous, 0)

(* The file's characters: the k-th of line i is <<i, k>>, its newline the last. *)
CharsOf(lines) == FlattenSeq([i \in DOMAIN lines |-> [k \in 1..lines[i].text + 1 |-> <<i, k>>]])
Newlines(lines, buffer) == {n \in DOMAIN buffer : buffer[n][2] = lines[buffer[n][1]].text + 1}

(* The lines that end in the buffer, each from the character it is read from, and the
   rest that is held for the next read. *)
RECURSIVE TakeLines(_, _, _)
TakeLines(lines, buffer, seen) ==
    LET newlines == Newlines(lines, buffer)
    IN IF newlines = {} THEN [seen |-> seen, held |-> buffer]
       ELSE TakeLines(lines, SubSeq(buffer, Min(newlines) + 1, Len(buffer)),
                      Append(seen, [line |-> buffer[1][1], from |-> buffer[1][2]]))

(* A line that fills the buffer is dropped, and what the scan knew with it. *)
Dropped == [line |-> 0, from |-> 0]
(* Slip: a line that fills the buffer is held, and leaves no room to read. *)
CarryFull(taken) == taken
Carry(taken) ==
    IF Len(taken.held) >= ReadBuffer - 1 THEN [seen |-> Append(taken.seen, Dropped), held |-> << >>] ELSE taken

(* reads says how much each read returns at most, over and over. *)
RECURSIVE StreamFrom(_, _, _, _, _)
StreamFrom(lines, chars, held, seen, reads) ==
    LET got == Min({Head(reads), ReadBuffer - Len(held) - 1, Len(chars)})
        taken == Carry(TakeLines(lines, held \o SubSeq(chars, 1, got), seen))
    IN IF got = 0 THEN seen
       ELSE StreamFrom(lines, SubSeq(chars, got + 1, Len(chars)), taken.held, taken.seen, Append(Tail(reads), Head(reads)))
LineSeen(lines, piece) == IF piece.from = 1 THEN lines[piece.line] ELSE Fragment
OverLines(Op(_, _), Reset(_), start, lines, reads) ==
    FoldLeft(LAMBDA st, piece : IF piece = Dropped THEN Reset(st) ELSE Op(st, LineSeen(lines, piece)),
             start, StreamFrom(lines, CharsOf(lines), << >>, << >>, reads))

GpuNodePaths == {"/dev/kgsl-3d0", "/dev/kgsl", "/kgsl-3d0", "/kgsl"}
IsGpuNodePath(path) == path.node \in GpuNodePaths /\ path.rest \in {"", " (deleted)"}
InGpuRegion(line) == line.path # Anonymous /\ IsGpuNodePath(line.path)

GpuMmapBytesFromSmapsLine(scan, line) ==
    CASE line.is = "header" -> [scan EXCEPT !.in = InGpuRegion(line), !.region = line.kb]
      [] line.is = "Rss" /\ scan.in ->
           [scan EXCEPT !.in = FALSE, !.total = @ + IF scan.region > line.kb THEN scan.region - line.kb ELSE 0]
      [] OTHER -> scan
ReadGpuMmapBytesFrom(lines, reads) ==
    OverLines(GpuMmapBytesFromSmapsLine, LAMBDA scan : [scan EXCEPT !.in = FALSE, !.region = 0],
              [in |-> FALSE, region |-> 0, total |-> 0], lines, reads).total

GpuMappedBytesFromMapsLine(line) == IF line.is = "header" /\ InGpuRegion(line) THEN line.kb ELSE 0
ReadGpuMappedBytesFrom(lines, reads) ==
    OverLines(LAMBDA total, line : total + GpuMappedBytesFromMapsLine(line), LAMBDA total : total, 0, lines, reads)

GpuSmapsLine(into, line) ==
    CASE line.is = "header" ->
           [into EXCEPT !.in_device = InGpuRegion(line), !.mapped = @ + IF InGpuRegion(line) THEN line.kb ELSE 0]
      [] line.is = "Rss" -> [into EXCEPT !.all_rss = @ + line.kb, !.device_rss = @ + IF into.in_device THEN line.kb ELSE 0]
      [] OTHER -> into
ReadGpuSmapsReading(lines, reads) ==
    OverLines(GpuSmapsLine, LAMBDA into : [into EXCEPT !.in_device = FALSE],
              [in_device |-> FALSE, mapped |-> 0, all_rss |-> 0, device_rss |-> 0], lines, reads)

(* The file of the ION driver has a line per buffer: whose it is and its size. *)
ReadIonProcInfoBytesFrom(lines, pid, reads) ==
    OverLines(LAMBDA total, line : total + IF line.is = "buffer" /\ line.path.node = pid THEN line.kb ELSE 0,
              LAMBDA total : total, 0, lines, reads)

(* CollectMappingRss: a header is known by its first character, a decimal digit. *)
(* Slip: a region without a name leaves the last name in place. *)
CurrentNamed(line, current) == IF line.path = Anonymous THEN current ELSE line.path
CurrentMapping(line, current) == line.path
CollectLine(st, line) ==
    CASE line.is \in {"Rss", "Size"} ->
           LET was == IF st.current \in DOMAIN st.by THEN st.by[st.current] ELSE [Rss |-> 0, Size |-> 0]
               owner == IF st.current.file THEN "file" ELSE "anon"
           IN [st EXCEPT !.by = (st.current :> [was EXCEPT ![line.is] = @ + line.kb]) @@ @,
                         !.totals = [@ EXCEPT ![owner][line.is] = @ + line.kb]]
      [] line.is = "header" /\ line.decimal -> [st EXCEPT !.current = CurrentMapping(line, st.current)]
      [] OTHER -> st
CollectMappingRss(lines, top_n) ==
    LET none == [Rss |-> 0, Size |-> 0]
        st == FoldLeft(CollectLine, [by |-> << >>, current |-> Anonymous, totals |-> [file |-> none, anon |-> none]], lines)
        sorted == SortSeq(SetToSeq({[path |-> p, rss |-> st.by[p].Rss, size |-> st.by[p].Size] : p \in DOMAIN st.by}),
                          LAMBDA a, b : a.rss > b.rss)
    IN [ranked |-> SubSeq(sorted, 1, Min({top_n, Len(sorted)})), totals |-> st.totals]

--------------------------------------------------------------------------------
(* What the kernel writes of a region: a header with its first digit, its size, its
   resident part and a field no reader asks for. *)
SmapsOf(regions) ==
    FlattenSeq([i \in DOMAIN regions |->
        LET r == regions[i]
        IN <<[Line("header", r.text, r.path, r.size) EXCEPT !.decimal = r.decimal], Line("Size", 3, Anonymous, r.size),
             Line("Rss", 2, Anonymous, r.rss), Line("text", 1, Anonymous, 0)>>])
SumOf(regions, Of(_)) == FoldLeft(LAMBDA sum, r : sum + Of(r), 0, regions)
================================================================================
