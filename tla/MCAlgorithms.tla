------------------------------ MODULE MCAlgorithms -----------------------------
(***************************************************************************)
(* Every algorithm of the unwinder and of the hook on its tasks.           *)
(***************************************************************************)
EXTENDS MCUnwind, MCHook

(* The kinds with the cheapest tasks are asked first, so that what fails there fails early. *)
CheapKinds == {"armIndex", "arm", "call", "symbol", "file", "capture", "schedule", "mappings", "config", "block"}
AllKinds == DecoderKinds \cup ImageKinds \cup HookKinds
Init == Asked(CheapKinds) \/ Asked(AllKinds \ CheapKinds)
Next == EvaluateDecoder \/ EvaluateImage \/ EvaluateHook
Spec == Init /\ [][Next]_vars

(* A step of the unwinder gives the registers the caller had: by ARM's exception index,
   by DWARF call-frame information, out of a signal handler, and into the call a return
   address comes from; a signal frame that cannot be read whole is refused, with exactly
   the registers overwritten that the read reached. *)
CallerRestored == ArmFrameRestored /\ DwarfFrameRestored /\ SignalFrameRestored /\ AdjustedIntoCall

(* The unwind tables are read as they were written: numbers, pointers and expressions
   have the value that was encoded, searches and caches lead to the entry and the rules
   that a plain reading of the whole table leads to, and evaluation ends. *)
TablesRead ==
    /\ PointersReadBack /\ ExpressionValue /\ EvaluationBounded
    /\ ArmEntryCovers /\ RowsHoldInRange /\ IndexLeadsToFirst /\ TableLeadsToOwner

(* An address is taken to the image, the place in it and the function it belongs to,
   whichever headers can be read, in whichever order maps and names are asked for, and
   after the maps have changed, but for a mapping that only its file offset tells from
   the one it replaces: that one keeps the old offset. *)
AddressesPlaced ==
    /\ MapsFollowKernel /\ PcsPlaced /\ OneElf
    /\ HeadersAgree /\ BuildIdFound /\ PartsSuffice /\ SymbolNamed

(* A reader gives the bytes that are there, up to the first it cannot read, through
   pages, cache, strings, stitched ranges and views of a file; past that byte it goes on
   only in a read of more pages than one call of process_vm_readv takes. *)
MemoryExact == ReadsExact /\ StringsExact /\ RangesExact /\ FileViewExact

(* A stack is captured and shown as it is: the frames in their order without a gap,
   from the caller of the allocator on, and what is left out is told. *)
StacksShown == ChainShown /\ ChainWhole /\ WalkExact /\ CaptureHonest /\ ReportStartsAtCaller

(* A sample is the footprint as it stood: every buffer, page and line of the kernel's
   files once, on the grid, and a peak is missed only for as long as the cache says;
   where a file cannot be read the last figure is carried, and the driver's counter is
   given up only by the errors that give it up. *)
SamplesTrue ==
    /\ InodesOnce /\ NoPageTwice /\ CounterLatched /\ FilesReadExactly
    /\ ScheduleOnGrid /\ PeakAsItStood /\ PeakMissedOnlyStale

(* A report adds up, is about the instant it says and attributes resident bytes to
   their mappings, and writing one rung's report leaves the others as they were. *)
ReportsTrue == ReportAddsUp /\ RungsReported /\ ReportTagged /\ MappingsAttributed

(* What was asked for is what happens: the two readers of the environment agree on the
   mode, an interval is lost only where an unsigned cannot hold it, and a block of a given
   size and alignment lies inside its mapping. *)
RequestsHeld == ModesAgree /\ BlockInMapping
================================================================================
