----------------------------- MODULE ObservedSample ----------------------------
(***************************************************************************)
(* One reading of the process's footprint as an evaluator sees it: host    *)
(* resident bytes, device buffers and GPU mappings, with what the sampler  *)
(* carries from one reading to the next.                                   *)
(*                                                                         *)
(* A kernel is what the platform offers:                                   *)
(*   ion      per-process ION accounting in one file                       *)
(*   node     the KGSL byte counter: nodriver, denied, or served once the  *)
(*            process has opened the GPU                                   *)
(*   device   a GPU device node whose mappings are looked for              *)
(*   counted  whether VmRSS counts resident device pages                   *)
(* A world is the process at the time of a pass: anon, its anonymous pages *)
(* (0: status cannot be read); fds and maps, the buffers it has a          *)
(* descriptor of and those it maps; gpu, the device bytes it maps; warm,   *)
(* whether they are resident; opened, whether it has used the GPU; and     *)
(* fault, what goes wrong while it is read: open of the counter fails for  *)
(* a reason of the process's own (noopen), its text is no number           *)
(* (garbled), maps or smaps cannot be opened (nomaps, nosmaps).  A buffer  *)
(* is its size and its inode.                                              *)
(***************************************************************************)
EXTENDS Integers, Sequences, FiniteSets, SequencesExt, FiniteSetsExt

CONSTANTS Slots,            \* DmaInodeSet::kSlots
          MaxDeduped,       \* DmaInodeSet::kMaxDedupedBuffers
          Generations,      \* the stamps there are: 2^32
          MapRefresh        \* kMapRefreshSamples

NewInodeSet == [count |-> 0, overflowed |-> FALSE, generation |-> 0, stamp |-> [s \in 0..Slots - 1 |-> 0], inode |-> [s \in 0..Slots - 1 |-> 0]]

(* Slip: the stamps of an earlier round are left. *)
ResetDmaInodeSetWraps(set) == [set EXCEPT !.count = 0, !.overflowed = FALSE, !.generation = (@ + 1) % Generations]

ResetDmaInodeSet(set) ==
    LET next == (set.generation + 1) % Generations
    IN IF next = 0 THEN [set EXCEPT !.count = 0, !.overflowed = FALSE, !.generation = 1, !.stamp = [s \in DOMAIN @ |-> 0]]
       ELSE [set EXCEPT !.count = 0, !.overflowed = FALSE, !.generation = next]

(* The slots in the order they are probed. *)
Probe(inode, n) == (inode + n) % Slots

(* The first slot that is free or the inode's, of those probed. *)
InsertInode(set, inode) ==
    LET ends == {n \in 0..Slots - 1 : \/ set.stamp[Probe(inode, n)] # set.generation
                                      \/ set.inode[Probe(inode, n)] = inode}
        at == Probe(inode, Min(ends))
    IN IF set.count >= MaxDeduped \/ ends = {} THEN [set |-> [set EXCEPT !.overflowed = TRUE], new |-> TRUE]
       ELSE IF set.stamp[at] = set.generation THEN [set |-> set, new |-> FALSE]
       ELSE [set |-> [set EXCEPT !.stamp[at] = set.generation, !.inode[at] = inode, !.count = @ + 1], new |-> TRUE]

(* The bytes of the buffers met that the set does not know: of a descriptor
   (ReadDmaBytesFromFds) or of a mapping (DmaBytesFromMapsLine). *)
CountBuffers(set, buffers) ==
    FoldLeft(LAMBDA st, b : LET insert == InsertInode(st.set, b)
                            IN [set |-> insert.set, bytes |-> st.bytes + IF insert.new THEN b ELSE 0],
             [set |-> set, bytes |-> 0], SetToSortSeq(buffers, <))

--------------------------------------------------------------------------------
VmRss(kernel, w) == w.anon + IF kernel.counted /\ w.warm THEN w.gpu ELSE 0
DeviceRss(w) == IF w.warm THEN w.gpu ELSE 0

(* open of the KGSL counter. *)
OpenKgsl(kernel, w) ==
    CASE w.fault = "noopen" -> "EMFILE"
      [] w.fault # "noopen" /\ kernel.node = "denied" -> "EACCES"
      [] w.fault # "noopen" /\ kernel.node = "served" /\ w.opened -> "fd"
      [] OTHER -> "ENOENT"

(* Slip: a node that is not there yet is given up. *)
GivesUpAbsent(state, kernel, open) == state = "unknown" /\ open # "fd"

(* A counter that was never read is given up, unless its node is only not there yet. *)
GivesUp(state, kernel, open) ==
    /\ state = "unknown" /\ open # "fd"
    /\ open # "ENOENT" \/ kernel.node = "nodriver"

(* The KGSL counter, and what is known of it from then on. *)
ReadSelfKgslKernel(state, kernel, w) ==
    LET open == OpenKgsl(kernel, w)
        Fails(next) == [state |-> next, ok |-> FALSE, bytes |-> 0, denied |-> state # "unavailable" /\ open = "EACCES"]
    IN CASE state = "unavailable" -> Fails(state)
         [] state # "unavailable" /\ open # "fd" -> Fails(IF GivesUp(state, kernel, open) THEN "unavailable" ELSE state)
         [] state # "unavailable" /\ open = "fd" /\ w.fault = "garbled" -> Fails(state)
         [] OTHER -> [state |-> "active", ok |-> TRUE, bytes |-> w.gpu, denied |-> FALSE]

(* Slip: the mapping pass is not due before the peak is passed. *)
RunMapPassAbove(map, rss, fd, peak_total) == ~map.ever \/ rss + fd + map.bytes > peak_total + 1 \/ map.since >= MapRefresh

(* Slip: one sample more before the pass is due again. *)
RunMapPassLate(map, rss, fd, peak_total) == ~map.ever \/ rss + fd + map.bytes >= peak_total \/ map.since > MapRefresh

(* Whether the mapping pass is worth its cost in this sample. *)
RunMapPass(map, rss, fd, peak_total) == ~map.ever \/ rss + fd + map.bytes >= peak_total \/ map.since >= MapRefresh

(* The buffers' bytes: those held by a descriptor, and those only mapped, which are
   carried when the pass is skipped. *)
ReadSelfDmaBytesGated(st, kernel, rss, at_fds, at_maps) ==
    LET fds == CountBuffers(ResetDmaInodeSet(st.set), at_fds.fds)
        run == RunMapPass(st.map, rss, fds.bytes, st.peak.total)
        maps == CountBuffers(fds.set, IF at_maps.fault = "nomaps" THEN {} ELSE at_maps.maps)
    IN CASE kernel.ion -> [fd |-> FoldSet(+, 0, at_fds.fds), map |-> 0, cache |-> st.map, set |-> ResetDmaInodeSet(st.set)]
         [] ~kernel.ion /\ run ->
              [fd |-> fds.bytes, map |-> maps.bytes, cache |-> [bytes |-> maps.bytes, ever |-> TRUE, since |-> 0], set |-> maps.set]
         [] OTHER -> [fd |-> fds.bytes, map |-> st.map.bytes, cache |-> [st.map EXCEPT !.since = @ + 1], set |-> fds.set]

(* What of the device regions' pages VmRSS does not hold. *)
GpuBytesFromReading(all_rss, device_rss, vmrss) ==
    LET divergence == IF all_rss > vmrss THEN all_rss - vmrss ELSE 0
    IN IF divergence < device_rss THEN divergence ELSE device_rss

(* Slip: the figure of the first read is kept. *)
GpuSampleNeedsReadOnce(gpu, mapped) == ~gpu.have /\ mapped # 0

GpuSampleNeedsRead(gpu, mapped) == IF gpu.have THEN mapped # gpu.mapped_at ELSE mapped # 0

(* The GPU figure where there is no counter: read when the mapped total has changed,
   else carried, also when maps or smaps cannot be read. *)
ReadSelfGpuMmapBytesGated(gpu, kernel, rss, w) ==
    IF gpu.absent \/ ~kernel.device THEN [gpu EXCEPT !.absent = TRUE]
    ELSE IF w.fault \in {"nomaps", "nosmaps"} \/ ~GpuSampleNeedsRead(gpu, w.gpu) THEN gpu
    ELSE [gpu EXCEPT !.bytes = GpuBytesFromReading(w.anon + DeviceRss(w), DeviceRss(w), rss),
                     !.mapped_at = w.gpu, !.have = TRUE]

Total(sample) == sample.rss + sample.fd + sample.map + sample.gpu

NewSampler == [kgsl |-> "unknown", denials |-> 0, map |-> [bytes |-> 0, ever |-> FALSE, since |-> 0],
               gpu |-> [bytes |-> 0, mapped_at |-> 0, have |-> FALSE, absent |-> FALSE], set |-> NewInodeSet,
               sample |-> [valid |-> FALSE], peak |-> [total |-> 0, rss |-> 0, fd |-> 0, map |-> 0, gpu |-> 0], raised |-> FALSE]

(* A sample whose total is larger than any before is the peak, with its parts. *)
TakePeak(st) ==
    LET s == st.sample
    IN IF s.valid /\ Total(s) > st.peak.total
       THEN [st EXCEPT !.peak = [total |-> Total(s), rss |-> s.rss, fd |-> s.fd, map |-> s.map, gpu |-> s.gpu], !.raised = TRUE]
       ELSE [st EXCEPT !.raised = FALSE]

(* One round of ObservedPeakSampler::Run: the process is at_status while its status and
   its counter are read, at_fds in the descriptor pass and at_maps in those over its
   mappings. *)
TakeSample(st, kernel, at_status, at_fds, at_maps) ==
    LET kgsl == ReadSelfKgslKernel(st.kgsl, kernel, at_status)
        rss == IF kgsl.ok THEN at_status.anon ELSE VmRss(kernel, at_status)
        dma == ReadSelfDmaBytesGated(st, kernel, rss, at_fds, at_maps)
        gpu == IF kgsl.ok THEN st.gpu ELSE ReadSelfGpuMmapBytesGated(st.gpu, kernel, rss, at_maps)
        sample == [valid |-> TRUE, rss |-> rss, fd |-> dma.fd, map |-> dma.map, model |-> kgsl.ok,
                   gpu |-> IF kgsl.ok THEN kgsl.bytes ELSE IF gpu.absent THEN 0 ELSE gpu.bytes]
    IN TakePeak(IF VmRss(kernel, at_status) = 0 THEN [st EXCEPT !.sample = [valid |-> FALSE]]
                ELSE [st EXCEPT !.kgsl = kgsl.state, !.denials = @ + IF kgsl.denied THEN 1 ELSE 0, !.sample = sample,
                                !.set = dma.set, !.map = dma.cache, !.gpu = gpu])

--------------------------------------------------------------------------------
(* Slip: the next slot of the grid, whatever the sample cost. *)
NextSampleScheduleUncapped(previous, now, work, interval) ==
    LET next == previous + interval
        skip == IF next < now THEN ((now - next) \div interval) + 1 ELSE 0
    IN [next |-> next + skip * interval, skipped |-> skip, throttled |-> FALSE]

(* When the next sample is due: on the grid, not in the past, and no sooner than the
   last one took. *)
NextSampleSchedule(previous, now, work, interval) ==
    LET next == previous + interval
        late == IF next < now THEN ((now - next) \div interval) + 1 ELSE 0
        slot == next + late * interval
        capped == slot < now + work
        more == IF capped THEN (now + work - slot + interval - 1) \div interval ELSE 0
    IN [next |-> slot + more * interval, skipped |-> late + more, throttled |-> capped]
================================================================================
