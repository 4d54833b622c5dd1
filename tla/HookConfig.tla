------------------------------- MODULE HookConfig ------------------------------
(***************************************************************************)
(* What the environment asks of the hook (Config.cpp), and where the       *)
(* blocks handed out before libc's allocator is known lie in their         *)
(* mappings (alloc_hook.cpp).  The text of a variable is the number it     *)
(* parses to, Malformed, or Unset.                                         *)
(***************************************************************************)
EXTENDS Integers, Sequences, FiniteSetsExt, SequencesExt

CONSTANTS
    UnsignedSpace,        \* an unsigned has values below it
    DefaultPeakSampleMs,  \* kDefaultPeakSampleMs
    PeakMinSize,          \* kPeakRecordingMinSizeBytes
    MiB,                  \* 1024 * 1024
    SizeMax,              \* SIZE_MAX
    HeaderSize, HeaderAlign, PointerAlign, MapPage

Unset == -2
Malformed == -1

(* A value that did not parse leaves 0 behind. *)
Parsed(text) == text >= 0
ValueOf(text) == IF Parsed(text) THEN text ELSE 0

ParseCaptureMode(text) == IF text = "accurate" THEN "Accurate" ELSE "Fast"

(* The first positive interval a host framework published, in the order of environ. *)
Positive(text) == text > 0
FindExternalSampleIntervalMs(published) ==
    IF \E i \in DOMAIN published : Positive(published[i])
    THEN published[Min({i \in DOMAIN published : Positive(published[i])})]
    ELSE 0

(* Slip: a step asks for a report under any interval, also an adopted one. *)
ObserveOnlyRequestedAnyStep(env) ==
    LET interval == IF Parsed(env.interval) THEN env.interval ELSE FindExternalSampleIntervalMs(env.published)
        requested == ~Positive(env.floor) /\ ~(interval > 0 /\ Positive(env.step)) /\ interval > 0
    IN [requested |-> requested, interval |-> IF requested THEN interval % UnsignedSpace ELSE 0]
ObserveOnlyRequested(env) ==
    LET interval == IF Parsed(env.interval) THEN env.interval ELSE FindExternalSampleIntervalMs(env.published)
        requested == ~Positive(env.floor) /\ ~(Positive(env.interval) /\ Positive(env.step)) /\ interval > 0
    IN [requested |-> requested, interval |-> IF requested THEN interval % UnsignedSpace ELSE 0]

MinSize(env, record_peak) ==
    LET min_size == IF Parsed(env.min) THEN env.min ELSE env.platform
    IN IF record_peak /\ ~Parsed(env.min) /\ min_size = 0 THEN PeakMinSize ELSE min_size
ConfigInit(env) ==
    LET adopted == IF Parsed(env.interval) THEN 0 ELSE FindExternalSampleIntervalMs(env.published)
        floor == ValueOf(env.floor)
        step == ValueOf(env.step)
        record_peak == floor > 0 \/ (Positive(env.interval) /\ step > 0)
    IN [options |-> {"BACKTRACE_SPECIFIC_SIZES", "TRACK_ALLOCS", "DUMP_ON_SINGAL"}
                    \cup IF record_peak THEN {"RECORD_MEMORY_PEAK", "BACKTRACE"} ELSE {},
        capture_mode |-> ParseCaptureMode(env.mode),
        min_size |-> MinSize(env, record_peak),
        step_bytes |-> (step * MiB) % (SizeMax + 1),
        peak_val |-> (floor * MiB) % (SizeMax + 1),
        retention |-> IF floor > 0 THEN "FirstCrossing" ELSE "ChaseMax",
        dump_on_exit |-> record_peak,
        sample_ms |-> IF ~record_peak THEN 0
                      ELSE IF Parsed(env.interval) THEN env.interval % UnsignedSpace
                      ELSE IF adopted > 0 THEN adopted % UnsignedSpace
                      ELSE DefaultPeakSampleMs]

--------------------------------------------------------------------------------
(* Blocks before the allocator is known. *)

IsPowerOfTwo(n) == n \in {2^i : i \in 0..30}
CheckedAdd(a, b) == IF b > SizeMax - a THEN -1 ELSE a + b
RoundUp(n, to) == ((n + to - 1) \div to) * to
PageAlign(size) == IF size > SizeMax - (MapPage - 1) THEN 0 ELSE RoundUp(size, MapPage)

(* Slip: no room is asked for to move the payload up to its alignment. *)
BootstrapTotalTight(size, alignment) == CheckedAdd(HeaderSize, size)
BootstrapTotal(size, alignment) ==
    LET payload == CheckedAdd(HeaderSize, size)
    IN IF payload = -1 THEN -1 ELSE CheckedAdd(payload, alignment - 1)
Refuse(errno) == [error |-> errno, payload |-> 0, header |-> 0, map_size |-> 0]
(* The kernel puts the mapping at base, or has no room for it: the errno is then its own. *)
BootstrapAlignedMalloc(alignment, size, base, mappable) ==
    LET effective == Max({alignment, HeaderAlign})
        total == BootstrapTotal(size, effective)
        payload == RoundUp(base + HeaderSize, effective)
    IN IF ~IsPowerOfTwo(alignment) \/ alignment < PointerAlign THEN Refuse("EINVAL")
       ELSE IF total = -1 THEN Refuse("ENOMEM")
       ELSE IF PageAlign(total) = 0 THEN Refuse("ENOMEM")
       ELSE IF ~mappable THEN Refuse("MAP_FAILED")
       ELSE [error |-> "none", payload |-> payload, header |-> payload - HeaderSize, map_size |-> PageAlign(total)]
================================================================================
