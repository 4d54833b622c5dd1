------------------------------- MODULE UnwindLoop ------------------------------
(***************************************************************************)
(* The loop of Unwinder::Unwind: which frames of a call chain are kept.    *)
(*                                                                         *)
(* A world is the sequence of the chain's places, innermost first, and one *)
(* more that is none of its frames.  A place has                           *)
(*   map:  plain, device, stack (the stack is a device's), none, or a name *)
(*         to skip at the start (skip) or to stop at (suffix)              *)
(*   step: what stepping from it does: table and signal lead to the next   *)
(*         place, finish ends the chain, same changes nothing, fail fails  *)
(*   lr:   where the return address register leads                         *)
(*   exit: its function is one to end at;  dex: a dex pc is set in it      *)
(***************************************************************************)
EXTENDS Integers, Sequences, FiniteSets, SequencesExt

Started == [pc |-> 1, sp |-> 1, frames |-> << >>, error |-> "NONE", attempt |-> FALSE, adjust |-> FALSE,
            skipping |-> TRUE, dexed |-> 0, ended |-> FALSE]

Mapped(world, pc) == world[pc].map # "none"

(* What ends before a frame is added: a map with a suffix to stop at. *)
StopsBefore(world, st) == world[st.pc].map = "suffix"

(* The frames with that of the place, behind the dex frame where there is one;
   a frame is not added where the dex frame was the last that fits. *)
DexFrame(world, st) == IF world[st.pc].dex /\ st.dexed # st.pc THEN <<[at |-> st.pc, kind |-> "dex", adjusted |-> FALSE]>> ELSE << >>
RealFrame(world, st) == <<[at |-> st.pc, kind |-> "real", adjusted |-> st.adjust /\ Mapped(world, st.pc)]>>

(* elf->StepIfSignalHandler, elf->Step *)
Steps(world, st) ==
    /\ world[st.pc].map \notin {"none", "device", "stack"}
    /\ world[st.pc].step # "fail"
Finishes(world, st) == Steps(world, st) /\ world[st.pc].step = "finish"

(* Slip: the pc of a signal frame stays adjusted. *)
ReadjustedNot(world, st, frames) == frames

(* The pc of a signal frame is not adjusted. *)
Readjusted(world, st, frames) ==
    IF frames # << >> /\ Steps(world, st) /\ world[st.pc].step = "signal"
    THEN [frames EXCEPT ![Len(frames)].adjusted = FALSE] ELSE frames

(* Slip: the speculative frame is left. *)
RemoveSpeculativeNot(world, frames) == frames

(* More than two frames, or a first frame in a map, tell that the chain was sound. *)
RemoveSpeculative(world, frames) ==
    IF Len(frames) > 2 \/ (Len(frames) > 0 /\ Mapped(world, frames[1].at)) THEN Front(frames) ELSE frames

(* What follows when stepping failed. *)
AfterFailure(world, st) ==
    CASE st.attempt -> [st EXCEPT !.frames = RemoveSpeculative(world, @), !.ended = TRUE]
      [] ~st.attempt /\ world[st.pc].map \in {"device", "stack"} -> [st EXCEPT !.ended = TRUE]
      [] ~st.attempt /\ world[st.pc].map \notin {"device", "stack"} /\ world[st.pc].lr = st.pc -> [st EXCEPT !.ended = TRUE]
      [] OTHER -> [st EXCEPT !.pc = world[st.pc].lr, !.attempt = TRUE]

AfterStep(world, st, max_frames) ==
    LET same == world[st.pc].step = "same"
        full == Len(st.frames) = max_frames
    IN [st EXCEPT !.pc = IF same THEN @ ELSE @ + 1, !.sp = IF same THEN @ ELSE st.pc + 1, !.attempt = FALSE,
                  !.error = IF same THEN "REPEATED_FRAME" ELSE IF full THEN "MAX_FRAMES_EXCEEDED" ELSE @,
                  !.ended = same]

(* last_error_: a failed attempt at the return address hides no earlier error. *)
ErrorNow(world, st) ==
    CASE world[st.pc].map = "none" -> IF st.attempt /\ st.error # "NONE" THEN st.error ELSE "INVALID_MAP"
      [] world[st.pc].map \in {"device", "stack"} -> st.error
      [] OTHER -> IF Steps(world, st) THEN "NONE" ELSE "UNWIND_INFO"

(* One round of the loop. *)
Round(world, st, max_frames) ==
    LET ignored == Mapped(world, st.pc) /\ st.skipping /\ world[st.pc].map = "skip"
        dexed == IF ignored THEN st.frames ELSE st.frames \o DexFrame(world, st)
        noroom == ~ignored /\ dexed # st.frames /\ Len(dexed) = max_frames
        framed == IF ignored THEN dexed ELSE Readjusted(world, st, dexed \o RealFrame(world, st))
        now == [st EXCEPT !.frames = framed, !.adjust = TRUE, !.skipping = @ /\ ignored,
                          !.dexed = IF ignored THEN @ ELSE st.pc,
                          !.error = ErrorNow(world, st)]
    IN CASE StopsBefore(world, st) -> [st EXCEPT !.ended = TRUE]
         [] ~StopsBefore(world, st) /\ noroom -> [st EXCEPT !.frames = dexed, !.error = "MAX_FRAMES_EXCEEDED", !.ended = TRUE]
         [] OTHER ->
              CASE ~ignored /\ Mapped(world, st.pc) /\ world[st.pc].exit -> [now EXCEPT !.error = "EXIT_FUNC", !.ended = TRUE]
                [] OTHER -> IF Finishes(world, st) THEN [now EXCEPT !.ended = TRUE]
                            ELSE IF Steps(world, st) THEN AfterStep(world, now, max_frames)
                            ELSE AfterFailure(world, now)

RECURSIVE UnwindFrom(_, _, _)
UnwindFrom(world, st, max_frames) ==
    IF st.ended \/ Len(st.frames) >= max_frames THEN st
    ELSE UnwindFrom(world, Round(world, st, max_frames), max_frames)

Unwind(world, max_frames) == UnwindFrom(world, Started, max_frames)

--------------------------------------------------------------------------------
(* References: the places of the frames that are no dex frames, and the chain
   behind the places skipped at its start. *)
RealPlaces(frames) ==
    LET real == SelectSeq(frames, LAMBDA f : f.kind = "real") IN [i \in DOMAIN real |-> real[i].at]
FirstShown(world) ==
    LET shown == {p \in DOMAIN world : world[p].map # "skip"} IN CHOOSE p \in shown : \A q \in shown : p <= q
================================================================================
