--------------------------- MODULE StackPipelinePromise ---------------------------
(***************************************************************************)
(* The asynchronous stack pipeline seen by its callers: the refinement     *)
(* mapping under which it implements StackResults.                         *)
(***************************************************************************)
EXTENDS AsyncStackPipeline

(* What callers may rely on. *)
ResultStatus == [i \in Ids |-> IF results[i] # NoResult THEN results[i].state
                              ELSE IF i < next_id THEN "gone" ELSE "none"]
ResultStack == [i \in Ids |-> results[i].raw]
CallbacksDue == Members(failed) \cup (IF worker = "callback" THEN {item.id} ELSE {})
Promise == INSTANCE StackResults WITH
    Identities <- Keys, NoIdentity <- NoKey,
    status <- ResultStatus, stack <- ResultStack, due <- CallbacksDue, closed <- stopping

(* The pipeline implements StackResults. *)
ImplementsStackResults == Promise!AbstractSpec
================================================================================
