------------------------------ MODULE StackResults ------------------------------
(***************************************************************************)
(* What AsyncStackPipeline promises to its callers, with no queue, worker  *)
(* or cache in it: every submitted stack gets an identity, identities are  *)
(* handed out in order, an accepted stack completes exactly once and in    *)
(* the order of acceptance, its completion callback follows exactly once   *)
(* and in the same order, and no two live results describe the same stack. *)
(***************************************************************************)
EXTENDS Integers

CONSTANTS
    MaxId,      \* bound: identities handed out
    Identities, \* what makes two raw stacks the same: their frames and generation
    NoIdentity

Ids == 1..MaxId

VARIABLES
    status, \* id -> where it is in its life
    stack,  \* id -> the identity it was submitted for, while it is remembered
    due,    \* completed ids whose callback has not been called
    closed  \* no further stack is taken

abstractVars == <<status, stack, due, closed>>

Statuses == {"none", "pending", "resolved", "failed", "dropped", "gone"}
Finished == {"resolved", "failed"}
Live == {"pending"} \cup Finished

AbstractTypeOK ==
    /\ status \in [Ids -> Statuses]
    /\ stack \in [Ids -> Identities \cup {NoIdentity}]
    /\ due \subseteq Ids
    /\ closed \in BOOLEAN

AbstractInit ==
    /\ status = [i \in Ids |-> "none"]
    /\ stack = [i \in Ids |-> NoIdentity]
    /\ due = {}
    /\ closed \in BOOLEAN

(* Nothing happens to id i, or it leaves the caches from one of kinds. *)
Kept(i) == status'[i] = status[i] /\ stack'[i] = stack[i]
Forgotten(i, kinds) ==
    status[i] \in kinds /\ status'[i] = "gone" /\ stack'[i] = NoIdentity

(* The next identity goes to a stack that no live result describes; a full
   queue drops it, and dropped ones are only remembered for a while. *)
Submit ==
    \E i \in Ids :
        /\ ~closed
        /\ status[i] = "none"
        /\ \A j \in Ids : j < i => status[j] # "none"
        /\ status'[i] \in {"pending", "dropped"}
        /\ stack'[i] \in Identities
        /\ \A j \in Ids : status[j] \in Live => stack[j] # stack'[i]
        /\ \A j \in Ids \ {i} : Kept(j) \/ Forgotten(j, {"dropped"})
        /\ UNCHANGED <<due, closed>>

(* The oldest pending ids complete, and finished results may be evicted; a
   worker that gives up completes everything and closes the pipeline. *)
Completed(i) ==
    status[i] = "pending" /\ status'[i] \in Finished /\ stack'[i] = stack[i]
Complete ==
    /\ \A i \in Ids : Kept(i) \/ Completed(i) \/ Forgotten(i, Finished)
    /\ \A i, j \in Ids : Completed(i) /\ status[j] = "pending" /\ j < i => Completed(j)
    /\ due' = due \cup {i \in Ids : Completed(i)}
    /\ closed' \in BOOLEAN
    /\ closed => closed'
    /\ closed' # closed => \A i \in Ids : status'[i] # "pending"

(* Callbacks are called in the order of completion. *)
Deliver ==
    \E i \in due :
        /\ \A j \in due : i <= j
        /\ due' = due \ {i}
        /\ UNCHANGED <<status, stack, closed>>

(* A caller releases a result that is not pending. *)
Forget ==
    \E i \in Ids :
        /\ Forgotten(i, Finished \cup {"dropped"})
        /\ \A j \in Ids \ {i} : Kept(j)
        /\ UNCHANGED <<due, closed>>

Close ==
    /\ closed' = TRUE
    /\ UNCHANGED <<status, stack, due>>

(* status and stack stay functions on the ids. *)
AbstractNext ==
    /\ AbstractTypeOK'
    /\ Submit \/ Complete \/ Deliver \/ Forget \/ Close

AbstractSpec == AbstractInit /\ [][AbstractNext]_abstractVars
================================================================================
