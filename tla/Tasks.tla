--------------------------------- MODULE Tasks ---------------------------------
(***************************************************************************)
(* An algorithm is checked on tasks: a task is one input, and its answer   *)
(* what the program makes of it.  Which kind of task is fixed at the       *)
(* start; one step picks the task and answers it.                          *)
(***************************************************************************)
VARIABLES kind, task, done, answer
vars == <<kind, task, done, answer>>

Nothing == [none |-> TRUE]
Asked(kinds) == kind \in kinds /\ task = Nothing /\ done = FALSE /\ answer = Nothing
Evaluate(k, tasks, Run(_)) ==
    /\ ~done /\ kind = k
    /\ task' \in tasks
    /\ answer' = Run(task')
    /\ done' = TRUE
    /\ UNCHANGED kind

Answered(k) == done /\ kind = k
================================================================================
