------------------------- MODULE MCAsyncStackPipeline --------------------------
EXTENDS StackPipelinePromise, TLC

CONSTANTS c1, c2, p1, p2

OneClient == {c1}
TwoClients == {c1, c2}

(* Two images that may follow each other at the same base, and a stack whose
   second frame lies in neither list for a while. *)
LibA == [name |-> "liba", load_bias |-> 1, build_id |-> 1]
LibB == [name |-> "libb", load_bias |-> 1, build_id |-> 2]
TwoPcs == {p1, p2}
TwoImages == {LibA, LibB}
OneStack == {<<p1, p2>>}
TwoStacks == {<<p1>>, <<p1, p2>>}
TwoLists == {p1 :> LibA @@ p2 :> LibA, p1 :> LibB @@ p2 :> NoImage}
================================================================================
