----------------------------- MODULE MCAccounting ------------------------------
EXTENDS Accounting, TLC

CONSTANTS t1, t2, a1, a2, h1, h2, s1, s2

OneThread == {t1}
TwoThreads == {t1, t2}
TwoKeys == {a1, a2}
OneStack == {s1}
TwoStacks == {s1, s2}
TwoShards == {h1, h2}
SplitKeys == (a1 :> h1) @@ (a2 :> h2)

(* Threads are interchangeable, and so are the addresses when each takes its
   shard with it. *)
SwapKeys == (a1 :> a2) @@ (a2 :> a1) @@ (h1 :> h2) @@ (h2 :> h1)
KeepKeys == [x \in {a1, a2, h1, h2} |-> x]
Symmetry == {p @@ q : p \in Permutations(TwoThreads), q \in {KeepKeys, SwapKeys}}
===============================================================================
