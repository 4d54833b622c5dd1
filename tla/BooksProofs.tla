------------------------------ MODULE BooksProofs ------------------------------
(***************************************************************************)
(* The books of module Accounting balance, for any threads, addresses,     *)
(* shards, stacks, sizes and features: every live counter is the sum of    *)
(* what the records stand for and every stack's references are counted,    *)
(* from what module AccountingProofs shows of one step.  With the block    *)
(* invariant of that module, records and blocks correspond.                *)
(***************************************************************************)
EXTENDS AccountingProofs, FiniteSetTheorems

-------------------------------------------------------------------------------
(* Sums over a finite set.  SumFunction folds over the domain in the order that
   CHOOSE picks.  What is shown here is that the order does not matter: an element
   can be split off, a value can be replaced, two functions can be added.  The
   inductions are arguments about a smallest counterexample. *)

Pick(s) == CHOOSE x \in s : TRUE

(* The equation SumFunction's fold is defined by, on the subsets in U. *)
Folds(f, U, g) ==
    \A s \in U : g[s] = IF s = {} THEN 0 ELSE f[Pick(s)] + g[s \ {Pick(s)}]

Small(D, n) == {s \in SUBSET D : Cardinality(s) <= n}

(* The partial sums of f. *)
Sums(f) == CHOOSE g : g = [s \in SUBSET DOMAIN f |->
                             IF s = {} THEN 0 ELSE f[Pick(s)] + g[s \ {Pick(s)}]]

(* A set of naturals that is not empty has a least element. *)
LEMMA LeastNatural ==
    ASSUME NEW T \in SUBSET Nat, T # {}
    PROVE  \E n \in T : \A m \in T : n <= m
<1>1. PICK n \in T : \A m \in T : ~(<<m, n>> \in OpToRel(<, Nat))
  BY NatLessThanWellFounded, WFMin, Zenon
<1>2. \A m \in T : ~(m < n)
  BY <1>1, Zenon DEF OpToRel
<1> QED BY <1>2

(* A choice from a set that is not empty is an element of it. *)
LEMMA PickIn ==
    ASSUME NEW s, s # {}
    PROVE  Pick(s) \in s
BY Zenon DEF Pick

(* A partial sum up to any size of subset exists. *)
LEMMA SumsUpTo ==
    ASSUME NEW D, IsFiniteSet(D), NEW f \in [D -> Int]
    PROVE  \A n \in Nat : \E g \in [Small(D, n) -> Int] : Folds(f, Small(D, n), g)
<1> DEFINE Good(n) == \E g \in [Small(D, n) -> Int] : Folds(f, Small(D, n), g)
<1>1. Good(0)
  <2> DEFINE g == [s \in Small(D, 0) |-> 0]
  <2>1. \A s \in Small(D, 0) : s = {}
    BY FS_Subset, FS_EmptySet, FS_CardinalityType DEF Small
  <2>2. Folds(f, Small(D, 0), g)
    BY <2>1, Zenon DEF Folds
  <2>3. g \in [Small(D, 0) -> Int]
    OBVIOUS
  <2> QED BY <2>2, <2>3, Zenon
<1>2. ASSUME NEW n \in Nat, Good(n) PROVE Good(n + 1)
  <2>1. PICK g \in [Small(D, n) -> Int] : Folds(f, Small(D, n), g)
    BY <1>2, Zenon
  <2> DEFINE h == [s \in Small(D, n + 1) |->
                     IF s = {} THEN 0 ELSE f[Pick(s)] + g[s \ {Pick(s)}]]
  <2>2. ASSUME NEW s \in Small(D, n + 1), s # {}
        PROVE  s \ {Pick(s)} \in Small(D, n) /\ Pick(s) \in D
    <3>1. Pick(s) \in s /\ s \in SUBSET D /\ Cardinality(s) <= n + 1
      BY <2>2, PickIn, Zenon DEF Small
    <3>2. IsFiniteSet(s) /\ Cardinality(s) \in Nat
      BY <3>1, FS_Subset, FS_CardinalityType, Zenon
    <3>3. Cardinality(s \ {Pick(s)}) = Cardinality(s) - 1
      BY <3>1, <3>2, FS_RemoveElement, Zenon
    <3> HIDE DEF h
    <3> QED BY <3>1, <3>2, <3>3 DEF Small
  <2>3. h \in [Small(D, n + 1) -> Int]
    BY <2>2
  <2>4. \A s \in Small(D, n) : s \in Small(D, n + 1) /\ h[s] = g[s]
    <3> SUFFICES ASSUME NEW s \in Small(D, n)
                 PROVE  s \in Small(D, n + 1) /\ h[s] = g[s]
      BY Zenon
    <3>1. s \in Small(D, n + 1)
      BY FS_Subset, FS_CardinalityType DEF Small
    <3> QED BY <2>1, <3>1, Zenon DEF Folds
  <2>5. Folds(f, Small(D, n + 1), h)
    BY <2>2, <2>4, Zenon DEF Folds
  <2> QED BY <2>3, <2>5, Zenon
<1>3. SUFFICES ASSUME {n \in Nat : ~Good(n)} # {} PROVE FALSE
  BY Zenon
<1> HIDE DEF Good
<1>4. PICK n \in Nat : ~Good(n) /\ \A m \in Nat : ~Good(m) => n <= m
  BY <1>3, LeastNatural, Zenon
<1>5. n # 0
  BY <1>1, <1>4, Zenon
<1>6. n - 1 \in Nat /\ Good(n - 1)
  BY <1>4, <1>5
<1> QED BY <1>2, <1>4, <1>6

(* Subsets are split by induction as well: from a failing subset one can go to
   a failing one all of whose proper subsets are fine. *)
LEMMA LeastSubset ==
    ASSUME NEW D, IsFiniteSet(D), NEW T \in SUBSET SUBSET D, T # {}
    PROVE  \E s \in T : \A u \in T : u \subseteq s => u = s
<1>1. T \subseteq FiniteSubsetsOf(D)
  BY FS_FiniteSubsetsOfFinite, Zenon
<1>2. PICK s \in T : \A u \in T : ~(<<u, s>> \in StrictSubsetOrdering(D))
  BY <1>1, FS_StrictSubsetOrderingWellFounded, WFMin, Zenon
<1> QED BY <1>2, Zenon DEF StrictSubsetOrdering

(* The partial sums satisfy their equation. *)
LEMMA SumsEquation ==
    ASSUME NEW D, IsFiniteSet(D), NEW f \in [D -> Int]
    PROVE  /\ Sums(f) \in [SUBSET D -> Int]
           /\ Folds(f, SUBSET D, Sums(f))
           /\ SumFunction(f) = Sums(f)[D]
           /\ SumFunction(f) \in Int
<1>1. SUBSET D = Small(D, Cardinality(D))
  BY FS_Subset, Zenon DEF Small
<1>2. PICK g \in [SUBSET D -> Int] : Folds(f, SUBSET D, g)
  <2>1. Cardinality(D) \in Nat
    BY FS_CardinalityType, Zenon
  <2>2. \E g \in [Small(D, Cardinality(D)) -> Int] : Folds(f, Small(D, Cardinality(D)), g)
    BY <2>1, SumsUpTo, Zenon
  <2> QED BY <1>1, <2>2, Zenon
<1>3. g = [s \in SUBSET DOMAIN f |-> IF s = {} THEN 0 ELSE f[Pick(s)] + g[s \ {Pick(s)}]]
  BY <1>2, Zenon DEF Folds
<1>4. Sums(f) = [s \in SUBSET DOMAIN f |->
                   IF s = {} THEN 0 ELSE f[Pick(s)] + Sums(f)[s \ {Pick(s)}]]
  BY <1>3, Zenon DEF Sums
<1>5. Folds(f, SUBSET D, Sums(f))
  BY <1>4, Zenon DEF Folds
<1> DEFINE T == {s \in SUBSET D : Sums(f)[s] # g[s]}
<1>6. ASSUME T # {} PROVE FALSE
  <2>1. PICK s \in T : \A u \in T : u \subseteq s => u = s
    <3>1. T \in SUBSET SUBSET D
      BY Zenon
    <3> HIDE DEF T
    <3> QED BY <1>6, <3>1, LeastSubset
  <2>2. s # {}
    BY <1>2, <1>5, <1>6, <2>1, Zenon DEF Folds
  <2>3. Pick(s) \in s
    BY <2>2, PickIn, Zenon
  <2>4. s \ {Pick(s)} \notin T
    BY <2>1, <2>3, Zenon
  <2>5. Sums(f)[s \ {Pick(s)}] = g[s \ {Pick(s)}]
    BY <1>6, <2>1, <2>4, Zenon
  <2> QED BY <1>2, <1>5, <1>6, <2>1, <2>2, <2>5, Zenon DEF Folds
<1>7. \A s \in SUBSET D : Sums(f)[s] = g[s]
  BY <1>6, Zenon
<1>8. Sums(f) \in [SUBSET D -> Int]
  BY <1>4, <1>7, Zenon
<1>9. SumFunction(f) = Sums(f)[D]
  BY Zenon DEF SumFunction, SumFunctionOnSet, FoldFunctionOnSet, MapThenFoldSet, Sums, Pick
<1>10. D \in SUBSET D
  BY Zenon
<1> QED BY <1>5, <1>8, <1>9, <1>10, Zenon

(* Any element of a subset can be split off its sum. *)
LEMMA SumsSplit ==
    ASSUME NEW D, IsFiniteSet(D), NEW f \in [D -> Int]
    PROVE  \A s \in SUBSET D : \A x \in s : Sums(f)[s] = f[x] + Sums(f)[s \ {x}]
<1> DEFINE T == {s \in SUBSET D : \E x \in s : Sums(f)[s] # f[x] + Sums(f)[s \ {x}]}
<1>1. SUFFICES ASSUME T # {} PROVE FALSE
  BY Zenon
<1>2. PICK s \in T : \A u \in T : u \subseteq s => u = s
  <2>1. T \in SUBSET SUBSET D
    BY Zenon
  <2> HIDE DEF T
  <2> QED BY <1>1, <2>1, LeastSubset
<1>3. PICK x \in s : Sums(f)[s] # f[x] + Sums(f)[s \ {x}]
  BY <1>2, Zenon
<1>4. Sums(f) \in [SUBSET D -> Int] /\ Folds(f, SUBSET D, Sums(f))
  BY SumsEquation, Zenon
<1> DEFINE p == Pick(s)
           both == (s \ {p}) \ {x}
<1>5. p \in s /\ s \in SUBSET D
  BY <1>2, <1>3, PickIn, Zenon
<1> HIDE DEF p
<1>6. Sums(f)[s] = f[p] + Sums(f)[s \ {p}]
  BY <1>4, <1>5, Zenon DEF Folds, p
<1>7. x # p
  BY <1>3, <1>6, Zenon
<1>8. s \ {p} \notin T /\ s \ {x} \notin T
  BY <1>2, <1>3, <1>5, Zenon
<1>9. Sums(f)[s \ {p}] = f[x] + Sums(f)[both]
  BY <1>3, <1>5, <1>7, <1>8, Zenon
<1>10. Sums(f)[s \ {x}] = f[p] + Sums(f)[(s \ {x}) \ {p}]
  BY <1>3, <1>5, <1>7, <1>8, Zenon
<1>11. (s \ {x}) \ {p} = both
  BY Zenon
<1>12. f[x] \in Int /\ f[p] \in Int /\ Sums(f)[both] \in Int
  BY <1>3, <1>4, <1>5, Zenon
<1>13. Sums(f)[s \ {x}] = f[p] + Sums(f)[both]
  BY <1>10, <1>11, Zenon
<1> HIDE DEF both, T
<1> QED BY <1>3, <1>6, <1>9, <1>12, <1>13

(* The sums over a subset are those of any function that agrees on it. *)
LEMMA SumsAgree ==
    ASSUME NEW D, IsFiniteSet(D), NEW f \in [D -> Int], NEW h \in [D -> Int],
           NEW U \in SUBSET D, \A x \in U : f[x] = h[x]
    PROVE  \A s \in SUBSET U : Sums(f)[s] = Sums(h)[s]
<1> DEFINE T == {s \in SUBSET U : Sums(f)[s] # Sums(h)[s]}
<1>1. SUFFICES ASSUME T # {} PROVE FALSE
  BY Zenon
<1>2. PICK s \in T : \A u \in T : u \subseteq s => u = s
  <2>1. T \in SUBSET SUBSET D
    BY Zenon
  <2> HIDE DEF T
  <2> QED BY <1>1, <2>1, LeastSubset
<1>3. /\ Folds(f, SUBSET D, Sums(f)) /\ Folds(h, SUBSET D, Sums(h))
  BY SumsEquation, Zenon
<1>4. s \in SUBSET D /\ s \in SUBSET U
  BY <1>2, Zenon
<1>5. s # {}
  BY <1>2, <1>3, <1>4, Zenon DEF Folds
<1>6. Pick(s) \in s
  BY <1>5, PickIn, Zenon
<1>7. s \ {Pick(s)} \notin T
  BY <1>2, <1>6, Zenon
<1>8. Sums(f)[s \ {Pick(s)}] = Sums(h)[s \ {Pick(s)}] /\ f[Pick(s)] = h[Pick(s)]
  BY <1>4, <1>6, <1>7, Zenon
<1> QED BY <1>2, <1>3, <1>4, <1>5, <1>8, Zenon DEF Folds

(* A sum of integers is an integer. *)
THEOREM SumType ==
    ASSUME NEW D, IsFiniteSet(D), NEW f \in [D -> Int]
    PROVE  SumFunction(f) \in Int
BY SumsEquation, Zenon

(* Replacing the value at one place changes the sum by the difference. *)
THEOREM SumReplace ==
    ASSUME NEW D, IsFiniteSet(D), NEW f \in [D -> Int], NEW h \in [D -> Int],
           NEW x \in D, \A y \in D \ {x} : f[y] = h[y]
    PROVE  SumFunction(h) = SumFunction(f) - f[x] + h[x]
<1> DEFINE rest == D \ {x}
<1>1. D \in SUBSET D /\ rest \in SUBSET D
  BY Zenon
<1>2. Sums(f)[D] = f[x] + Sums(f)[rest]
  BY <1>1, SumsSplit
<1>3. Sums(h)[D] = h[x] + Sums(h)[rest]
  BY <1>1, SumsSplit
<1>4. Sums(f)[rest] = Sums(h)[rest]
  BY SumsAgree
<1>5. Sums(f) \in [SUBSET D -> Int]
  BY SumsEquation, Zenon
<1>6. Sums(f)[rest] \in Int /\ f[x] \in Int /\ h[x] \in Int
  BY <1>1, <1>5, Zenon
<1>7. SumFunction(f) = Sums(f)[D]
  BY SumsEquation, Zenon
<1>8. SumFunction(h) = Sums(h)[D]
  BY SumsEquation, Zenon
<1> HIDE DEF rest
<1> QED BY <1>2, <1>3, <1>4, <1>6, <1>7, <1>8

(* The sum of nothing but zeros is zero. *)
THEOREM SumZero ==
    ASSUME NEW D, IsFiniteSet(D), NEW f \in [D -> Int], \A x \in D : f[x] = 0
    PROVE  SumFunction(f) = 0
<1> DEFINE T == {s \in SUBSET D : Sums(f)[s] # 0}
<1>1. SUFFICES ASSUME T # {} PROVE FALSE
  BY SumsEquation, Zenon
<1>2. PICK s \in T : \A u \in T : u \subseteq s => u = s
  <2>1. T \in SUBSET SUBSET D
    BY Zenon
  <2> HIDE DEF T
  <2> QED BY <1>1, <2>1, LeastSubset
<1>3. Folds(f, SUBSET D, Sums(f))
  BY SumsEquation, Zenon
<1>4. s # {}
  BY <1>2, <1>3, Zenon DEF Folds
<1>5. Pick(s) \in s
  BY <1>4, PickIn, Zenon
<1>6. Sums(f)[s \ {Pick(s)}] = 0
  BY <1>2, <1>5
<1> QED BY <1>2, <1>3, <1>4, <1>5, <1>6 DEF Folds

(* A sum of naturals is a natural, and no value exceeds it. *)
THEOREM SumNatural ==
    ASSUME NEW D, IsFiniteSet(D), NEW f \in [D -> Int], \A x \in D : f[x] \in Nat
    PROVE  SumFunction(f) \in Nat /\ \A x \in D : f[x] <= SumFunction(f)
<1>0. ASSUME NEW x \in D PROVE Sums(f)[D] = f[x] + Sums(f)[D \ {x}]
  <2>1. D \in SUBSET D
    BY Zenon
  <2> QED BY <2>1, SumsSplit
<1> DEFINE T == {s \in SUBSET D : ~(Sums(f)[s] \in Nat)}
<1>1. Sums(f) \in [SUBSET D -> Int] /\ Folds(f, SUBSET D, Sums(f))
  BY SumsEquation, Zenon
<1>2. ASSUME T # {} PROVE FALSE
  <2>1. PICK s \in T : \A u \in T : u \subseteq s => u = s
    <3>1. T \in SUBSET SUBSET D
      BY Zenon
    <3> HIDE DEF T
    <3> QED BY <1>2, <3>1, LeastSubset
  <2>2. s # {}
    <3>1. Sums(f)[{}] = 0
      BY <1>1, Zenon DEF Folds
    <3>2. ~(Sums(f)[s] \in Nat)
      BY <2>1, Zenon
    <3> HIDE DEF T
    <3> QED BY <3>1, <3>2
  <2>3. Pick(s) \in s
    BY <2>2, PickIn, Zenon
  <2>4. Sums(f)[s \ {Pick(s)}] \in Nat /\ f[Pick(s)] \in Nat
    BY <2>1, <2>3, Zenon
  <2> QED BY <1>1, <2>1, <2>2, <2>4 DEF Folds
<1>3. ASSUME NEW x \in D PROVE f[x] <= Sums(f)[D]
  <2>1. Sums(f)[D] = f[x] + Sums(f)[D \ {x}]
    BY <1>0, Zenon
  <2>2. Sums(f)[D \ {x}] \in Nat
    BY <1>2, Zenon
  <2> QED BY <2>1, <2>2
<1>4. Sums(f)[D] \in Nat
  BY <1>2, Zenon
<1> QED BY <1>3, <1>4, SumsEquation, Zenon

(* The sums of two functions add up to the sum of their values' sums. *)
THEOREM SumAdd ==
    ASSUME NEW D, IsFiniteSet(D), NEW f \in [D -> Int], NEW g \in [D -> Int],
           NEW h \in [D -> Int], \A x \in D : h[x] = f[x] + g[x]
    PROVE  SumFunction(h) = SumFunction(f) + SumFunction(g)
<1> DEFINE T == {s \in SUBSET D : Sums(h)[s] # Sums(f)[s] + Sums(g)[s]}
<1>1. SUFFICES ASSUME T # {} PROVE FALSE
  <2>1. SumFunction(f) = Sums(f)[D]
    BY SumsEquation, Zenon
  <2>2. SumFunction(g) = Sums(g)[D]
    BY SumsEquation, Zenon
  <2>3. SumFunction(h) = Sums(h)[D]
    BY SumsEquation, Zenon
  <2> QED BY <2>1, <2>2, <2>3, Zenon
<1>2. PICK s \in T : \A u \in T : u \subseteq s => u = s
  <2>1. T \in SUBSET SUBSET D
    BY Zenon
  <2> HIDE DEF T
  <2> QED BY <1>1, <2>1, LeastSubset
<1>3. /\ Folds(f, SUBSET D, Sums(f)) /\ Sums(f) \in [SUBSET D -> Int]
      /\ Folds(g, SUBSET D, Sums(g)) /\ Sums(g) \in [SUBSET D -> Int]
      /\ Folds(h, SUBSET D, Sums(h)) /\ Sums(h) \in [SUBSET D -> Int]
  BY SumsEquation, Zenon
<1>4. s \in SUBSET D /\ s # {}
  <2>1. Sums(f)[{}] = 0 /\ Sums(g)[{}] = 0 /\ Sums(h)[{}] = 0
    BY <1>3, Zenon DEF Folds
  <2>2. s \in SUBSET D /\ Sums(h)[s] # Sums(f)[s] + Sums(g)[s]
    BY <1>2, Zenon
  <2>3. CASE s = {}
    BY <2>1, <2>2, <2>3
  <2> QED BY <2>2, <2>3, Zenon
<1> DEFINE p == Pick(s)
<1>5. p \in s
  BY <1>4, PickIn, Zenon
<1>6. Sums(h)[s \ {p}] = Sums(f)[s \ {p}] + Sums(g)[s \ {p}]
  BY <1>2, <1>5, Zenon
<1>7. /\ Sums(f)[s] = f[p] + Sums(f)[s \ {p}]
      /\ Sums(g)[s] = g[p] + Sums(g)[s \ {p}]
      /\ Sums(h)[s] = h[p] + Sums(h)[s \ {p}]
  BY <1>3, <1>4, Zenon DEF Folds
<1>8. /\ f[p] \in Int /\ g[p] \in Int /\ h[p] = f[p] + g[p]
      /\ Sums(f)[s \ {p}] \in Int /\ Sums(g)[s \ {p}] \in Int
  BY <1>3, <1>4, <1>5, Zenon
<1> QED BY <1>2, <1>6, <1>7, <1>8

-------------------------------------------------------------------------------
(* The byte counters *)

(* Each counter is the sum of the charges of all addresses, at every step. *)
CountInv ==
    /\ current.used = SumFunction([k \in Keys |-> Used(k)])
    /\ current.host = SumFunction([k \in Keys |-> Typed(k, "host")])
    /\ current.dma = SumFunction([k \in Keys |-> Typed(k, "dma")])

ChargesOK == \A k \in Keys : Used(k) \in Nat /\ \A n : Typed(k, n) \in Nat

(* Every charge is a number of bytes. *)
LEMMA ChargesNatural == CallInv => ChargesOK
  <1> SUFFICES ASSUME CallInv, NEW k \in Keys
               PROVE  Used(k) \in Nat /\ \A n : Typed(k, n) \in Nat
    BY Zenon DEF ChargesOK
  <1>1. TrackerOK /\ \A t \in Threads : LocalsSet(t)
    BY Zenon DEF CallInv, BaseOK, Knows
  <1>2. SizeAt(k) \in Nat /\ \A n : TypeAt(k, n) \in Nat
    BY <1>1, Zenon DEF TrackerOK, Records, SizeAt, TypeAt, Of
  <1>3. ASSUME NEW t \in Threads, pc[t] \in RemapLabels
        PROVE  Moving(t) \in Nat /\ \A n : Of(n, call[t].type, Moving(t)) \in Nat
    <2>1. Moving(t) \in Nat
      BY <1>1, <1>3, Zenon DEF LocalsSet, Moving
    <2> QED
      BY <2>1, Zenon DEF Of
  <1>4. ASSUME NEW t \in Threads PROVE UsedBy(t, k) \in Nat /\ \A n : TypedBy(t, k, n) \in Nat
    <2>1. \A l \in {"remapUndoType", "remapUsed", "remapType"} : l \in RemapLabels
      BY Zenon DEF RemapLabels
    <2> QED
      BY <1>2, <1>3, <2>1, Zenon DEF UsedBy, TypedBy
  <1> QED
    BY <1>2, <1>4, Zenon DEF Used, Typed

(* Charges before and after a step are integers. *)
LEMMA ChargesInt ==
    ASSUME CallInv, CallInv'
    PROVE  /\ \A k \in Keys : Used(k) \in Int /\ \A n : Typed(k, n) \in Int
           /\ \A k \in Keys : Used(k)' \in Int /\ \A n : Typed(k, n)' \in Int
  <1>1. ChargesOK /\ ChargesOK'
    BY ChargesNatural, PTL
  <1> QED
    BY <1>1 DEF ChargesOK

(* One charge changes and the counters change with it. *)
LEMMA CountOne ==
    ASSUME CallInv, CallInv', CountInv, NEW x \in Keys, ChargeOne(x)
    PROVE  CountInv'
  <1> DEFINE u == [k \in Keys |-> Used(k)]
             f(n) == [k \in Keys |-> Typed(k, n)]
             u1 == [k \in Keys |-> Used(k)']
             f1(n) == [k \in Keys |-> Typed(k, n)']
  <1>1. \A k \in Keys : Used(k) \in Int /\ \A n : Typed(k, n) \in Int
    BY ChargesInt, Zenon
  <1>2. \A k \in Keys : Used(k)' \in Int /\ \A n : Typed(k, n)' \in Int
    BY ChargesInt, Zenon
  <1>3. u \in [Keys -> Int] /\ u1 \in [Keys -> Int] /\ \A n : f(n) \in [Keys -> Int] /\ f1(n) \in [Keys -> Int]
    BY <1>1, <1>2, Zenon
  <1>4. SumFunction(u1) = SumFunction(u) - u[x] + u1[x]
    <2>1. \A k \in Keys \ {x} : u[k] = u1[k]
      BY Zenon DEF ChargeOne, Kept
    <2> HIDE DEF u, u1
    <2> QED
      BY <1>3, <2>1, SumReplace, FiniteAssumption
  <1>5. ASSUME NEW n PROVE SumFunction(f1(n)) = SumFunction(f(n)) - f(n)[x] + f1(n)[x]
    <2>1. \A k \in Keys \ {x} : f(n)[k] = f1(n)[k]
      BY Zenon DEF ChargeOne, Kept
    <2> HIDE DEF f, f1
    <2> QED
      BY <1>3, <2>1, SumReplace, FiniteAssumption
  <1>6. /\ u[x] = Used(x) /\ u1[x] = Used(x)'
        /\ \A n : f(n)[x] = Typed(x, n) /\ f1(n)[x] = Typed(x, n)'
    BY Zenon
  <1>7. /\ current.used = SumFunction(u) /\ current.host = SumFunction(f("host"))
        /\ current.dma = SumFunction(f("dma"))
    BY Zenon DEF CountInv
  <1>8. /\ SumFunction(u) \in Int /\ \A n : SumFunction(f(n)) \in Int
    <2> HIDE DEF u, f
    <2> QED
      BY <1>3, SumType, FiniteAssumption, Zenon
  <1> HIDE DEF u, u1, f, f1
  <1>9. /\ current'.used = SumFunction(u1) /\ current'.host = SumFunction(f1("host"))
        /\ current'.dma = SumFunction(f1("dma"))
    BY <1>1, <1>2, <1>4, <1>5, <1>6, <1>7, <1>8 DEF ChargeOne, Counted
  <1> QED
    BY <1>9, Zenon DEF CountInv, u1, f1

(* Two charges change, for a record that Remap moves from x to y. *)
LEMMA CountTwo ==
    ASSUME CallInv, CallInv', CountInv, NEW x \in Keys, NEW y \in Keys, ChargeTwo(x, y)
    PROVE  CountInv'
  <1> DEFINE u == [k \in Keys |-> Used(k)]
             v == [u EXCEPT ![x] = Used(x)']
             w == [k \in Keys |-> Used(k)']
             f(n) == [k \in Keys |-> Typed(k, n)]
             g(n) == [f(n) EXCEPT ![x] = Typed(x, n)']
             h(n) == [k \in Keys |-> Typed(k, n)']
  <1>1. /\ \A k \in Keys : Used(k) \in Int /\ \A n : Typed(k, n) \in Int
        /\ \A k \in Keys : Used(k)' \in Int /\ \A n : Typed(k, n)' \in Int
    BY ChargesInt, Zenon
  <1>2. /\ u \in [Keys -> Int] /\ v \in [Keys -> Int] /\ w \in [Keys -> Int]
        /\ u[x] = Used(x) /\ v[x] = w[x] /\ w[x] = Used(x)'
        /\ v[y] = Used(y) /\ w[y] = Used(y)'
        /\ \A k \in Keys \ {x} : u[k] = v[k]
        /\ \A k \in Keys \ {y} : v[k] = w[k]
    BY <1>1, Zenon DEF ChargeTwo, Kept
  <1>3. ASSUME NEW n
        PROVE  /\ f(n) \in [Keys -> Int] /\ g(n) \in [Keys -> Int] /\ h(n) \in [Keys -> Int]
               /\ f(n)[x] = Typed(x, n) /\ g(n)[x] = h(n)[x] /\ h(n)[x] = Typed(x, n)'
               /\ g(n)[y] = Typed(y, n) /\ h(n)[y] = Typed(y, n)'
               /\ \A k \in Keys \ {x} : f(n)[k] = g(n)[k]
               /\ \A k \in Keys \ {y} : g(n)[k] = h(n)[k]
    BY <1>1, Zenon DEF ChargeTwo, Kept
  <1>4. /\ current.used = SumFunction(u) /\ current.host = SumFunction(f("host"))
        /\ current.dma = SumFunction(f("dma"))
    BY Zenon DEF CountInv
  <1> HIDE DEF u, v, w, f, g, h
  <1>5. /\ SumFunction(v) = SumFunction(u) - u[x] + v[x]
        /\ SumFunction(w) = SumFunction(v) - v[y] + w[y]
        /\ SumFunction(u) \in Int
    <2>1. SumFunction(v) = SumFunction(u) - u[x] + v[x]
      BY <1>2, SumReplace, FiniteAssumption
    <2>2. SumFunction(w) = SumFunction(v) - v[y] + w[y]
      BY <1>2, SumReplace, FiniteAssumption
    <2> QED
      BY <1>2, <2>1, <2>2, SumType, FiniteAssumption, Zenon
  <1>6. ASSUME NEW n PROVE SumFunction(h(n)) = SumFunction(f(n))
    <2>1. SumFunction(g(n)) = SumFunction(f(n)) - f(n)[x] + g(n)[x]
      BY <1>3, SumReplace, FiniteAssumption
    <2>2. SumFunction(h(n)) = SumFunction(g(n)) - g(n)[y] + h(n)[y]
      BY <1>3, SumReplace, FiniteAssumption
    <2>3. SumFunction(f(n)) \in Int
      BY <1>3, SumType, FiniteAssumption, Zenon
    <2>4. Typed(x, n)' - Typed(x, n) = Typed(y, n) - Typed(y, n)'
      BY Zenon DEF ChargeTwo
    <2>5. /\ Typed(x, n) \in Int /\ Typed(y, n) \in Int
          /\ Typed(x, n)' \in Int /\ Typed(y, n)' \in Int
      BY <1>1, Zenon
    <2>6. /\ SumFunction(g(n)) = SumFunction(f(n)) - Typed(x, n) + Typed(x, n)'
          /\ SumFunction(h(n)) = SumFunction(g(n)) - Typed(y, n) + Typed(y, n)'
      BY <1>3, <2>1, <2>2, Zenon
    <2> QED
      BY <2>3, <2>4, <2>5, <2>6
  <1>7. current'.used = SumFunction(w)
    BY <1>1, <1>2, <1>4, <1>5 DEF ChargeTwo
  <1>8. current'.host = SumFunction(h("host")) /\ current'.dma = SumFunction(h("dma"))
    BY <1>4, <1>6, Zenon DEF ChargeTwo
  <1> QED
    BY <1>7, <1>8, Zenon DEF CountInv, w, h

(* No charge changes. *)
LEMMA CountNone ==
    ASSUME CountInv, ChargeNone
    PROVE  CountInv'
  <1>1. /\ [k \in Keys |-> Used(k)'] = [k \in Keys |-> Used(k)]
        /\ [k \in Keys |-> Typed(k, "host")'] = [k \in Keys |-> Typed(k, "host")]
        /\ [k \in Keys |-> Typed(k, "dma")'] = [k \in Keys |-> Typed(k, "dma")]
    BY Zenon DEF ChargeNone, Kept
  <1> QED
    BY <1>1, Zenon DEF CountInv, ChargeNone

(* The counters stay the sums whatever the step. *)
LEMMA CountNext ==
    ASSUME CallInv, CallInv', CountInv, Charged
    PROVE  CountInv'
  BY CountNone, CountOne, CountTwo, Zenon DEF Charged

-------------------------------------------------------------------------------
(* The stack references *)

(* A stack's references are those of the records and the calls that name it. *)
RefInv ==
    \A i \in Nat \ {0, 1} :
        SumFunction([k \in Keys |-> Recorded(k, i)]) + SumFunction([t \in Threads |-> Holds(t, i)])
            = RefsOf(i)

(* References are counted in naturals. *)
LEMMA RefNaturals == \A i : /\ \A k : Recorded(k, i) \in Nat
                            /\ \A t : Holds(t, i) \in Nat
  <1>1. \A i : /\ \A k : Recorded(k, i) \in Nat
               /\ \A t : Adding(t, i) \in Nat /\ Displaced(t, i) \in Nat /\ Detached(t, i) \in Nat
    BY Zenon DEF Recorded, Adding, Displaced, Detached, One
  <1> QED
    BY <1>1 DEF Holds

(* A stack a call holds a reference to is in the table. *)
LEMMA HoldersInTable == RefInv => HoldersCounted
  <1> SUFFICES ASSUME RefInv, NEW t \in Threads, NEW i \in Nat \ {0, 1}, Holds(t, i) # 0
               PROVE  i \in DOMAIN frames
    BY Zenon DEF HoldersCounted
  <1> DEFINE r == [k \in Keys |-> Recorded(k, i)]
             h == [u \in Threads |-> Holds(u, i)]
  <1>1. r \in [Keys -> Int] /\ h \in [Threads -> Int]
    BY RefNaturals
  <1>2. (\A k \in Keys : r[k] \in Nat) /\ (\A u \in Threads : h[u] \in Nat) /\ h[t] = Holds(t, i)
    BY RefNaturals, Zenon
  <1>3. SumFunction(r) + SumFunction(h) = RefsOf(i)
    BY Zenon DEF RefInv
  <1> HIDE DEF r, h
  <1>4. SumFunction(r) \in Nat
    BY <1>1, <1>2, SumNatural, FiniteAssumption, Zenon
  <1>5. SumFunction(h) \in Nat /\ h[t] <= SumFunction(h)
    BY <1>1, <1>2, SumNatural, FiniteAssumption, Zenon
  <1>6. RefsOf(i) # 0
    BY <1>2, <1>3, <1>4, <1>5
  <1> QED
    BY <1>6, Zenon DEF RefsOf

(* A step that accounts for the references of its thread keeps the count. *)
LEMMA RefNext ==
    ASSUME RefInv, FrameInv, FrameInv', NEW t \in Threads, OthersKept(t), Referenced(t)
    PROVE  RefInv'
  <1>1. PICK x \in Keys :
          /\ OnlyAt(x)
          /\ \A i \in Nat \ {0, 1} :
                (Recorded(x, i)' + Holds(t, i)') - RefsOf(i)'
                  = (Recorded(x, i) + Holds(t, i)) - RefsOf(i)
    BY Zenon DEF Referenced
  <1> SUFFICES ASSUME NEW i \in Nat \ {0, 1}
               PROVE  SumFunction([k \in Keys |-> Recorded(k, i)'])
                        + SumFunction([u \in Threads |-> Holds(u, i)']) = RefsOf(i)'
    BY Zenon DEF RefInv
  <1> DEFINE r == [k \in Keys |-> Recorded(k, i)]
             h == [u \in Threads |-> Holds(u, i)]
             r1 == [k \in Keys |-> Recorded(k, i)']
             h1 == [u \in Threads |-> Holds(u, i)']
  <1>2. /\ \A k : Recorded(k, i) \in Int /\ Recorded(k, i)' \in Int
        /\ \A u : Holds(u, i) \in Int /\ Holds(u, i)' \in Int
    <2>1. \A k : Recorded(k, i) \in Nat /\ Recorded(k, i)' \in Nat
      BY Zenon DEF Recorded, One
    <2>2. \A u : Holds(u, i)' \in Nat
      <3>1. \A u : Adding(u, i)' \in Nat /\ Displaced(u, i)' \in Nat /\ Detached(u, i)' \in Nat
        BY Zenon DEF Adding, Displaced, Detached, One
      <3> QED
        BY <3>1 DEF Holds
    <2> QED
      BY <2>1, <2>2, RefNaturals
  <1>3. RefsOf(i) \in Int /\ RefsOf(i)' \in Int
    BY DEF FrameInv, FramesOK, RefsOf
  <1>4. /\ r \in [Keys -> Int] /\ r1 \in [Keys -> Int] /\ h \in [Threads -> Int] /\ h1 \in [Threads -> Int]
        /\ r[x] = Recorded(x, i) /\ r1[x] = Recorded(x, i)' /\ h[t] = Holds(t, i) /\ h1[t] = Holds(t, i)'
    BY <1>2, Zenon
  <1>5. \A k \in Keys \ {x} : r[k] = r1[k]
    BY <1>1, Zenon DEF OnlyAt, Recorded
  <1>6. \A u \in Threads \ {t} : h[u] = h1[u]
    <2>1. ASSUME NEW u \in Threads, u # t PROVE Holds(u, i)' = Holds(u, i)
      BY <2>1, Zenon DEF OthersKept, Holds, Adding, Displaced, Detached
    <2> QED
      BY <2>1, Zenon
  <1>7. SumFunction(r) + SumFunction(h) = RefsOf(i)
    BY Zenon DEF RefInv
  <1> HIDE DEF r, r1, h, h1
  <1>8. SumFunction(r1) = SumFunction(r) - r[x] + r1[x]
    BY <1>4, <1>5, SumReplace, FiniteAssumption
  <1>9. SumFunction(h1) = SumFunction(h) - h[t] + h1[t]
    BY <1>4, <1>6, SumReplace, FiniteAssumption
  <1>10. SumFunction(r) \in Int /\ SumFunction(h) \in Int
    BY <1>4, SumType, FiniteAssumption, Zenon
  <1>11. SumFunction(r1) + SumFunction(h1) = RefsOf(i)'
    BY <1>1, <1>2, <1>3, <1>4, <1>7, <1>8, <1>9, <1>10
  <1> QED
    BY <1>11, Zenon DEF r1, h1

-------------------------------------------------------------------------------
(* The peaks *)

(* The counters and what is computed from them are never negative. *)
CountersOK == current.used \in Nat /\ current.host \in Nat /\ current.dma \in Nat
Naturals ==
    /\ CountersOK
    /\ peak.used \in Nat /\ peak.host \in Nat /\ peak.dma \in Nat
    /\ \A t \in Threads : call[t].total \in Nat

(* Where no call fails, and so no record is restored, the peak of a type is at
   least its counter, and that of all bytes is at least the counter or some call
   is about to raise it so far. *)
PeakInv ==
    "fail" \notin Features =>
      /\ \A t \in Threads : pc[t] \notin RestoreLabels
      /\ peak.host >= current.host /\ peak.dma >= current.dma
      /\ \/ peak.used >= current.used
         \/ \E t \in Threads : pc[t] \in RaisingLabels /\ call[t].total >= current.used

(* A sum of charges is a natural. *)
LEMMA CountersNatural == CallInv /\ CountInv => CountersOK
  <1> SUFFICES ASSUME CallInv, CountInv PROVE CountersOK
    BY Zenon
  <1> DEFINE u == [k \in Keys |-> Used(k)]
             f(n) == [k \in Keys |-> Typed(k, n)]
  <1>1. /\ u \in [Keys -> Int] /\ \A k \in Keys : u[k] \in Nat
        /\ \A n : f(n) \in [Keys -> Int] /\ \A k \in Keys : f(n)[k] \in Nat
    <2>1. ChargesOK
      BY ChargesNatural, Zenon
    <2> QED
      BY <2>1 DEF ChargesOK
  <1>2. current.used = SumFunction(u) /\ current.host = SumFunction(f("host")) /\ current.dma = SumFunction(f("dma"))
    BY Zenon DEF CountInv
  <1> HIDE DEF u, f
  <1> QED
    BY <1>1, <1>2, SumNatural, FiniteAssumption, Zenon DEF CountersOK

(* The peaks and the totals are counters that were reached. *)
LEMMA NaturalsNext ==
    ASSUME Naturals, CallInv', CountInv', NEW t \in Threads, OthersKept(t), Peaked(t)
    PROVE  Naturals'
  <1>1. current'.used \in Nat /\ current'.host \in Nat /\ current'.dma \in Nat
    <2>1. CountersOK'
      BY CountersNatural, PTL
    <2> QED
      BY <2>1, Zenon DEF CountersOK
  <1>2. peak'.used \in Nat /\ peak'.host \in Nat /\ peak'.dma \in Nat
    BY <1>1, Zenon DEF Naturals, Peaked
  <1>3. ASSUME NEW u \in Threads PROVE call'[u].total \in Nat
    <2>1. CASE u = t
      BY <1>1, <2>1 DEF Naturals, Peaked
    <2>2. CASE u # t
      BY <2>2, Zenon DEF Naturals, OthersKept
    <2> QED
      BY <2>1, <2>2, Zenon
  <1> QED
    BY <1>1, <1>2, <1>3, Zenon DEF Naturals, CountersOK

(* A step that raises a counter raises the peak or leaves that to its call. *)
LEMMA PeaksNext ==
    ASSUME Naturals, Naturals', PeakInv, NEW t \in Threads, OthersKept(t), Peaked(t),
           RestoreStays(t) \/ "fail" \in Features
    PROVE  PeakInv'
  <1> SUFFICES ASSUME "fail" \notin Features
               PROVE  /\ \A u \in Threads : pc'[u] \notin RestoreLabels
                      /\ peak'.host >= current'.host /\ peak'.dma >= current'.dma
                      /\ \/ peak'.used >= current'.used
                         \/ \E u \in Threads : pc'[u] \in RaisingLabels /\ call'[u].total >= current'.used
    BY Zenon DEF PeakInv
  <1>1. /\ \A u \in Threads : pc[u] \notin RestoreLabels
        /\ peak.host >= current.host /\ peak.dma >= current.dma
        /\ \/ peak.used >= current.used
           \/ \E u \in Threads : pc[u] \in RaisingLabels /\ call[u].total >= current.used
    BY Zenon DEF PeakInv
  <1>2. \A u \in Threads : pc'[u] \notin RestoreLabels
    BY <1>1, Zenon DEF OthersKept, RestoreStays
  <1>3. /\ current'.host <= current.host \/ current'.host <= peak'.host
        /\ current'.dma <= current.dma \/ current'.dma <= peak'.dma
        /\ peak'.used >= peak.used /\ peak'.host >= peak.host /\ peak'.dma >= peak.dma
        /\ \/ /\ current'.used <= current.used
              /\ pc[t] \in RaisingLabels =>
                    \/ call[t].total <= peak'.used
                    \/ pc'[t] \in RaisingLabels /\ call'[t].total = call[t].total
           \/ pc'[t] \in RaisingLabels /\ call'[t].total = current'.used
    BY <1>1, Zenon DEF Peaked
  <1>4. /\ current.used \in Nat /\ current.host \in Nat /\ current.dma \in Nat
        /\ peak.used \in Nat /\ peak.host \in Nat /\ peak.dma \in Nat
        /\ current'.used \in Nat /\ current'.host \in Nat /\ current'.dma \in Nat
        /\ peak'.used \in Nat /\ peak'.host \in Nat /\ peak'.dma \in Nat
        /\ \A u \in Threads : call[u].total \in Nat /\ call'[u].total \in Nat
    BY Zenon DEF Naturals, CountersOK
  <1>5. peak'.host >= current'.host /\ peak'.dma >= current'.dma
    BY <1>1, <1>3, <1>4
  <1>6. \/ peak'.used >= current'.used
        \/ \E u \in Threads : pc'[u] \in RaisingLabels /\ call'[u].total >= current'.used
    <2>1. CASE pc'[t] \in RaisingLabels /\ call'[t].total = current'.used
      BY <1>4, <2>1
    <2>2. CASE /\ current'.used <= current.used
               /\ pc[t] \in RaisingLabels =>
                     \/ call[t].total <= peak'.used
                     \/ pc'[t] \in RaisingLabels /\ call'[t].total = call[t].total
      <3>1. CASE peak.used >= current.used
        BY <1>3, <1>4, <2>2, <3>1
      <3>2. CASE \E u \in Threads : pc[u] \in RaisingLabels /\ call[u].total >= current.used
        <4>1. PICK u \in Threads : pc[u] \in RaisingLabels /\ call[u].total >= current.used
          BY <3>2, Zenon
        <4>2. call[u].total >= current'.used
          BY <1>4, <2>2, <4>1
        <4>3. CASE u # t
          BY <4>1, <4>2, <4>3, Zenon DEF OthersKept
        <4>4. CASE u = t /\ call[t].total <= peak'.used
          BY <1>4, <4>2, <4>4
        <4>5. CASE u = t /\ pc'[t] \in RaisingLabels /\ call'[t].total = call[t].total
          BY <4>2, <4>5, Zenon
        <4> QED
          BY <2>2, <4>1, <4>3, <4>4, <4>5, Zenon
      <3> QED
        BY <1>1, <3>1, <3>2, Zenon
    <2> QED
      BY <1>3, <2>1, <2>2, Zenon
  <1> QED
    BY <1>2, <1>5, <1>6, Zenon

-------------------------------------------------------------------------------
(* The inductive invariant of the books *)

BookInv == CallInv /\ CountInv /\ RefInv /\ Naturals /\ PeakInv

(* With no record and no call, every sum is zero. *)
LEMMA BookInit == Init => BookInv
  <1> SUFFICES ASSUME Init PROVE BookInv
    BY Zenon
  <1>1. /\ CallInv /\ \A k \in Keys : pointers[k] = NoRecord /\ shardMutex[ShardFor[k]] = NoThread
        /\ \A t \in Threads : pc[t] = "idle" /\ call[t] = NoCall
        /\ frames = << >>
        /\ current = [used |-> 0, host |-> 0, dma |-> 0] /\ peak = [used |-> 0, host |-> 0, dma |-> 0]
    BY CallInit, ShardForAssumption, Zenon DEF Init, Initialize
  <1>2. NoCall.displaced = NoRecord /\ NoCall.previous = NoRecord /\ NoCall.total = 0
    BY Zenon DEF NoCall
  <1>3. ASSUME NEW D, IsFiniteSet(D), NEW f \in [D -> Int], \A x \in D : f[x] = 0
        PROVE  SumFunction(f) = 0
    BY <1>3, SumZero, Zenon
  <1>4. CountInv
    <2> DEFINE u == [k \in Keys |-> Used(k)]
               f(n) == [k \in Keys |-> Typed(k, n)]
    <2>1. \A k \in Keys : Used(k) = 0 /\ \A n : Typed(k, n) = 0
      BY <1>1, ThreadsAssumption, Zenon DEF Used, Typed, Worker, SizeAt, TypeAt
    <2>2. /\ u \in [Keys -> Int] /\ \A k \in Keys : u[k] = 0
          /\ \A n : f(n) \in [Keys -> Int] /\ \A k \in Keys : f(n)[k] = 0
      BY <2>1
    <2> HIDE DEF u, f
    <2>3. SumFunction(u) = 0 /\ \A n : SumFunction(f(n)) = 0
      BY <1>3, <2>2, FiniteAssumption, Zenon
    <2> QED
      BY <1>1, <2>3, Zenon DEF CountInv, u, f
  <1>5. RefInv
    <2> SUFFICES ASSUME NEW i \in Nat \ {0, 1}
                 PROVE  SumFunction([k \in Keys |-> Recorded(k, i)])
                          + SumFunction([t \in Threads |-> Holds(t, i)]) = RefsOf(i)
      BY Zenon DEF RefInv
    <2> DEFINE r == [k \in Keys |-> Recorded(k, i)]
               h == [t \in Threads |-> Holds(t, i)]
    <2>1. \A k \in Keys : Recorded(k, i) = 0
      BY <1>1, Zenon DEF Recorded, One
    <2>2. \A t \in Threads : Holds(t, i) = 0
      <3>1. \A t \in Threads : Adding(t, i) = 0 /\ Displaced(t, i) = 0 /\ Detached(t, i) = 0
        BY <1>1, <1>2, Zenon DEF Adding, Displaced, Detached, One
      <3> QED
        BY <3>1 DEF Holds
    <2>3. RefsOf(i) = 0
      BY <1>1 DEF RefsOf
    <2>4. /\ r \in [Keys -> Int] /\ \A k \in Keys : r[k] = 0
          /\ h \in [Threads -> Int] /\ \A t \in Threads : h[t] = 0
      BY <2>1, <2>2
    <2> HIDE DEF r, h
    <2>5. SumFunction(r) = 0 /\ SumFunction(h) = 0
      BY <1>3, <2>4, FiniteAssumption, Zenon
    <2>6. SumFunction(r) + SumFunction(h) = RefsOf(i)
      BY <2>3, <2>5
    <2> QED
      BY <2>6, Zenon DEF r, h
  <1>6. Naturals
    BY <1>1, <1>2 DEF Naturals, CountersOK
  <1>7. PeakInv
    BY <1>1 DEF PeakInv, RestoreLabels
  <1> QED
    BY <1>1, <1>4, <1>5, <1>6, <1>7, Zenon DEF BookInv

(* Every step of the handlers and of the environment keeps the books. *)
LEMMA BookNext == BookInv /\ [AnyNext]_vars => BookInv'
  <1> SUFFICES ASSUME BookInv, [AnyNext]_vars PROVE BookInv'
    BY Zenon
  <1>1. CallInv /\ CountInv /\ RefInv /\ Naturals /\ PeakInv /\ HoldersCounted
    BY HoldersInTable, Zenon DEF BookInv
  <1>2. CallInv' /\ FrameInv /\ FrameInv'
    BY <1>1, CallNext, Zenon DEF CallInv
  <1>3. ASSUME NEW t \in Threads, AnyStep(t) PROVE BookInv'
    <2>1. Accounted(t)
      BY <1>1, <1>3, StepInv, Zenon
    <2>2. OthersKept(t) /\ Charged /\ Referenced(t) /\ Peaked(t) /\ (RestoreStays(t) \/ "fail" \in Features)
      BY <2>1, Zenon DEF Accounted, Effect
    <2>3. CountInv'
      BY <1>1, <1>2, <2>2, CountNext, Zenon
    <2>4. RefInv'
      BY <1>1, <1>2, <2>2, RefNext, Zenon
    <2>5. Naturals'
      BY <1>1, <1>2, <2>2, <2>3, NaturalsNext, Zenon
    <2>6. PeakInv'
      BY <1>1, <2>2, <2>5, PeaksNext, Zenon
    <2> QED
      BY <1>2, <2>3, <2>4, <2>5, <2>6, Zenon DEF BookInv
  (* Nothing the books are about changes. *)
  <1>4. ASSUME UNCHANGED <<trackerVars, pc, call>> PROVE BookInv'
    <2>1. UNCHANGED <<pointers, shardMutex, frames, current, peak, pc, call>>
      BY <1>4, Zenon DEF trackerVars
    <2>2. OthersKept(NoThread) /\ ShardStep(NoThread)
      BY <2>1, Zenon DEF OthersKept, ShardStep
    <2>3. CountInv'
      BY <1>1, <2>1, <2>2, ChargeElsewhere, CountNone, ThreadsAssumption, Zenon DEF ChargeNone
    <2>4. RefInv'
      <3>1. \A i : /\ \A k : Recorded(k, i)' = Recorded(k, i)
                   /\ RefsOf(i)' = RefsOf(i)
        BY <2>1, Zenon DEF Recorded, RefsOf
      <3>2. \A i, u : Holds(u, i)' = Holds(u, i)
        BY <2>1, Zenon DEF Holds, Adding, Displaced, Detached
      <3> QED
        BY <1>1, <3>1, <3>2, Zenon DEF RefInv
    <2>5. Naturals'
      BY <1>1, <2>1, Zenon DEF Naturals, CountersOK
    <2>6. PeakInv'
      BY <1>1, <2>1, Zenon DEF PeakInv
    <2> QED
      BY <1>2, <2>3, <2>4, <2>5, <2>6, Zenon DEF BookInv
  <1>5. Environment \/ UNCHANGED vars => UNCHANGED <<trackerVars, pc, call>>
    BY <1>1, EnvironmentInv, Zenon DEF vars, trackerVars
  <1> QED
    BY <1>3, <1>4, <1>5, Zenon DEF AnyNext

(* The books are in order in every reachable state. *)
THEOREM BooksInvariant == Spec => []BookInv
  BY BookInit, BookNext, NextIsAny, PTL DEF Spec

-------------------------------------------------------------------------------
(* What follows for the counters, the references and the peaks *)

(* Every variable has its type, the counters and peaks as naturals. *)
LEMMA BookTypes == BookInv => TypeOK
  <1> SUFFICES ASSUME BookInv PROVE TypeOK
    BY Zenon
  <1>1. TrackerOK /\ FramesOK /\ Naturals /\ mem \in [Keys -> Blocks \cup {NoBlock}] /\ calls \in 0..MaxCalls
    BY Zenon DEF BookInv, CallInv, BaseOK, FrameInv
  <1>2. current \in Counters /\ peak \in Counters
    BY <1>1, Zenon DEF TrackerOK, Signed, Naturals, CountersOK, Counters
  <1>3. call \in [Threads -> Calls]
    <2>1. ASSUME NEW t \in Threads PROVE call[t] \in Calls
      <3>1. call[t] \in AnyCalls /\ call[t].total \in Nat
        BY <1>1, Zenon DEF TrackerOK, Naturals
      <3> QED
        BY <3>1, Zenon DEF AnyCalls, Calls
    <2> QED
      BY <1>1, <2>1, Zenon DEF TrackerOK
  <1>4. \A i \in DOMAIN frames : frames[i] \in [references : Nat, stack : Stacks]
    <2>1. \A r \in [references : Nat \ {0}, stack : Stacks] : r \in [references : Nat, stack : Stacks]
      BY Zenon
    <2> QED
      BY <1>1, <2>1, Zenon DEF FramesOK
  <1> QED
    BY <1>1, <1>2, <1>3, <1>4, Zenon DEF TypeOK, TrackerOK, FramesOK

(* With every shard free, the charges are those of the records. *)
LEMMA QuietCounters == BookInv => CountersMatchTable
  <1> SUFFICES ASSUME BookInv, Quiet
               PROVE  /\ current.used = BytesOf(MemTypes)
                      /\ current.host = BytesOf({"HOST", "MMAP"})
                      /\ current.dma = BytesOf({"DMA"})
    BY Zenon DEF CountersMatchTable
  <1>1. TrackerOK /\ CountInv
    BY Zenon DEF BookInv, CallInv, BaseOK
  <1>2. ASSUME NEW k \in Keys
        PROVE  /\ Used(k) = IF pointers[k] # NoRecord /\ pointers[k].mem_type \in MemTypes
                            THEN pointers[k].size ELSE 0
               /\ Typed(k, "host") = IF pointers[k] # NoRecord /\ pointers[k].mem_type \in {"HOST", "MMAP"}
                                     THEN pointers[k].size ELSE 0
               /\ Typed(k, "dma") = IF pointers[k] # NoRecord /\ pointers[k].mem_type \in {"DMA"}
                                    THEN pointers[k].size ELSE 0
    <2>1. Worker(k) \notin Threads
      BY ShardForAssumption, ThreadsAssumption, Zenon DEF Worker, Quiet
    <2>2. Used(k) = SizeAt(k) /\ \A n : Typed(k, n) = TypeAt(k, n)
      BY <2>1, Zenon DEF Used, Typed
    <2>3. pointers[k] # NoRecord => pointers[k].mem_type \in MemTypes
      BY <1>1, Zenon DEF TrackerOK, Records
    <2> QED
      BY <2>2, <2>3, Zenon DEF SizeAt, TypeAt, Of, Counter, MemTypes
  <1> QED
    BY <1>1, <1>2, Zenon DEF CountInv, BytesOf

(* The count of the references is the invariant itself. *)
LEMMA ExactReferences == BookInv => ReferencesExact
  <1> SUFFICES ASSUME BookInv, NEW i \in 2..(cur_hash_index - 1)
               PROVE  SumFunction([k \in Keys |-> Recorded(k, i)])
                        + SumFunction([t \in Threads |-> Holds(t, i)]) = RefsOf(i)
    BY Zenon DEF ReferencesExact, RefsOf
  <1>1. i \in Nat \ {0, 1}
    BY DEF BookInv, CallInv, FrameInv, FramesOK
  <1> QED
    BY <1>1, Zenon DEF BookInv, RefInv

(* A call about to raise the peak holds its shard. *)
LEMMA QuietPeaks == BookInv /\ "fail" \notin Features => PeakCoversCurrent
  <1> SUFFICES ASSUME BookInv, "fail" \notin Features, Quiet
               PROVE  \A n \in {"used", "host", "dma"} : peak[n] >= current[n]
    BY Zenon DEF PeakCoversCurrent
  <1>1. ASSUME NEW t \in Threads PROVE pc[t] \notin RaisingLabels
    <2>1. Knows(t)
      BY Zenon DEF BookInv, CallInv
    <2>2. pc[t] \in RaisingLabels => shardMutex[ShardFor[call[t].ptr]] = t /\ call[t].ptr \in Keys
      BY <2>1, Zenon DEF Knows, ShardsHeld, LocalsSet, RaisingLabels, LockedLabels, AddLabels, RemapLabels
    <2> QED
      BY <2>2, ShardForAssumption, ThreadsAssumption, Zenon DEF Quiet
  <1> QED
    BY <1>1, Zenon DEF BookInv, PeakInv

(* Every variable keeps its type under every interleaving: no counter, peak or
   total that Add, Remap, TakeEntry and RestoreEntry maintain goes below zero. *)
THEOREM TypesAlwaysOK == Spec => []TypeOK
  BY BooksInvariant, BookTypes, PTL

(* The live counters are the sums over the live records whenever every shard is
   free, and every stack's count is that of the records and calls that name it,
   whatever the threads, sizes, shards and the order of their steps. *)
THEOREM BooksAlwaysBalance == Spec => []BooksBalance
  <1>1. BookInv => BooksBalance
    BY QuietCounters, ExactReferences, Zenon DEF BooksBalance
  <1> QED
    BY <1>1, BooksInvariant, PTL

(* Where realloc and munmap do not fail, no peak is below its counter whenever
   every shard is free.  RestoreEntry raises no peak, which is why a failed call
   is excluded. *)
THEOREM PeaksAlwaysCover == "fail" \notin Features => (Spec => []PeakCoversCurrent)
  <1> SUFFICES ASSUME "fail" \notin Features PROVE Spec => []PeakCoversCurrent
    BY Zenon
  <1>1. BookInv => PeakCoversCurrent
    BY QuietPeaks, Zenon
  <1> QED
    BY <1>1, BooksInvariant, PTL

(* Without mremap, records and blocks stay together while the books balance. *)
LEMMA BlockBooks ==
    ASSUME "mremap" \notin Features
    PROVE  (BookInv /\ BlockInv) /\ [AnyNext]_vars => (BookInv /\ BlockInv)'
  <1> SUFFICES ASSUME BookInv, BlockInv, [AnyNext]_vars PROVE BookInv' /\ BlockInv'
    BY Zenon
  <1>1. CallInv /\ HoldersCounted
    BY HoldersInTable, Zenon DEF BookInv
  <1> QED
    BY <1>1, BookNext, BlockNext, Zenon

(* Where mremap is not used, a block that no call is working on has exactly its
   own record, and an address given back has none, whatever malloc, calloc,
   memalign, realloc, free, mmap and munmap do at once: every handler detaches
   the record before the address can be handed out again.  DebugMremap does not,
   which is what run mremap_race shows. *)
THEOREM RecordsAlwaysExact == "mremap" \notin Features => (Spec => []RecordsExact)
  <1> SUFFICES ASSUME "mremap" \notin Features PROVE Spec => []RecordsExact
    BY Zenon
  <1>1. Init => BookInv /\ BlockInv
    BY BookInit, BlockInit, Zenon
  <1>2. (BookInv /\ BlockInv) /\ [AnyNext]_vars => (BookInv /\ BlockInv)'
    BY BlockBooks, Zenon
  <1>3. BookInv /\ BlockInv => RecordsExact
    BY BlocksExact, Zenon DEF BookInv
  <1> QED
    BY <1>1, <1>2, <1>3, NextIsAny, PTL DEF Spec
===============================================================================
