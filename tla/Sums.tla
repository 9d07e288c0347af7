-------------------------------- MODULE Sums --------------------------------
(***************************************************************************)
(* Facts about MapThenSumSet of FiniteSetsExt, for the proofs of what this *)
(* system adds up: a sum over a finite set is an integer, depends on the   *)
(* values only, is nothing over the empty set and grows by what one more   *)
(* element is worth.  The library's fold is a recursive function chosen by *)
(* CHOOSE; that there is one, and that every one gives the same sums, is   *)
(* proved by the least size at which it would fail.  A sum is unfolded to  *)
(* SumOf(f, S), where f is the mapping as a function over S.               *)
(***************************************************************************)
EXTENDS Integers, FiniteSetsExt, FiniteSetTheorems, WellFoundedInduction, TLAPS

(* The fold of a sum, as MapThenFoldSet defines it: it takes one chosen    *)
(* element at a time.                                                      *)
Pick(s) == CHOOSE x \in s : TRUE
Adds(it, f, S) ==
  it = [s \in SUBSET S |-> IF s = {} THEN 0 ELSE f[Pick(s)] + it[s \ {Pick(s)}]]
SumOf(f, S) == (CHOOSE it : Adds(it, f, S))[S]
Summable(f, S) == IsFiniteSet(S) /\ \A x \in S : f[x] \in Int

(* A set of naturals has a least element.                                  *)
LEMMA Least == ASSUME NEW T \in SUBSET Nat, T # {} PROVE \E x \in T : \A y \in T : x <= y
<1> DEFINE Less == {ss \in Nat \X Nat : ss[1] < ss[2]}
<1>1. IsWellFoundedOn(Less, Nat)
  BY NatLessThanWellFounded DEF OpToRel
<1> HIDE DEF Less
<1>2. PICK x \in T : \A y \in T : <<y, x>> \notin Less
  BY <1>1, WFMin
<1>3. \A y \in T : ~(y < x)
  <2>1. SUFFICES ASSUME NEW y \in T, y < x PROVE <<y, x>> \in Less
    BY <1>2
  <2> QED
    BY <2>1 DEF Less
<1> QED
  BY <1>3

(* A subset, one element fewer.                                            *)
LEMMA OneFewer ==
  ASSUME NEW S, IsFiniteSet(S), NEW s \in SUBSET S, NEW x \in s
  PROVE  /\ s \ {x} \in SUBSET S /\ Cardinality(s) \in Nat
         /\ Cardinality(s \ {x}) = Cardinality(s) - 1 /\ Cardinality(s \ {x}) \in Nat
<1>1. IsFiniteSet(s)
  BY FS_Subset
<1>2. IsFiniteSet(s \ {x}) /\ Cardinality(s \ {x}) = Cardinality(s) - 1
  BY <1>1, FS_RemoveElement
<1> QED
  BY <1>1, <1>2, FS_CardinalityType

(* The values of a function of finitely many arguments.                    *)
LEMMA FiniteImage ==
  ASSUME NEW f, NEW S, IsFiniteSet(S), f = [x \in S |-> f[x]]
  PROVE  IsFiniteSet({f[x] : x \in S})
<1>1. f \in Surjection(S, {f[x] : x \in S})
  BY DEF Surjection
<1> QED
  BY <1>1, FS_Surjection

LEMMA Picked == ASSUME NEW s, s # {} PROVE Pick(s) \in s
BY DEF Pick

(* The same function, over the subsets of at most n elements only.         *)
Upto(S, n) == {s \in SUBSET S : Cardinality(s) <= n}
AddsUpto(it, f, S, n) ==
  it = [s \in Upto(S, n) |-> IF s = {} THEN 0 ELSE f[Pick(s)] + it[s \ {Pick(s)}]]

(* It extends to one element more, so by the least n at which there is     *)
(* none, there is one for all of S.                                        *)
LEMMA OneLevelMore ==
  ASSUME NEW f, NEW S, IsFiniteSet(S), NEW n \in Nat, NEW it, AddsUpto(it, f, S, n)
  PROVE  \E more : AddsUpto(more, f, S, n + 1)
<1> DEFINE more == [s \in Upto(S, n + 1) |-> IF s = {} THEN 0 ELSE f[Pick(s)] + it[s \ {Pick(s)}]]
<1>1. ASSUME NEW s \in Upto(S, n + 1), s # {} PROVE more[s] = f[Pick(s)] + more[s \ {Pick(s)}]
  <2>1. s \in SUBSET S /\ Pick(s) \in s /\ Cardinality(s) <= n + 1
    BY <1>1, Picked DEF Upto
  <2>2. s \ {Pick(s)} \in Upto(S, n) /\ s \ {Pick(s)} \in Upto(S, n + 1)
    BY <2>1, OneFewer DEF Upto
  <2> DEFINE r == s \ {Pick(s)}
  <2>3. it[r] = IF r = {} THEN 0 ELSE f[Pick(r)] + it[r \ {Pick(r)}]
    BY <2>2 DEF AddsUpto
  <2>4. more[r] = IF r = {} THEN 0 ELSE f[Pick(r)] + it[r \ {Pick(r)}]
    BY <2>2
  <2> QED
    BY <1>1, <2>3, <2>4
<1>2. \A s \in Upto(S, n + 1) : more[s] = IF s = {} THEN 0 ELSE f[Pick(s)] + more[s \ {Pick(s)}]
  BY <1>1
<1>3. DOMAIN more = Upto(S, n + 1) /\ more = [s \in DOMAIN more |-> more[s]]
  OBVIOUS
<1> HIDE DEF more
<1>4. AddsUpto(more, f, S, n + 1)
  BY <1>2, <1>3 DEF AddsUpto
<1> QED
  BY <1>4

LEMMA SumExists == ASSUME NEW f, NEW S, IsFiniteSet(S) PROVE \E it : Adds(it, f, S)
<1> DEFINE T == {n \in Nat : ~\E it : AddsUpto(it, f, S, n)}
<1>1. T = {}
  <2> SUFFICES ASSUME T # {} PROVE FALSE
    OBVIOUS
  <2>1. PICK n \in T : \A m \in T : n <= m
    <3> HIDE DEF T
    <3>1. T \in SUBSET Nat
      BY DEF T
    <3> QED
      BY <3>1, Least
  <2>2. CASE n = 0
    <3> DEFINE none == [s \in Upto(S, 0) |-> 0]
    <3>1. ASSUME NEW s \in Upto(S, 0) PROVE s = {}
      BY FS_Subset, FS_CardinalityType, FS_EmptySet DEF Upto
    <3>2. AddsUpto(none, f, S, 0)
      BY <3>1 DEF AddsUpto
    <3> QED
      BY <2>1, <2>2, <3>2
  <2>3. CASE n # 0
    <3>1. n - 1 \in Nat /\ n - 1 \notin T /\ (n - 1) + 1 = n
      BY <2>1, <2>3
    <3>2. PICK it : AddsUpto(it, f, S, n - 1)
      BY <3>1
    <3> QED
      BY <2>1, <3>1, <3>2, OneLevelMore
  <2> QED
    BY <2>2, <2>3
<1>2. Cardinality(S) \in Nat
  BY FS_CardinalityType
<1>3. PICK it : AddsUpto(it, f, S, Cardinality(S))
  BY <1>1, <1>2
<1>4. Upto(S, Cardinality(S)) = SUBSET S
  BY FS_Subset DEF Upto
<1> QED
  BY <1>3, <1>4 DEF AddsUpto, Adds

LEMMA AddsStep ==
  ASSUME NEW it, NEW f, NEW S, Adds(it, f, S), NEW s \in SUBSET S
  PROVE  it[s] = IF s = {} THEN 0 ELSE f[Pick(s)] + it[s \ {Pick(s)}]
BY DEF Adds

LEMMA AddsInt ==
  ASSUME NEW it, NEW f, NEW S, Adds(it, f, S), Summable(f, S), NEW s \in SUBSET S
  PROVE  it[s] \in Int
<1> DEFINE T == {Cardinality(r) : r \in {q \in SUBSET S : it[q] \notin Int}}
<1>1. T \in SUBSET Nat
  BY FS_Subset, FS_CardinalityType DEF Summable
<1>2. ASSUME it[s] \notin Int PROVE FALSE
  <2>1. T # {}
    BY <1>2
  <2>2. PICK n \in T : \A m \in T : n <= m
    <3> HIDE DEF T
    <3> QED
      BY <1>1, <2>1, Least
  <2>3. PICK r \in SUBSET S : it[r] \notin Int /\ n = Cardinality(r)
    OBVIOUS
  <2>4. it[r] = IF r = {} THEN 0 ELSE f[Pick(r)] + it[r \ {Pick(r)}]
    BY AddsStep
  <2>5. r # {} /\ Pick(r) \in r
    BY <2>3, <2>4, Picked
  <2>6. /\ r \ {Pick(r)} \in SUBSET S /\ Cardinality(r) \in Nat
        /\ Cardinality(r \ {Pick(r)}) = Cardinality(r) - 1
    BY <2>5, OneFewer DEF Summable
  <2>7. it[r \ {Pick(r)}] \in Int
    <3> SUFFICES ASSUME it[r \ {Pick(r)}] \notin Int PROVE FALSE
      OBVIOUS
    <3>1. Cardinality(r \ {Pick(r)}) \in T
      BY <2>6
    <3>2. n <= Cardinality(r \ {Pick(r)})
      BY <2>2, <3>1
    <3> HIDE DEF T
    <3> QED
      BY <2>3, <2>6, <3>2
  <2>8. f[Pick(r)] \in Int
    BY <2>5 DEF Summable
  <2> QED
    BY <2>3, <2>4, <2>5, <2>7, <2>8
<1> QED
  BY <1>2

LEMMA AddsSame ==
  ASSUME NEW it, NEW f, NEW S, Adds(it, f, S), IsFiniteSet(S),
         NEW jt, NEW g, NEW R \in SUBSET S, Adds(jt, g, R), \A x \in R : f[x] = g[x],
         NEW s \in SUBSET R
  PROVE  it[s] = jt[s]
<1> DEFINE T == {Cardinality(r) : r \in {q \in SUBSET R : it[q] # jt[q]}}
<1>1. T \in SUBSET Nat
  BY FS_Subset, FS_CardinalityType
<1>2. ASSUME it[s] # jt[s] PROVE FALSE
  <2>1. T # {}
    BY <1>2
  <2>2. PICK n \in T : \A m \in T : n <= m
    <3> HIDE DEF T
    <3> QED
      BY <1>1, <2>1, Least
  <2>3. PICK r \in SUBSET R : it[r] # jt[r] /\ n = Cardinality(r)
    OBVIOUS
  <2>4. it[r] = IF r = {} THEN 0 ELSE f[Pick(r)] + it[r \ {Pick(r)}]
    <3> HIDE DEF T
    <3>1. r \in SUBSET S
      OBVIOUS
    <3> QED
      BY <3>1, AddsStep
  <2>5. jt[r] = IF r = {} THEN 0 ELSE g[Pick(r)] + jt[r \ {Pick(r)}]
    <3> HIDE DEF T
    <3> QED
      BY AddsStep
  <2>6. r # {} /\ Pick(r) \in r
    BY <2>3, <2>4, <2>5, Picked
  <2>7. /\ r \ {Pick(r)} \in SUBSET R /\ Cardinality(r) \in Nat
        /\ Cardinality(r \ {Pick(r)}) = Cardinality(r) - 1
    BY <2>6, OneFewer, FS_Subset
  <2>8. it[r \ {Pick(r)}] = jt[r \ {Pick(r)}]
    <3> SUFFICES ASSUME it[r \ {Pick(r)}] # jt[r \ {Pick(r)}] PROVE FALSE
      OBVIOUS
    <3>1. Cardinality(r \ {Pick(r)}) \in T
      BY <2>7
    <3>2. n <= Cardinality(r \ {Pick(r)})
      BY <2>2, <3>1
    <3> HIDE DEF T
    <3> QED
      BY <2>3, <2>7, <3>2
  <2> QED
    BY <2>3, <2>4, <2>5, <2>6, <2>8
<1> QED
  BY <1>2

LEMMA AddsAny ==
  ASSUME NEW it, NEW f, NEW S, Adds(it, f, S), Summable(f, S), NEW s \in SUBSET S, NEW x \in s
  PROVE  it[s] = f[x] + it[s \ {x}]
<1> DEFINE Wrong(q) == \E y \in q : it[q] # f[y] + it[q \ {y}]
           T == {Cardinality(r) : r \in {q \in SUBSET S : Wrong(q)}}
<1>1. T \in SUBSET Nat
  BY FS_Subset, FS_CardinalityType DEF Summable
<1>2. ASSUME it[s] # f[x] + it[s \ {x}] PROVE FALSE
  <2>1. T # {}
    BY <1>2
  <2>2. PICK n \in T : \A m \in T : n <= m
    <3> HIDE DEF T
    <3> QED
      BY <1>1, <2>1, Least
  <2>3. PICK r \in SUBSET S : Wrong(r) /\ n = Cardinality(r)
    OBVIOUS
  <2>4. PICK y \in r : it[r] # f[y] + it[r \ {y}]
    BY <2>3
  <2> DEFINE p == Pick(r)
  <2>5. p \in r /\ it[r] = f[p] + it[r \ {p}]
    BY <2>4, AddsStep, Picked
  <2>6. p # y
    BY <2>4, <2>5
  <2> HIDE DEF p
  <2>7. /\ r \ {p} \in SUBSET S /\ r \ {y} \in SUBSET S /\ Cardinality(r) \in Nat
        /\ Cardinality(r \ {p}) = Cardinality(r) - 1
        /\ Cardinality(r \ {y}) = Cardinality(r) - 1
    BY <2>5, OneFewer DEF Summable
  <2>8. ~Wrong(r \ {p})
    <3> SUFFICES ASSUME Wrong(r \ {p}) PROVE FALSE
      OBVIOUS
    <3>1. Cardinality(r \ {p}) \in T
      BY <2>7
    <3>2. n <= Cardinality(r \ {p})
      BY <2>2, <3>1
    <3> HIDE DEF T
    <3> QED
      BY <2>3, <2>7, <3>2
  <2>9. ~Wrong(r \ {y})
    <3> SUFFICES ASSUME Wrong(r \ {y}) PROVE FALSE
      OBVIOUS
    <3>1. Cardinality(r \ {y}) \in T
      BY <2>7
    <3>2. n <= Cardinality(r \ {y})
      BY <2>2, <3>1
    <3> HIDE DEF T
    <3> QED
      BY <2>3, <2>7, <3>2
  <2> DEFINE both == r \ {p, y}
  <2>10. (r \ {p}) \ {y} = both /\ (r \ {y}) \ {p} = both /\ both \in SUBSET S
    OBVIOUS
  <2>11. it[r \ {p}] = f[y] + it[both]
    BY <2>6, <2>8, <2>10
  <2>12. it[r \ {y}] = f[p] + it[both]
    BY <2>5, <2>6, <2>9, <2>10
  <2>13. f[p] \in Int /\ f[y] \in Int /\ it[both] \in Int
    BY <2>5, <2>10, AddsInt DEF Summable
  <2> QED
    BY <2>4, <2>5, <2>11, <2>12, <2>13
<1> QED
  BY <1>2

-----------------------------------------------------------------------------
LEMMA Chosen == ASSUME NEW f, NEW S, IsFiniteSet(S) PROVE \E it : Adds(it, f, S) /\ SumOf(f, S) = it[S]
BY SumExists DEF SumOf

LEMMA SumOfNone == ASSUME NEW f PROVE SumOf(f, {}) = 0
<1>1. PICK it : Adds(it, f, {}) /\ SumOf(f, {}) = it[{}]
  BY Chosen, FS_EmptySet
<1> QED
  BY <1>1, AddsStep

LEMMA SumTyped == ASSUME NEW f, NEW S, Summable(f, S) PROVE SumOf(f, S) \in Int
<1>1. PICK it : Adds(it, f, S) /\ SumOf(f, S) = it[S]
  BY Chosen DEF Summable
<1> QED
  BY <1>1, AddsInt

LEMMA SumSame ==
  ASSUME NEW f, NEW g, NEW S, IsFiniteSet(S), \A x \in S : f[x] = g[x]
  PROVE  SumOf(f, S) = SumOf(g, S)
<1>1. PICK it : Adds(it, f, S) /\ SumOf(f, S) = it[S]
  BY Chosen
<1>2. PICK jt : Adds(jt, g, S) /\ SumOf(g, S) = jt[S]
  BY Chosen
<1>3. it[S] = jt[S]
  BY <1>1, <1>2, AddsSame
<1> QED
  BY <1>1, <1>2, <1>3

LEMMA SumOfOneMore ==
  ASSUME NEW f, NEW S, Summable(f, S), NEW x, x \notin S, f[x] \in Int
  PROVE  SumOf(f, S \cup {x}) = f[x] + SumOf(f, S)
<1>1. Summable(f, S \cup {x})
  BY FS_AddElement DEF Summable
<1>2. PICK it : Adds(it, f, S \cup {x}) /\ SumOf(f, S \cup {x}) = it[S \cup {x}]
  BY <1>1, Chosen DEF Summable
<1>3. PICK jt : Adds(jt, f, S) /\ SumOf(f, S) = jt[S]
  BY Chosen DEF Summable
<1>4. it[S \cup {x}] = f[x] + it[(S \cup {x}) \ {x}]
  <2> DEFINE U == S \cup {x}
  <2>1. U \in SUBSET U /\ x \in U /\ Summable(f, U) /\ Adds(it, f, U)
    BY <1>1, <1>2
  <2> HIDE DEF U
  <2>2. it[U] = f[x] + it[U \ {x}]
    BY <2>1, AddsAny
  <2> QED
    BY <2>2 DEF U
<1>5. (S \cup {x}) \ {x} = S
  OBVIOUS
<1>6. it[S] = jt[S]
  BY <1>1, <1>2, <1>3, AddsSame DEF Summable
<1> QED
  BY <1>2, <1>3, <1>4, <1>5, <1>6
=============================================================================
