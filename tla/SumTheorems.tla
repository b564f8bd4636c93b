---------------------------- MODULE SumTheorems -----------------------------
(***************************************************************************)
(* Sums over finite sets: one element more or less, a function that grows  *)
(* or changes at one element.  The library's theorems say nothing of its   *)
(* folds, and its induction theorems take an operator; here the induction  *)
(* is over a set of numbers, from the theorem that < is well-founded.      *)
(***************************************************************************)
EXTENDS Sums, FiniteSetTheorems, WellFoundedInduction, TLAPS

\* Induction over the natural numbers, for a set: a least number outside of A
\* would be the successor of one in it.
LEMMA Induction ==
  ASSUME NEW A, 0 \in A, \A n \in Nat : n \in A => n + 1 \in A
  PROVE  Nat \subseteq A
<1> SUFFICES ASSUME Nat \ A # {} PROVE FALSE
  OBVIOUS
<1> DEFINE R == OpToRel(<, Nat)
<1>1. IsWellFoundedOn(R, Nat)
  BY NatLessThanWellFounded
<1>2. \A x, y \in Nat : <<y, x>> \in R <=> y < x
  BY DEF OpToRel
<1> HIDE DEF R
<1>3. PICK x \in Nat \ A : \A y \in Nat \ A : ~ (<<y, x>> \in R)
  <2>1. Nat \ A \subseteq Nat
    OBVIOUS
  <2> QED
    BY <1>1, <2>1, WFMin
<1>4. x # 0 /\ x - 1 \in Nat /\ x - 1 < x /\ (x - 1) + 1 = x
  BY <1>3
<1>5. x - 1 \in A
  BY <1>2, <1>3, <1>4
<1> QED
  BY <1>3, <1>4, <1>5

\* h gives each subset of S its sum, in whatever order it is added up.
Additive(h, f, S) ==
  /\ h \in [SUBSET S -> Int]
  /\ h[{}] = 0
  /\ \A s \in SUBSET S : \A x \in s : h[s] = f[x] + h[s \ {x}]

\* Such a function is extended by one more element, ...
LEMMA AdditiveStep ==
  ASSUME NEW S, NEW f, \A x \in S : f[x] \in Int, NEW a \in S,
         NEW g, Additive(g, f, S \ {a})
  PROVE  \E h : Additive(h, f, S)
<1> DEFINE h == [s \in SUBSET S |-> IF a \in s THEN f[a] + g[s \ {a}] ELSE g[s]]
<1>1. \A s \in SUBSET S : s \ {a} \in SUBSET (S \ {a})
                            /\ (a \notin s => s \in SUBSET (S \ {a}))
  OBVIOUS
<1>2. \A s \in SUBSET (S \ {a}) : g[s] \in Int
  BY DEF Additive
<1>3. h \in [SUBSET S -> Int]
  BY <1>1, <1>2
<1>4. h[{}] = 0
  BY DEF Additive
<1>5. ASSUME NEW s \in SUBSET S, NEW x \in s
      PROVE  h[s] = f[x] + h[s \ {x}]
  <2>1. s \ {x} \in SUBSET S
    OBVIOUS
  <2>2. CASE x = a
    <3>1. h[s] = f[a] + g[s \ {a}] /\ h[s \ {x}] = g[s \ {a}]
      BY <2>1, <2>2
    <3> QED
      BY <2>2, <3>1
  <2>3. CASE x # a /\ a \in s
    <3>1. s \ {a} \in SUBSET (S \ {a}) /\ x \in s \ {a}
      BY <2>3
    <3>2. g[s \ {a}] = f[x] + g[(s \ {a}) \ {x}]
      BY <3>1 DEF Additive
    <3>3. (s \ {x}) \ {a} = (s \ {a}) \ {x}
      OBVIOUS
    <3>4. h[s \ {x}] = f[a] + g[(s \ {a}) \ {x}]
      BY <2>1, <2>3, <3>3
    <3>5. h[s] = f[a] + g[s \ {a}]
      BY <2>3
    <3>6. f[a] \in Int /\ f[x] \in Int /\ g[(s \ {a}) \ {x}] \in Int
      BY <1>2, <3>1, <2>1
    <3> HIDE DEF h
    <3> QED
      BY <3>2, <3>4, <3>5, <3>6
  <2>4. CASE x # a /\ a \notin s
    <3>1. s \in SUBSET (S \ {a}) /\ s \ {x} \in SUBSET S /\ a \notin s \ {x}
      BY <2>4
    <3>2. g[s] = f[x] + g[s \ {x}]
      BY <3>1 DEF Additive
    <3> QED
      BY <3>1, <3>2, <2>4
  <2> QED
    BY <2>2, <2>3, <2>4
<1> HIDE DEF h
<1> QED
  BY <1>3, <1>4, <1>5 DEF Additive

\* ... and so exists for each finite set.
LEMMA AdditiveExists ==
  ASSUME NEW S, IsFiniteSet(S), NEW f, \A x \in S : f[x] \in Int
  PROVE  \E h : Additive(h, f, S)
<1> DEFINE A == {n \in Nat : \A s \in SUBSET S : Cardinality(s) = n =>
                               \E h : Additive(h, f, s)}
<1>1. 0 \in A
  <2> SUFFICES ASSUME NEW s \in SUBSET S, Cardinality(s) = 0
               PROVE  \E h : Additive(h, f, s)
    OBVIOUS
  <2>1. s = {}
    BY FS_Subset, FS_EmptySet
  <2>2. Additive([t \in SUBSET s |-> 0], f, s)
    BY <2>1 DEF Additive
  <2> QED
    BY <2>2
<1>2. ASSUME NEW n \in Nat, n \in A PROVE n + 1 \in A
  <2> SUFFICES ASSUME NEW s \in SUBSET S, Cardinality(s) = n + 1
               PROVE  \E h : Additive(h, f, s)
    OBVIOUS
  <2>1. IsFiniteSet(s)
    BY FS_Subset
  <2>2. PICK a : a \in s
    BY <1>2, <2>1, FS_EmptySet
  <2>3. Cardinality(s \ {a}) = n
    <3>1. Cardinality(s \ {a}) = Cardinality(s) - 1
      BY <2>1, <2>2, FS_RemoveElement
    <3> HIDE DEF A
    <3> QED
      BY <1>2, <3>1
  <2>4. PICK g : Additive(g, f, s \ {a})
    BY <1>2, <2>3
  <2> QED
    BY <2>2, <2>4, AdditiveStep
<1> HIDE DEF A
<1>3. Cardinality(S) \in Nat
  BY FS_CardinalityType
<1>4. Cardinality(S) \in A
  BY <1>1, <1>2, <1>3, Induction
<1> QED
  BY <1>4 DEF A

\* The order in which MapThenSumSet adds up.
Pick(s) == CHOOSE x \in s : TRUE

\* The recursion that MapThenSumSet stands for.
IsSum(g, f, S) ==
  g = [s \in SUBSET S |-> IF s = {} THEN 0 ELSE f[Pick(s)] + g[s \ {Pick(s)}]]

\* It takes an element of the set.
LEMMA PickIn == \A s : s # {} => Pick(s) \in s
  BY DEF Pick

\* An additive function gives the same sum in that order, ...
LEMMA SumIsAdditive ==
  ASSUME NEW S, NEW f, \A x \in S : f[x] \in Int, NEW h, Additive(h, f, S)
  PROVE  IsSum(h, f, S)
<1> DEFINE r == [s \in SUBSET S |-> IF s = {} THEN 0 ELSE f[Pick(s)] + h[s \ {Pick(s)}]]
<1>1. ASSUME NEW s \in SUBSET S PROVE h[s] = r[s]
  <2>1. CASE s = {}
    BY <2>1 DEF Additive
  <2>2. CASE s # {}
    BY <2>2, PickIn DEF Additive
  <2> QED
    BY <2>1, <2>2
<1>2. h = [s \in SUBSET S |-> h[s]]
  BY DEF Additive
<1> HIDE DEF r
<1>3. r = [s \in SUBSET S |-> r[s]]
  BY DEF r
<1>4. h = r
  BY <1>1, <1>2, <1>3
<1> QED
  BY <1>4 DEF IsSum, r

\* ... and no two functions satisfy that recursion.
LEMMA SumUnique ==
  ASSUME NEW S, IsFiniteSet(S), NEW f, NEW g, NEW h, IsSum(g, f, S), IsSum(h, f, S)
  PROVE  g = h
<1> DEFINE A == {n \in Nat : \A s \in SUBSET S : Cardinality(s) = n => g[s] = h[s]}
<1>0. \A s \in SUBSET S :
        /\ g[s] = IF s = {} THEN 0 ELSE f[Pick(s)] + g[s \ {Pick(s)}]
        /\ h[s] = IF s = {} THEN 0 ELSE f[Pick(s)] + h[s \ {Pick(s)}]
  <2> SUFFICES ASSUME NEW s \in SUBSET S
               PROVE  /\ g[s] = IF s = {} THEN 0 ELSE f[Pick(s)] + g[s \ {Pick(s)}]
                      /\ h[s] = IF s = {} THEN 0 ELSE f[Pick(s)] + h[s \ {Pick(s)}]
    OBVIOUS
  <2>1. g[s] = IF s = {} THEN 0 ELSE f[Pick(s)] + g[s \ {Pick(s)}]
    BY Zenon DEF IsSum
  <2>2. h[s] = IF s = {} THEN 0 ELSE f[Pick(s)] + h[s \ {Pick(s)}]
    BY Zenon DEF IsSum
  <2> QED
    BY <2>1, <2>2
<1>1. 0 \in A
  <2> SUFFICES ASSUME NEW s \in SUBSET S, Cardinality(s) = 0
               PROVE  g[s] = h[s]
    OBVIOUS
  <2>1. s = {}
    BY FS_Subset, FS_EmptySet
  <2> QED
    BY <1>0, <2>1
<1>2. ASSUME NEW n \in Nat, n \in A PROVE n + 1 \in A
  <2> SUFFICES ASSUME NEW s \in SUBSET S, Cardinality(s) = n + 1
               PROVE  g[s] = h[s]
    OBVIOUS
  <2>1. IsFiniteSet(s) /\ s # {}
    BY <1>2, FS_Subset, FS_EmptySet
  <2>2. s \ {Pick(s)} \in SUBSET S /\ Pick(s) \in s
    BY <2>1, PickIn
  <2>3. Cardinality(s \ {Pick(s)}) = n
    <3>1. Cardinality(s \ {Pick(s)}) = Cardinality(s) - 1
      BY <2>1, <2>2, FS_RemoveElement
    <3> HIDE DEF A
    <3> QED
      BY <1>2, <3>1
  <2>4. g[s \ {Pick(s)}] = h[s \ {Pick(s)}]
    BY <1>2, <2>2, <2>3
  <2> QED
    BY <1>0, <2>1, <2>4
<1> HIDE DEF A
<1>3. ASSUME NEW s \in SUBSET S PROVE g[s] = h[s]
  <2>1. Cardinality(s) \in Nat
    BY FS_Subset, FS_CardinalityType
  <2>2. Cardinality(s) \in A
    BY <1>1, <1>2, <2>1, Induction
  <2> QED
    BY <2>2 DEF A
<1>4. /\ g = [s \in SUBSET S |-> g[s]]
      /\ h = [s \in SUBSET S |-> h[s]]
  <2>1. g = [s \in SUBSET S |-> g[s]]
    BY Zenon DEF IsSum
  <2>2. h = [s \in SUBSET S |-> h[s]]
    BY Zenon DEF IsSum
  <2> QED
    BY <2>1, <2>2
<1> QED
  BY <1>3, <1>4

\* The sum of the standard module is the additive function at the whole set.
LEMMA SumOnIs ==
  ASSUME NEW S, IsFiniteSet(S), NEW f, \A x \in S : f[x] \in Int, NEW h, Additive(h, f, S)
  PROVE  SumOn(f, S) = h[S]
<1> DEFINE g == CHOOSE g : IsSum(g, f, S)
<1>1. IsSum(h, f, S)
  BY SumIsAdditive
<1>2. IsSum(g, f, S)
  BY <1>1, Zenon
<1> HIDE DEF g
<1>3. g = h
  BY <1>1, <1>2, SumUnique
<1>4. SumOn(f, S) = g[S]
  BY DEF SumOn, g, IsSum, Pick, MapThenSumSet, MapThenFoldSet
<1> QED
  BY <1>3, <1>4

-----------------------------------------------------------------------------
(* What the proofs cite. *)

\* Nothing adds up to zero.
LEMMA SumEmpty == ASSUME NEW f PROVE SumOn(f, {}) = 0
<1>1. Additive([s \in SUBSET {} |-> 0], f, {})
  BY DEF Additive
<1> QED
  BY <1>1, SumOnIs, FS_EmptySet

\* One element, and the sum of the others.
LEMMA SumRemove ==
  ASSUME NEW S, IsFiniteSet(S), NEW f, \A x \in S : f[x] \in Int, NEW a \in S
  PROVE  /\ SumOn(f, S) \in Int /\ SumOn(f, S \ {a}) \in Int
         /\ SumOn(f, S) = f[a] + SumOn(f, S \ {a})
<1>1. PICK h : Additive(h, f, S)
  BY AdditiveExists
<1> DEFINE g == [s \in SUBSET (S \ {a}) |-> h[s]]
<1>2. Additive(g, f, S \ {a})
  <2>1. SUBSET (S \ {a}) \subseteq SUBSET S
    OBVIOUS
  <2>2. g \in [SUBSET (S \ {a}) -> Int] /\ g[{}] = 0
    BY <1>1, <2>1 DEF Additive
  <2>3. ASSUME NEW s \in SUBSET (S \ {a}), NEW x \in s
        PROVE  g[s] = f[x] + g[s \ {x}]
    BY <1>1, <2>1 DEF Additive
  <2> HIDE DEF g
  <2> QED
    BY <2>2, <2>3 DEF Additive
<1>3. SumOn(f, S) = h[S]
  BY <1>1, SumOnIs
<1>4. SumOn(f, S \ {a}) = g[S \ {a}]
  <2>1. IsFiniteSet(S \ {a})
    BY FS_RemoveElement
  <2> HIDE DEF g
  <2> QED
    BY <1>2, <2>1, SumOnIs
<1>5. h[S] = f[a] + h[S \ {a}] /\ h[S] \in Int /\ h[S \ {a}] \in Int
  BY <1>1 DEF Additive
<1> QED
  BY <1>3, <1>4, <1>5

\* A sum of integers is one.
LEMMA SumInt ==
  ASSUME NEW S, IsFiniteSet(S), NEW f, \A x \in S : f[x] \in Int
  PROVE  SumOn(f, S) \in Int
<1>1. CASE S = {}
  BY <1>1, SumEmpty
<1>2. CASE S # {}
  BY <1>2, SumRemove
<1> QED
  BY <1>1, <1>2

\* A sum goes on to one more element.
LEMMA SumAdd ==
  ASSUME NEW S, IsFiniteSet(S), NEW a, a \notin S,
         NEW f, \A x \in S \cup {a} : f[x] \in Int
  PROVE  SumOn(f, S \cup {a}) = f[a] + SumOn(f, S)
<1>1. IsFiniteSet(S \cup {a}) /\ (S \cup {a}) \ {a} = S
  BY FS_AddElement
<1>2. SumOn(f, S \cup {a}) = f[a] + SumOn(f, (S \cup {a}) \ {a})
  BY <1>1, SumRemove
<1> QED
  BY <1>1, <1>2

\* The sum depends on the values on the set alone.
LEMMA SumAgree ==
  ASSUME NEW S, IsFiniteSet(S), NEW f, NEW g,
         \A x \in S : f[x] \in Int /\ g[x] = f[x]
  PROVE  SumOn(g, S) = SumOn(f, S)
<1>1. PICK h : Additive(h, f, S)
  BY AdditiveExists
<1>2. Additive(h, g, S)
  BY <1>1 DEF Additive
<1> QED
  BY <1>1, <1>2, SumOnIs

\* It grows with them.
LEMMA SumMonotone ==
  ASSUME NEW S, IsFiniteSet(S), NEW f, NEW g,
         \A x \in S : f[x] \in Int /\ g[x] \in Int /\ f[x] <= g[x]
  PROVE  SumOn(f, S) <= SumOn(g, S)
<1> DEFINE A == {n \in Nat : \A s \in SUBSET S :
                               Cardinality(s) = n => SumOn(f, s) <= SumOn(g, s)}
<1>1. 0 \in A
  <2> SUFFICES ASSUME NEW s \in SUBSET S, Cardinality(s) = 0
               PROVE  SumOn(f, s) <= SumOn(g, s)
    OBVIOUS
  <2>1. s = {}
    BY FS_Subset, FS_EmptySet
  <2> QED
    BY <2>1, SumEmpty
<1>2. ASSUME NEW n \in Nat, n \in A PROVE n + 1 \in A
  <2> SUFFICES ASSUME NEW s \in SUBSET S, Cardinality(s) = n + 1
               PROVE  SumOn(f, s) <= SumOn(g, s)
    OBVIOUS
  <2>1. IsFiniteSet(s)
    BY FS_Subset
  <2>2. PICK a : a \in s
    BY <1>2, <2>1, FS_EmptySet
  <2>3. Cardinality(s \ {a}) = n
    <3>1. Cardinality(s \ {a}) = Cardinality(s) - 1
      BY <2>1, <2>2, FS_RemoveElement
    <3> HIDE DEF A
    <3> QED
      BY <1>2, <3>1
  <2>4. SumOn(f, s \ {a}) <= SumOn(g, s \ {a})
    BY <1>2, <2>3
  <2>5. /\ SumOn(f, s) = f[a] + SumOn(f, s \ {a}) /\ SumOn(f, s \ {a}) \in Int
        /\ SumOn(g, s) = g[a] + SumOn(g, s \ {a}) /\ SumOn(g, s \ {a}) \in Int
    BY <2>1, <2>2, SumRemove
  <2>6. f[a] \in Int /\ g[a] \in Int /\ f[a] <= g[a]
    BY <2>2
  <2> HIDE DEF A
  <2> QED
    BY <2>4, <2>5, <2>6
<1> HIDE DEF A
<1>3. Cardinality(S) \in Nat
  BY FS_CardinalityType
<1>4. Cardinality(S) \in A
  BY <1>1, <1>2, <1>3, Induction
<1> QED
  BY <1>4 DEF A

\* A sum of natural numbers is one.
LEMMA SumNat ==
  ASSUME NEW S, IsFiniteSet(S), NEW f, \A x \in S : f[x] \in Nat
  PROVE  SumOn(f, S) \in Nat
<1> DEFINE zero == [x \in S |-> 0]
<1>1. Additive([s \in SUBSET S |-> 0], zero, S)
  BY DEF Additive
<1>2. \A x \in S : zero[x] = 0
  OBVIOUS
<1> HIDE DEF zero
<1>3. SumOn(zero, S) = 0
  BY <1>1, <1>2, SumOnIs
<1>4. 0 <= SumOn(f, S)
  BY <1>2, <1>3, SumMonotone
<1> QED
  BY <1>4, SumInt

\* A function that changes at one element.
LEMMA SumChange ==
  ASSUME NEW S, IsFiniteSet(S), NEW f, NEW g, NEW a \in S,
         \A x \in S : f[x] \in Int /\ g[x] \in Int,
         \A x \in S \ {a} : g[x] = f[x]
  PROVE  SumOn(g, S) = SumOn(f, S) + (g[a] - f[a])
<1>1. IsFiniteSet(S \ {a})
  BY FS_RemoveElement
<1>2. SumOn(g, S \ {a}) = SumOn(f, S \ {a})
  BY <1>1, SumAgree
<1>3. /\ SumOn(f, S) = f[a] + SumOn(f, S \ {a}) /\ SumOn(f, S \ {a}) \in Int
      /\ SumOn(g, S) = g[a] + SumOn(g, S \ {a})
  BY SumRemove
<1>4. f[a] \in Int /\ g[a] \in Int
  OBVIOUS
<1> QED
  BY <1>2, <1>3, <1>4

\* Fewer terms, none of them negative.
LEMMA SumSubset ==
  ASSUME NEW T, IsFiniteSet(T), NEW S \in SUBSET T, NEW f, \A x \in T : f[x] \in Nat
  PROVE  SumOn(f, S) \in Nat /\ SumOn(f, T) \in Nat /\ SumOn(f, S) <= SumOn(f, T)
<1> DEFINE A == {n \in Nat : \A R \in SUBSET (T \ S) :
                   Cardinality(R) = n => SumOn(f, S) <= SumOn(f, S \cup R)}
<1>1. ASSUME NEW R \in SUBSET T PROVE IsFiniteSet(R) /\ SumOn(f, R) \in Nat
  <2>1. IsFiniteSet(R)
    BY FS_Subset
  <2> QED
    BY <2>1, SumNat
<1>2. 0 \in A
  <2> SUFFICES ASSUME NEW R \in SUBSET (T \ S), Cardinality(R) = 0
               PROVE  SumOn(f, S) <= SumOn(f, S \cup R)
    OBVIOUS
  <2>1. R = {}
    BY <1>1, FS_EmptySet
  <2>2. S \cup R = S /\ SumOn(f, S) \in Nat
    BY <1>1, <2>1
  <2> QED
    BY <2>2
<1>3. ASSUME NEW n \in Nat, n \in A PROVE n + 1 \in A
  <2> SUFFICES ASSUME NEW R \in SUBSET (T \ S), Cardinality(R) = n + 1
               PROVE  SumOn(f, S) <= SumOn(f, S \cup R)
    OBVIOUS
  <2>1. IsFiniteSet(R)
    BY <1>1
  <2>2. PICK a : a \in R
    BY <2>1, FS_EmptySet
  <2>3. Cardinality(R \ {a}) = n
    <3>1. Cardinality(R \ {a}) = Cardinality(R) - 1
      BY <2>1, <2>2, FS_RemoveElement
    <3> QED
      BY <3>1
  <2>4. R \ {a} \in SUBSET (T \ S)
    OBVIOUS
  <2>5. SumOn(f, S) <= SumOn(f, S \cup (R \ {a}))
    BY <1>3, <2>3, <2>4
  <2> DEFINE U == S \cup (R \ {a})
  <2>6. U \cup {a} = S \cup R /\ a \notin U /\ U \in SUBSET T /\ U \cup {a} \in SUBSET T
    BY <2>2
  <2> HIDE DEF U
  <2>7. SumOn(f, U \cup {a}) = f[a] + SumOn(f, U)
    <3>1. \A x \in U \cup {a} : f[x] \in Int
      BY <2>6
    <3> QED
      BY <1>1, <2>6, <3>1, SumAdd
  <2>8. f[a] \in Nat /\ SumOn(f, U) \in Nat /\ SumOn(f, S) \in Nat
    BY <1>1, <2>2, <2>6
  <2>9. SumOn(f, S) <= SumOn(f, U)
    BY <2>5 DEF U
  <2> QED
    BY <2>6, <2>7, <2>8, <2>9
<1> HIDE DEF A
<1>4. Nat \subseteq A
  BY <1>2, <1>3, Induction
<1>5. IsFiniteSet(T \ S) /\ T \ S \in SUBSET (T \ S) /\ S \cup (T \ S) = T
  <2>1. T \ S \in SUBSET T
    OBVIOUS
  <2> QED
    BY <1>1, <2>1
<1>6. Cardinality(T \ S) \in A
  BY <1>4, <1>5, FS_CardinalityType
<1>7. SumOn(f, S) <= SumOn(f, S \cup (T \ S))
  BY <1>5, <1>6 DEF A
<1> QED
  BY <1>1, <1>5, <1>7
=============================================================================
