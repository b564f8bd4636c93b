----------------------------- MODULE StatProofs -----------------------------
(***************************************************************************)
(* Proofs about StreamStat for any number of threads, latencies and        *)
(* samples, and of buckets of any size: where a latency is counted, which  *)
(* counters main has freed under a thread's hands, how much the samples    *)
(* may miss, and how near the percentiles are.                             *)
(***************************************************************************)
EXTENDS StreamStat, SumTheorems, TLAPS

-----------------------------------------------------------------------------
(* Powers of ten *)

\* The first n powers.
IsPow(f, n) ==
  /\ f \in [0 .. n -> Nat] /\ f[0] = 1
  /\ \A m \in 1 .. n : f[m] = 10 * f[m - 1]

LEMMA PowStep ==
  ASSUME NEW n \in Nat, NEW f, IsPow(f, n)
  PROVE  \E g : IsPow(g, n + 1)
<1> DEFINE g == [m \in 0 .. n + 1 |-> IF m = n + 1 THEN 10 * f[n] ELSE f[m]]
<1>1. \A m \in 0 .. n : f[m] \in Nat /\ g[m] = f[m]
  BY DEF IsPow
<1>2. g \in [0 .. n + 1 -> Nat] /\ g[0] = 1 /\ g[n + 1] = 10 * f[n]
  BY <1>1 DEF IsPow
<1>3. \A m \in 1 .. n + 1 : m - 1 \in 0 .. n /\ (m = n + 1 \/ m \in 1 .. n)
  OBVIOUS
<1>4. \A m \in 1 .. n + 1 : g[m] = 10 * g[m - 1]
  <2> SUFFICES ASSUME NEW m \in 1 .. n + 1 PROVE g[m] = 10 * g[m - 1]
    OBVIOUS
  <2>1. g[m - 1] = f[m - 1]
    BY <1>1, <1>3
  <2>2. CASE m = n + 1
    BY <1>2, <2>1, <2>2
  <2>3. CASE m \in 1 .. n
    BY <1>1, <2>1, <2>3 DEF IsPow
  <2> QED
    BY <1>3, <2>2, <2>3
<1> HIDE DEF g
<1>5. IsPow(g, n + 1)
  BY <1>2, <1>4 DEF IsPow
<1> QED
  BY <1>5

LEMMA PowExists == \A n \in Nat : \E f : IsPow(f, n)
<1> DEFINE A == {n \in Nat : \E f : IsPow(f, n)}
<1>1. 0 \in A
  <2> DEFINE f == [m \in 0 .. 0 |-> 1]
  <2>1. IsPow(f, 0)
    BY DEF IsPow
  <2> QED
    BY <2>1
<1>2. \A n \in Nat : n \in A => n + 1 \in A
  BY PowStep
<1> HIDE DEF A
<1>3. Nat \subseteq A
  BY <1>1, <1>2, Induction
<1> QED
  BY <1>3 DEF A

LEMMA PowUnique ==
  ASSUME NEW n \in Nat, NEW k \in Nat, NEW f, NEW g, IsPow(f, n), IsPow(g, k),
         NEW m \in Nat, m <= n, m <= k
  PROVE  f[m] = g[m]
<1> DEFINE A == {i \in Nat : i <= n /\ i <= k => f[i] = g[i]}
<1>1. 0 \in A
  BY DEF IsPow
<1>2. ASSUME NEW i \in Nat, i \in A PROVE i + 1 \in A
  <2> SUFFICES ASSUME i + 1 <= n, i + 1 <= k PROVE f[i + 1] = g[i + 1]
    OBVIOUS
  <2>1. i + 1 \in 1 .. n /\ i + 1 \in 1 .. k /\ (i + 1) - 1 = i
    OBVIOUS
  <2>2. f[i] = g[i]
    BY <1>2
  <2>3. f[i + 1] = 10 * f[(i + 1) - 1] /\ g[i + 1] = 10 * g[(i + 1) - 1]
    BY <2>1, Zenon DEF IsPow
  <2> QED
    BY <2>1, <2>2, <2>3
<1> HIDE DEF A
<1>3. Nat \subseteq A
  BY <1>1, <1>2, Induction
<1> QED
  BY <1>3 DEF A

\* The recursive function is what its definition says.
LEMMA PowDef ==
  Pow10 = [n \in Nat |-> IF n = 0 THEN 1 ELSE 10 * Pow10[n - 1]]
<1> DEFINE P(g) == g = [n \in Nat |-> IF n = 0 THEN 1 ELSE 10 * g[n - 1]]
           upto(n) == CHOOSE f : IsPow(f, n)
           h == [n \in Nat |-> upto(n)[n]]
<1>1. \A n \in Nat : IsPow(upto(n), n)
  BY PowExists, Zenon
<1> HIDE DEF upto
<1>2. ASSUME NEW n \in Nat PROVE h[n] = IF n = 0 THEN 1 ELSE 10 * h[n - 1]
  <2>1. CASE n = 0
    BY <1>1, <2>1 DEF IsPow
  <2>2. CASE n # 0
    <3>1. n - 1 \in Nat /\ n \in 1 .. n /\ n - 1 <= n /\ n - 1 <= n - 1
      BY <2>2
    <3>2. upto(n)[n] = 10 * upto(n)[n - 1]
      BY <1>1, <3>1 DEF IsPow
    <3>3. upto(n)[n - 1] = upto(n - 1)[n - 1]
      BY <1>1, <3>1, PowUnique
    <3> QED
      BY <2>2, <3>1, <3>2, <3>3
  <2> QED
    BY <2>1, <2>2
<1>3. h = [n \in Nat |-> IF n = 0 THEN 1 ELSE 10 * h[n - 1]]
  <2>1. h = [n \in Nat |-> h[n]]
    OBVIOUS
  <2> HIDE DEF h
  <2> QED
    BY <1>2, <2>1
<1> HIDE DEF h
<1>4. P(h)
  BY <1>3
<1>5. P(CHOOSE g : P(g))
  BY <1>4, Zenon
<1> QED
  BY <1>5 DEF Pow10

LEMMA PowFacts ==
  /\ Pow10[0] = 1
  /\ \A n \in Nat : /\ Pow10[n] \in Nat \ {0}
                    /\ Pow10[n + 1] = 10 * Pow10[n]
                    /\ n # 0 => Pow10[n] >= 10
<1>1. Pow10[0] = 1
  BY PowDef
<1>2. \A n \in Nat : Pow10[n + 1] = 10 * Pow10[n]
  <2> SUFFICES ASSUME NEW n \in Nat PROVE Pow10[n + 1] = 10 * Pow10[n]
    OBVIOUS
  <2>1. n + 1 \in Nat /\ n + 1 # 0 /\ (n + 1) - 1 = n
    OBVIOUS
  <2> QED
    BY <2>1, PowDef
<1> DEFINE A == {n \in Nat : Pow10[n] \in Nat \ {0} /\ (n # 0 => Pow10[n] >= 10)}
<1>3. 0 \in A
  BY <1>1
<1>4. \A n \in Nat : n \in A => n + 1 \in A
  BY <1>2
<1> HIDE DEF A
<1>5. Nat \subseteq A
  BY <1>3, <1>4, Induction
<1> QED
  BY <1>1, <1>2, <1>5 DEF A

\* The least of a set of natural numbers.
LEMMA LeastIs ==
  ASSUME NEW S \in SUBSET Nat, S # {}
  PROVE  Min(S) \in S /\ \A y \in S : Min(S) <= y
<1> DEFINE R == OpToRel(<, Nat)
<1>1. IsWellFoundedOn(R, Nat)
  BY NatLessThanWellFounded
<1>2. \A x, y \in Nat : <<y, x>> \in R <=> y < x
  BY DEF OpToRel
<1> HIDE DEF R
<1>3. PICK x \in S : \A y \in S : ~ (<<y, x>> \in R)
  BY <1>1, WFMin
<1>4. \A y \in S : x <= y
  <2> SUFFICES ASSUME NEW y \in S PROVE x <= y
    OBVIOUS
  <2>1. x \in Nat /\ y \in Nat
    OBVIOUS
  <2>2. ~ (y < x)
    BY <1>2, <1>3, <2>1, Zenon
  <2> QED
    BY <2>1, <2>2
<1> QED
  BY <1>4 DEF Min

-----------------------------------------------------------------------------
(* Where a latency is counted *)

LEMMA SizeFacts ==
  /\ Buckets \in Nat \ {0} /\ BucketSize \in Nat /\ BucketSize >= 10
  /\ Size = Buckets * BucketSize /\ Size \in Nat
<1>1. Buckets \in Nat \ {0} /\ BucketSizeExp \in Nat \ {0}
  BY StatAssumption
<1>2. BucketSize \in Nat /\ BucketSize >= 10
  BY <1>1, PowFacts DEF BucketSize
<1>3. \A a, b \in Nat : a * b \in Nat
  OBVIOUS
<1> QED
  BY <1>1, <1>2, <1>3 DEF Size

\* In the bucket of a latency its quotient is up to a power of ten, ...
LEMMA BucketFacts ==
  ASSUME NEW v \in Nat
  PROVE  /\ Bucket(v) \in 0 .. Buckets
         /\ Bucket(v) < Buckets => v \div BucketSize <= Pow10[Bucket(v)]
         /\ \A b \in 0 .. Buckets - 1 : v \div BucketSize <= Pow10[b] => Bucket(v) <= b
<1> DEFINE S == {Buckets} \cup {b \in 0 .. Buckets - 1 : v \div BucketSize <= Pow10[b]}
<1>1. S \in SUBSET Nat /\ S # {} /\ S \subseteq 0 .. Buckets
  BY SizeFacts
<1>2. Bucket(v) = Min(S)
  BY DEF Bucket
<1>3. \A b \in S : b = Buckets \/ v \div BucketSize <= Pow10[b]
  OBVIOUS
<1>4. \A b \in 0 .. Buckets - 1 : v \div BucketSize <= Pow10[b] => b \in S
  OBVIOUS
<1> HIDE DEF S
<1>5. Min(S) \in S /\ \A y \in S : Min(S) <= y
  BY <1>1, LeastIs
<1>6. Bucket(v) \in 0 .. Buckets
  BY <1>1, <1>2, <1>5
<1>7. Bucket(v) < Buckets => v \div BucketSize <= Pow10[Bucket(v)]
  BY <1>2, <1>3, <1>5, <1>6, SizeFacts
<1>8. \A b \in 0 .. Buckets - 1 : v \div BucketSize <= Pow10[b] => Bucket(v) <= b
  BY <1>2, <1>4, <1>5
<1> QED
  BY <1>6, <1>7, <1>8

\* Multiplication keeps the order.
LEMMA ProductGrows ==
  ASSUME NEW a \in Nat, NEW x \in Nat, NEW y \in Nat, x <= y
  PROVE  a * x \in Nat /\ a * y \in Nat /\ a * x <= a * y
<1>1. PICK d \in Nat : y = x + d
  BY y - x \in Nat
<1>2. a * y = a * x + a * d /\ a * d \in Nat /\ a * x \in Nat
  BY <1>1
<1> QED
  BY <1>2

\* The quotient and the remainder, in the form the solver can use.
LEMMA Division ==
  ASSUME NEW a \in Nat, NEW w \in Nat \ {0}
  PROVE  /\ a \div w \in Nat /\ a % w \in Nat /\ (a % w) + 1 <= w
         /\ a = (w * (a \div w)) + (a % w)
<1>1. a % w \in Nat /\ (a % w) + 1 <= w
  OBVIOUS
<1>2. a \div w \in Nat
  OBVIOUS
<1>3. a = (w * (a \div w)) + (a % w)
  OBVIOUS
<1> QED
  BY <1>1, <1>2, <1>3

\* ... and the slot is the latency by the width of the bucket, to the nearest.
LEMMA CompressedFacts ==
  ASSUME NEW v \in Nat, NEW w, w = Pow10[Bucket(v)]
  PROVE  /\ w \in Nat \ {0} /\ Compressed(v) \in Nat
         /\ 2 * (w * Compressed(v)) <= 2 * v + w
         /\ 2 * v < 2 * (w * Compressed(v)) + w + 1
<1>1. w \in Nat \ {0}
  BY BucketFacts, PowFacts, SizeFacts
<1>2. CASE w = 1
  BY <1>2 DEF Compressed
<1>3. CASE w # 1
  <2> DEFINE a == v + w \div 2
             q == a \div w
           r == a % w
  <2>1. a \in Nat /\ 2 * (w \div 2) <= w /\ w <= 2 * (w \div 2) + 1
    BY <1>1
  <2>3. Compressed(v) = q
    BY <1>3 DEF Compressed
  <2>5. 2 * a = 2 * v + 2 * (w \div 2)
    BY <1>1
  <2> HIDE DEF a
  <2>2. q \in Nat /\ r \in Nat /\ r + 1 <= w /\ a = (w * q) + r
    BY <1>1, <2>1, Division
  <2> HIDE DEF q, r
  <2>4. w * q \in Nat
    BY <1>1, <2>2
  <2>6. 2 * (w * q) + 2 * r = 2 * a
    BY <1>1, <2>1, <2>2, <2>4
  <2> QED
    BY <1>1, <2>1, <2>2, <2>3, <2>4, <2>5, <2>6
<1> QED
  BY <1>1, <1>2, <1>3

\* Only the last slots of the last bucket, and what is below a bucket, have
\* no index.
LEMMA NoIndexAtEnds ==
  ASSUME NEW v \in Nat, NoIndex(v), v >= BucketSize
  PROVE  2 * v >= (2 * BucketSize - 1) * Pow10[Buckets - 1]
<1> DEFINE b == Bucket(v)
           w == Pow10[b]
           c == Compressed(v)
           S == BucketSize
<1>0. S \in Nat /\ S >= 10 /\ Buckets \in Nat \ {0}
  BY SizeFacts
<1>1. v \div S # 0
  BY <1>0
<1>2. b < Buckets /\ b * S + c >= Buckets * S
  BY <1>1 DEF NoIndex, Index, IndexOf, Size
<1>3. b \in Nat /\ v \div S <= w
  BY <1>2, BucketFacts
<1>4. w \in Nat \ {0} /\ c \in Nat /\ 2 * (w * c) <= 2 * v + w
  BY CompressedFacts
<1>5. v < (w + 1) * S
  <2>1. /\ v = (S * (v \div S)) + (v % S) /\ (v % S) < S
        /\ v \div S \in Nat /\ (v % S) \in Nat
    BY <1>0
  <2>2. S * (v \div S) <= S * w
    BY <1>0, <1>3, <1>4, <2>1, ProductGrows
  <2>3. (w + 1) * S = S * w + S /\ S * w \in Nat
    BY <1>0, <1>4
  <2> QED
    BY <1>0, <2>1, <2>2, <2>3
<1> HIDE DEF b, w, c, S
<1>6. CASE b = Buckets - 1
  <2>1. Buckets * S = b * S + S
    BY <1>0, <1>3, <1>6
  <2>2. b * S \in Nat /\ c >= S
    BY <1>0, <1>2, <1>3, <1>4, <2>1
  <2>3. w * S <= w * c /\ w * S \in Nat /\ w * c \in Nat
    BY <1>0, <1>4, <2>2, ProductGrows
  <2>4. (2 * S - 1) * w = 2 * (w * S) - w
    BY <1>0, <1>4
  <2>5. w = Pow10[Buckets - 1]
    BY <1>6 DEF w
  <2>6. 2 * v >= (2 * S - 1) * w
    BY <1>4, <2>3, <2>4
  <2> QED
    BY <2>5, <2>6 DEF S
<1>7. CASE b # Buckets - 1
  <2>1. PICK d \in Nat : Buckets = b + 2 + d
    BY <1>0, <1>2, <1>3, <1>7, Buckets - (b + 2) \in Nat
  <2>2. Buckets * S = b * S + 2 * S + d * S /\ d * S \in Nat /\ b * S \in Nat
    BY <1>0, <1>3, <2>1
  <2>3. c >= 2 * S
    BY <1>0, <1>2, <1>4, <2>2
  <2>4. w * (2 * S) <= w * c /\ w * c \in Nat
    BY <1>0, <1>4, <2>3, ProductGrows
  <2>5. /\ w * (2 * S) = 2 * (w * S) /\ (w + 1) * S = w * S + S /\ w * S \in Nat
    BY <1>0, <1>4
  <2>6. 4 * (w * S) <= 2 * v + w
    BY <1>4, <2>4, <2>5
  <2>7. 2 * (w * S) + 2 <= 2 * S + w
    BY <1>0, <1>4, <1>5, <2>5, <2>6
  <2>8. w * S >= 10 * w
    BY <1>0, <1>4, ProductGrows
  <2>9. CASE w = 1
    BY <1>0, <1>4, <2>3, <2>7, <2>9, <1>5
  <2>10. CASE w # 1
    <3>1. S * 2 <= S * w
      BY <1>0, <1>4, <2>10, ProductGrows
    <3>2. S * w = w * S
      BY <1>0, <1>4
    <3> QED
      BY <1>0, <1>4, <2>5, <2>7, <2>8, <3>1, <3>2
  <2> QED
    BY <2>9, <2>10
<1> QED
  BY <1>6, <1>7

-----------------------------------------------------------------------------
(* What is added to counters *)

Fields == {"hist", "sum", "count", "min", "max", "values"}

\* Adding to counters leaves them counters; the totals count one more.
LEMMA CountersKept ==
  ASSUME NEW c, DOMAIN c = Fields, c.count \in Nat, NEW v
  PROVE  /\ DOMAIN InHistogram(c, v) = Fields /\ InHistogram(c, v).count = c.count
         /\ DOMAIN InTotals(c, v) = Fields /\ InTotals(c, v).count = c.count + 1
  BY DEF InHistogram, InTotals, Fields

LEMMA EmptyFacts == DOMAIN Empty = Fields /\ Empty.count = 0
  BY DEF Empty, Fields

-----------------------------------------------------------------------------
(* Which counters are whose, by where main stands: samples counts a sample  *)
(* from its first step, so that the object freed by it is its own number.  *)
Places ==
  /\ samples \in Nat
  /\ main \in {"run", "take", "renew", "report", "done"}
  /\ freed = 1 .. samples
  /\ main \in {"run", "report", "done"} =>
       active = samples + 2 /\ snapshot = samples + 1
  /\ main = "take"  => active = samples + 1 /\ snapshot = samples
  /\ main = "renew" => active = samples + 1 /\ snapshot = samples + 1

\* A thread whose pointer is neither active_stat nor the snapshot yet to be
\* reported has seen a report while it was in add.
Held ==
  /\ pc \in [Threads -> Adding \cup {"idle", "outside", "late"}]
  /\ ptr \in [Threads -> Nat] /\ since \in [Threads -> Nat]
  /\ \A t \in Threads :
       pc[t] \in {"histogram", "totals"} =>
         \/ since[t] >= 1
         \/ ptr[t] = active
         \/ main = "report" /\ ptr[t] = snapshot

LEMMA PlacesStep == Places /\ [StatNext]_statVars => Places'
<1> SUFFICES ASSUME Places, [StatNext]_statVars PROVE Places'
  OBVIOUS
<1> USE DEF Places
<1>1. CASE Destroy
  BY <1>1 DEF Destroy, Doomed
<1>2. CASE Take
  BY <1>2 DEF Take
<1>3. CASE Renew
  BY <1>3 DEF Renew, Fresh
<1>4. CASE Report \/ ReportAll
  BY <1>4 DEF Report, ReportAll
<1>5. ASSUME NEW t \in Threads, Add(t) PROVE Places'
  BY <1>5 DEF Add, AddOutside, AddDropped, AddBegins, AddHistogram, AddTotals,
              AddLate, AddGlobal, mainVars
<1>6. CASE UNCHANGED statVars
  BY <1>6 DEF statVars
<1> QED
  BY <1>1, <1>2, <1>3, <1>4, <1>5, <1>6 DEF StatNext, Main

LEMMA HeldStep == Places /\ Held /\ [StatNext]_statVars => Held'
<1> SUFFICES ASSUME Places, Held, [StatNext]_statVars PROVE Held'
  OBVIOUS
<1> USE DEF Held, Adding
<1>1. CASE Destroy
  BY <1>1 DEF Places, Destroy, threadVars
<1>2. CASE Take
  BY <1>2 DEF Take, threadVars
<1>3. CASE Renew
  BY <1>3 DEF Places, Renew, Fresh, threadVars
<1>4. CASE Report
  BY <1>4 DEF Report
<1>5. CASE ReportAll
  BY <1>5 DEF ReportAll, threadVars
<1>6. ASSUME NEW t \in Threads, Add(t) PROVE Held'
  <2>1. CASE AddOutside(t)
    BY <2>1 DEF AddOutside, mainVars
  <2>2. CASE AddDropped(t)
    BY <2>2 DEF AddDropped, mainVars
  <2>3. CASE AddBegins(t)
    <3>1. active \in Nat
      BY DEF Places
    <3> QED
      BY <2>3, <3>1 DEF AddBegins, mainVars
  <2>4. CASE AddHistogram(t)
    BY <2>4 DEF AddHistogram, mainVars
  <2>5. CASE AddTotals(t)
    BY <2>5 DEF AddTotals, mainVars
  <2>6. CASE AddLate(t)
    BY <2>6 DEF AddLate, mainVars
  <2>7. CASE AddGlobal(t)
    BY <2>7 DEF AddGlobal, mainVars
  <2> QED
    BY <1>6, <2>1, <2>2, <2>3, <2>4, <2>5, <2>6, <2>7 DEF Add
<1>7. CASE UNCHANGED statVars
  BY <1>7 DEF statVars
<1> QED
  BY <1>1, <1>2, <1>3, <1>4, <1>5, <1>6, <1>7 DEF StatNext, Main

LEMMA FreedLateStep ==
  Places /\ Held /\ FreedLate /\ [StatNext]_statVars => FreedLate'
<1> SUFFICES ASSUME Places, Held, FreedLate, [StatNext]_statVars PROVE FreedLate'
  OBVIOUS
<1> USE DEF FreedLate
<1>1. CASE Main
  <2>1. pc' = pc /\ (since' = since \/ since' = [t \in Threads |-> since[t] + 1])
    BY <1>1 DEF Main, Destroy, Take, Renew, Report, ReportAll, threadVars
  <2> QED
    BY <2>1 DEF Held
<1>2. ASSUME NEW t \in Threads, Add(t) PROVE FreedLate'
  <2>1. CASE AddLate(t)
    <3>1. ptr[t] \in 1 .. samples /\ pc[t] \in {"histogram", "totals"}
      BY <2>1 DEF AddLate, Places
    <3>2. since[t] >= 1
      BY <3>1 DEF Places, Held
    <3> QED
      BY <2>1, <3>2 DEF AddLate, Held
  <2>2. CASE ~ AddLate(t)
    BY <1>2, <2>2 DEF Add, AddOutside, AddDropped, AddBegins, AddHistogram,
                      AddTotals, AddGlobal, Held
  <2> QED
    BY <2>1, <2>2
<1>3. CASE UNCHANGED statVars
  BY <1>3 DEF statVars
<1> QED
  BY <1>1, <1>2, <1>3 DEF StatNext

LEMMA HeldInit == StatInit => Places /\ Held /\ FreedLate
  BY DEF StatInit, Places, Held, FreedLate, Adding

\* A thread touches freed counters only if it was held up in add from before
\* one report until the next sample.
THEOREM FreedOnlyLate == StatSpec => []FreedLate
  BY HeldInit, PlacesStep, HeldStep, FreedLateStep, PTL DEF StatSpec

-----------------------------------------------------------------------------
(* What the samples miss.  A latency is missed when its thread adds it to   *)
(* counters that were reported before: one latency for each report, for    *)
(* the next thread reads active_stat anew.                                 *)

Live(t) == ptr[t] = active \/ (main = "report" /\ ptr[t] = snapshot)

Sampled == reported + heap[active].count
             + (IF main = "report" THEN heap[snapshot].count ELSE 0)

Pending == IF \E t \in Threads : pc[t] = "global" THEN 1 ELSE 0

Reports == IF main \in {"run", "done"} THEN samples ELSE samples - 1

Missing == global.count + Pending - Sampled

IsCounting(c) == DOMAIN c = Fields /\ c.count \in Nat

Heap ==
  /\ DOMAIN heap = 1 .. active
  /\ \A k \in 1 .. active : IsCounting(heap[k])
  /\ IsCounting(global)
  /\ reported \in Nat

OneAtATime ==
  \A t, u \in Threads : pc[t] # "idle" /\ pc[u] # "idle" => t = u

Loss ==
  /\ Missing \in 0 .. Reports
  /\ \A t \in Threads :
       pc[t] \in {"histogram", "totals"} /\ ~ Live(t) => Missing <= Reports - 1

LEMMA PlaceFacts ==
  ASSUME Places
  PROVE  /\ samples \in Nat /\ active \in Nat \ {0} /\ Reports \in Int
         /\ Reports <= samples
         /\ active \in 1 .. active
         /\ main = "report" => snapshot \in 1 .. active /\ snapshot # active
         /\ main # "report" => snapshot <= active
  BY DEF Places, Reports

LEMMA SampledFacts ==
  ASSUME Places, Heap
  PROVE  Sampled \in Nat /\ global.count \in Nat /\ Pending \in 0 .. 1
         /\ Missing \in Int
<1>1. heap[active].count \in Nat /\ (main = "report" => heap[snapshot].count \in Nat)
  BY PlaceFacts DEF Heap, IsCounting
<1>2. reported \in Nat /\ global.count \in Nat
  BY DEF Heap, IsCounting
<1> QED
  BY <1>1, <1>2 DEF Sampled, Pending, Missing

LEMMA HeapStep == Places /\ Heap /\ [StatNext]_statVars => Heap'
<1> SUFFICES ASSUME Places, Heap, [StatNext]_statVars PROVE Heap'
  OBVIOUS
<1> USE DEF Heap
<1>1. CASE Destroy
  <2>1. heap' = [heap EXCEPT ![snapshot] = Empty] /\ active' = active
        /\ global' = global /\ reported' = reported
    BY <1>1 DEF Destroy, Doomed
  <2> QED
    BY <2>1, EmptyFacts DEF IsCounting
<1>2. CASE Take \/ ReportAll
  BY <1>2 DEF Take, ReportAll
<1>3. CASE Renew
  <2>1. /\ Fresh = active + 1 /\ active' = Fresh /\ active \in Nat
        /\ heap' = [k \in 1 .. Fresh |-> IF k = Fresh THEN Empty ELSE heap[k]]
        /\ global' = global /\ reported' = reported
    BY <1>3 DEF Renew, Fresh, Places
  <2> QED
    BY <2>1, EmptyFacts DEF IsCounting
<1>4. CASE Report
  <2>1. heap[snapshot].count \in Nat
    BY <1>4, PlaceFacts DEF Report, IsCounting
  <2> QED
    BY <1>4, <2>1 DEF Report
<1>5. ASSUME NEW t \in Threads, Add(t) PROVE Heap'
  <2>1. CASE AddOutside(t) \/ AddDropped(t) \/ AddBegins(t) \/ AddLate(t)
    BY <2>1 DEF AddOutside, AddDropped, AddBegins, AddLate, mainVars
  <2>2. CASE AddHistogram(t)
    <3>1. \A k \in 1 .. active : IsCounting(InHistogram(heap[k], val[t]))
      BY CountersKept DEF IsCounting
    <3> QED
      BY <2>2, <3>1 DEF AddHistogram, mainVars
  <2>3. CASE AddTotals(t)
    <3>1. \A k \in 1 .. active : IsCounting(InTotals(heap[k], val[t]))
      BY CountersKept DEF IsCounting
    <3> QED
      BY <2>3, <3>1 DEF AddTotals, mainVars
  <2>4. CASE AddGlobal(t)
    <3>1. IsCounting(InHistogram(global, val[t]))
      BY CountersKept DEF IsCounting
    <3>2. IsCounting(InTotals(InHistogram(global, val[t]), val[t]))
      BY <3>1, CountersKept DEF IsCounting
    <3> QED
      BY <2>4, <3>2 DEF AddGlobal, mainVars
  <2> QED
    BY <1>5, <2>1, <2>2, <2>3, <2>4 DEF Add
<1>6. CASE UNCHANGED statVars
  BY <1>6 DEF statVars
<1> QED
  BY <1>1, <1>2, <1>3, <1>4, <1>5, <1>6 DEF StatNext, Main

LEMMA OneAtATimeStep == Held /\ OneAtATime /\ [StatNext]_statVars => OneAtATime'
<1> SUFFICES ASSUME Held, OneAtATime, [StatNext]_statVars PROVE OneAtATime'
  OBVIOUS
<1> USE DEF OneAtATime
<1>1. CASE Main \/ UNCHANGED statVars
  BY <1>1 DEF Main, Destroy, Take, Renew, Report, ReportAll, threadVars, statVars
<1>2. ASSUME NEW t \in Threads, Add(t) PROVE OneAtATime'
  <2>1. \A u \in Threads : u # t => pc[u] = "idle"
    BY <1>2 DEF Add, AddOutside, AddDropped, AddBegins, AddHistogram, AddTotals,
                AddLate, AddGlobal, Pushes, MutexFree
  <2>2. \A u \in Threads : u # t => pc'[u] = pc[u]
    BY <1>2 DEF Add, AddOutside, AddDropped, AddBegins, AddHistogram, AddTotals,
                AddLate, AddGlobal, Held
  <2> QED
    BY <2>1, <2>2
<1> QED
  BY <1>1, <1>2 DEF StatNext

\* A step of a thread, given what it does to the totals.
LEMMA ThreadLoss ==
  ASSUME Places, Held, Heap, Heap', OneAtATime, Loss, NEW t \in Threads, Add(t)
  PROVE  Loss'
<1>0. /\ UNCHANGED <<active, snapshot, main, samples, reported>>
      /\ Reports' = Reports
      /\ Sampled \in Nat /\ global.count \in Nat
  <2>1. UNCHANGED <<active, snapshot, main, samples, reported>>
    BY DEF Add, AddOutside, AddDropped, AddBegins, AddHistogram, AddTotals,
           AddLate, AddGlobal, mainVars
  <2> QED
    BY <2>1, SampledFacts DEF Reports
<1>1. \A u \in Threads : u # t => pc[u] = "idle" /\ pc'[u] = "idle"
  BY DEF Add, AddOutside, AddDropped, AddBegins, AddHistogram, AddTotals,
         AddLate, AddGlobal, Pushes, MutexFree, Held, OneAtATime
<1>2. /\ Pending  = IF pc[t] = "global" THEN 1 ELSE 0
      /\ Pending' = IF pc'[t] = "global" THEN 1 ELSE 0
  BY <1>1 DEF Pending
<1>3. CASE AddOutside(t) \/ AddDropped(t) \/ AddLate(t)
  <2>1. /\ pc'[t] \notin Adding /\ pc[t] # "global"
        /\ UNCHANGED <<heap, global>>
    BY <1>3 DEF AddOutside, AddDropped, AddLate, Pushes, Held, Adding, mainVars
  <2>2. Sampled' = Sampled
    BY <1>0, <2>1 DEF Sampled
  <2> QED
    BY <1>0, <1>1, <1>2, <2>1, <2>2 DEF Loss, Missing, Adding
<1>4. CASE AddBegins(t)
  <2>1. /\ pc[t] = "idle" /\ pc'[t] = "histogram" /\ ptr'[t] = active
        /\ UNCHANGED <<heap, global>>
    BY <1>4 DEF AddBegins, Pushes, Held
  <2>2. Sampled' = Sampled /\ Live(t)'
    BY <1>0, <2>1 DEF Sampled, Live
  <2> QED
    BY <1>0, <1>1, <1>2, <2>1, <2>2 DEF Loss, Missing
<1>5. CASE AddHistogram(t)
  <2>1. /\ pc[t] = "histogram" /\ pc'[t] = "totals"
        /\ ptr' = ptr /\ global' = global
        /\ heap' = [heap EXCEPT ![ptr[t]] = InHistogram(heap[ptr[t]], val[t])]
    BY <1>5 DEF AddHistogram, Held
  <2>2. \A k \in 1 .. active : heap'[k].count = heap[k].count
    BY <2>1, CountersKept DEF Heap, IsCounting
  <2>3. Sampled' = Sampled
    BY <1>0, <2>2, PlaceFacts DEF Sampled
  <2>4. Live(t)' <=> Live(t)
    BY <1>0, <2>1 DEF Live
  <2> QED
    BY <1>0, <1>1, <1>2, <2>1, <2>3, <2>4 DEF Loss, Missing
<1>6. CASE AddTotals(t)
  <2>1. /\ pc[t] = "totals" /\ pc'[t] = "global" /\ global' = global
        /\ heap' = [heap EXCEPT ![ptr[t]] = InTotals(heap[ptr[t]], val[t])]
    BY <1>6 DEF AddTotals, Held
  <2>2. \A k \in 1 .. active :
          heap'[k].count = IF k = ptr[t] THEN heap[k].count + 1 ELSE heap[k].count
    BY <2>1, CountersKept DEF Heap, IsCounting
  <2>3. \A k \in 1 .. active : heap[k].count \in Nat
    BY DEF Heap, IsCounting
  <2>4. Sampled' = IF Live(t) THEN Sampled + 1 ELSE Sampled
    <3>1. reported \in Nat
      BY DEF Heap
    <3>2. CASE main = "report"
      BY <1>0, <2>2, <2>3, <3>1, <3>2, PlaceFacts DEF Sampled, Live
    <3>3. CASE main # "report"
      BY <1>0, <2>2, <2>3, <3>1, <3>3, PlaceFacts DEF Sampled, Live
    <3> QED
      BY <3>2, <3>3
  <2>5. Missing' = IF Live(t) THEN Missing ELSE Missing + 1
    BY <1>0, <1>2, <2>1, <2>4 DEF Missing
  <2>6. ~ Live(t) => Missing <= Reports - 1
    BY <2>1 DEF Loss
  <2>7. Reports \in Int
    BY PlaceFacts
  <2>8. Missing' \in 0 .. Reports
    BY <2>5, <2>6, <2>7 DEF Loss
  <2> QED
    BY <1>0, <1>1, <2>1, <2>8 DEF Loss
<1>7. CASE AddGlobal(t)
  <2>1. /\ pc[t] = "global" /\ pc'[t] = "idle" /\ heap' = heap
        /\ global' = InTotals(InHistogram(global, val[t]), val[t])
    BY <1>7 DEF AddGlobal, Held
  <2>2. global'.count = global.count + 1
    BY <2>1, CountersKept DEF Heap, IsCounting
  <2>3. Sampled' = Sampled
    BY <1>0, <2>1 DEF Sampled
  <2> QED
    BY <1>0, <1>1, <1>2, <2>1, <2>2, <2>3 DEF Loss, Missing
<1> QED
  BY <1>3, <1>4, <1>5, <1>6, <1>7 DEF Add

LEMMA MainLoss ==
  ASSUME Places, Held, Heap, Loss, Main
  PROVE  Loss'
<1>0. /\ UNCHANGED <<pc, ptr, global>> /\ Pending' = Pending
      /\ Sampled \in Nat /\ Reports \in Int /\ samples \in Nat
  <2>1. UNCHANGED <<pc, ptr, global>>
    BY DEF Main, Destroy, Take, Renew, Report, ReportAll, threadVars
  <2> QED
    BY <2>1, SampledFacts, PlaceFacts DEF Pending
<1>1. ASSUME Sampled' = Sampled, Reports' = Reports,
             \A t \in Threads : ~ Live(t)' => ~ Live(t)
      PROVE  Loss'
  BY <1>0, <1>1 DEF Loss, Missing
<1>2. CASE Destroy
  <2>1. heap'[active] = heap[active] /\ active' = active /\ reported' = reported
        /\ main = "run" /\ main' = "take" /\ samples' = samples + 1
    BY <1>2 DEF Destroy, Doomed, Places, Heap
  <2> QED
    BY <1>0, <1>1, <2>1 DEF Sampled, Reports, Live
<1>3. CASE Take
  BY <1>0, <1>1, <1>3 DEF Take, Sampled, Reports, Live
<1>4. CASE Renew
  <2>1. /\ Fresh = active + 1 /\ active' = Fresh /\ snapshot' = snapshot
        /\ snapshot = active /\ active \in 1 .. active /\ active \in Nat
        /\ main = "renew" /\ main' = "report" /\ samples' = samples
        /\ reported' = reported /\ reported \in Nat
        /\ heap' = [k \in 1 .. Fresh |-> IF k = Fresh THEN Empty ELSE heap[k]]
    BY <1>4 DEF Renew, Fresh, Places, Heap
  <2>2. heap'[active'].count = 0 /\ heap'[snapshot'].count = heap[active].count
    BY <2>1, EmptyFacts
  <2>3. heap[active].count \in Nat
    BY <2>1 DEF Heap, IsCounting
  <2>4. Sampled' = Sampled
    BY <2>1, <2>2, <2>3 DEF Sampled
  <2> QED
    BY <1>0, <1>1, <2>1, <2>4 DEF Reports, Live
<1>5. CASE Report
  <2>1. /\ heap[active].count \in Nat /\ heap[snapshot].count \in Nat
        /\ reported \in Nat /\ main = "report" /\ main' = "run"
        /\ reported' = reported + heap[snapshot].count
        /\ UNCHANGED <<heap, active, samples>>
    BY <1>5, PlaceFacts DEF Report, Heap, IsCounting
  <2>2. Sampled' = Sampled /\ Reports' = Reports + 1
    BY <1>0, <2>1 DEF Sampled, Reports
  <2>3. Missing' = Missing
    BY <1>0, <2>2 DEF Missing
  <2>4. Missing \in Int /\ Missing' \in 0 .. Reports' /\ Missing' <= Reports' - 1
    BY <1>0, <2>2, <2>3 DEF Loss
  <2> QED
    BY <2>4 DEF Loss
<1>6. CASE ReportAll
  BY <1>0, <1>1, <1>6 DEF ReportAll, Sampled, Reports, Live
<1> QED
  BY <1>2, <1>3, <1>4, <1>5, <1>6 DEF Main

LossInv == Places /\ Held /\ Heap /\ OneAtATime /\ Loss

LEMMA LossInit == StatInit => LossInv
<1> SUFFICES ASSUME StatInit PROVE LossInv
  OBVIOUS
<1>1. Places /\ Held /\ OneAtATime
  BY HeldInit DEF StatInit, OneAtATime
<1>2. Heap
  BY EmptyFacts DEF StatInit, Heap, IsCounting
<1>3. Sampled = 0 /\ Pending = 0 /\ global.count = 0 /\ Reports = 0
  BY EmptyFacts DEF StatInit, Sampled, Pending, Reports
<1>4. Loss
  BY <1>3 DEF Loss, Missing, StatInit
<1> QED
  BY <1>1, <1>2, <1>4 DEF LossInv

LEMMA LossStep == LossInv /\ [StatNext]_statVars => LossInv'
<1> SUFFICES ASSUME LossInv, [StatNext]_statVars PROVE LossInv'
  OBVIOUS
<1>1. Places' /\ Held' /\ Heap' /\ OneAtATime'
  BY PlacesStep, HeldStep, HeapStep, OneAtATimeStep DEF LossInv
<1>2. CASE UNCHANGED statVars
  <2>1. Loss'
    BY <1>2 DEF LossInv, Loss, Missing, Sampled, Pending, Reports, Live, statVars
  <2> QED
    BY <1>1, <2>1 DEF LossInv
<1>3. CASE StatNext
  <2>1. Loss'
    BY <1>1, <1>3, ThreadLoss, MainLoss DEF LossInv, StatNext
  <2> QED
    BY <1>1, <2>1 DEF LossInv
<1> QED
  BY <1>1, <1>2, <1>3 DEF LossInv

\* The samples and the whole differ by one latency for each sample at most,
\* and by the one that is just being added.
THEOREM LossIsBounded == StatSpec => []LossBounded
<1>1. LossInv => LossBounded
  <2> SUFFICES ASSUME LossInv PROVE LossBounded
    OBVIOUS
  <2>1. /\ Sampled \in Nat /\ global.count \in Nat /\ Pending \in 0 .. 1
        /\ samples \in Nat /\ Reports \in Int /\ Reports <= samples
        /\ global.count + Pending - Sampled \in 0 .. Reports
    BY SampledFacts, PlaceFacts DEF LossInv, Loss, Missing
  <2>2. Sampled \in global.count - samples .. global.count + 1
    BY <2>1
  <2> QED
    BY <2>2 DEF LossBounded, Sampled
<1> QED
  BY <1>1, LossInit, LossStep, PTL DEF StatSpec

-----------------------------------------------------------------------------
(* Types: what is counted is counted inside the array. *)

\* A latency on its way into the counters has an index.
Valued ==
  /\ val \in [Threads -> Nat]
  /\ \A t \in Threads :
       /\ pc[t] \in Adding => Bucket(val[t]) < Buckets /\ Index(val[t]) \in 0 .. Size - 1
       /\ pc[t] = "outside" => NoIndex(val[t])
  /\ main \in {"take", "renew", "report"} => samples >= 1

StatInv == Places /\ Heap /\ Valued /\ StatTypeOK

LEMMA PairFacts ==
  ASSUME NEW a \in Nat, NEW b \in Nat
  PROVE  Min({a, b}) \in Nat /\ Max({a, b}) \in Nat
<1>1. {a, b} \in SUBSET Nat /\ {a, b} # {}
  OBVIOUS
<1>2. Min({a, b}) \in Nat
  BY <1>1, LeastIs
<1>3. \E x \in {a, b} : \A y \in {a, b} : x >= y
  OBVIOUS
<1>4. Max({a, b}) \in {a, b}
  BY <1>3, Zenon DEF Max
<1> QED
  BY <1>1, <1>2, <1>4

LEMMA IndexInt ==
  ASSUME NEW v \in Nat PROVE Index(v) \in Nat
<1>1. Bucket(v) \in Nat /\ Compressed(v) \in Nat /\ BucketSize \in Nat
  <2>1. Compressed(v) \in Nat
    BY CompressedFacts
  <2> QED
    BY <2>1, BucketFacts, SizeFacts
<1>2. \A a, b, c \in Nat : a * b + c \in Nat
  OBVIOUS
<1> QED
  BY <1>1, <1>2 DEF Index, IndexOf

\* One more of x in a bag.
LEMMA BagAdd ==
  ASSUME NEW bag, IsABag(bag), NEW x
  PROVE  /\ IsABag(bag (+) SetToBag({x}))
         /\ DOMAIN (bag (+) SetToBag({x})) = DOMAIN bag \cup {x}
         /\ \A y \in DOMAIN bag \cup {x} :
              (bag (+) SetToBag({x}))[y] = (IF y \in DOMAIN bag THEN bag[y] ELSE 0)
                                             + (IF y = x THEN 1 ELSE 0)
<1> DEFINE more == bag (+) SetToBag({x})
<1>1. more = [y \in DOMAIN bag \cup {x} |->
                (IF y \in DOMAIN bag THEN bag[y] ELSE 0) + (IF y = x THEN 1 ELSE 0)]
  BY DEF (+), SetToBag
<1> HIDE DEF more
<1>2. \A y \in DOMAIN bag : bag[y] \in Nat /\ bag[y] > 0
  BY DEF IsABag
<1>3. DOMAIN more = DOMAIN bag \cup {x}
  BY <1>1
<1>4. \A y \in DOMAIN bag \cup {x} : more[y] \in Nat /\ more[y] > 0
  BY <1>1, <1>2
<1>5. IsABag(more)
  BY <1>1, <1>3, <1>4 DEF IsABag
<1> QED
  BY <1>1, <1>3, <1>5 DEF more

LEMMA CountersStay ==
  ASSUME NEW c, IsCounters(c), NEW v \in Nat, Index(v) \in 0 .. Size - 1
  PROVE  IsCounters(InHistogram(c, v)) /\ IsCounters(InTotals(c, v))
<1>1. DOMAIN c = Fields
  BY EmptyFacts DEF IsCounters
<1>2. IsCounters(InHistogram(c, v))
  <2>1. DOMAIN InHistogram(c, v) = Fields
    BY <1>1 DEF InHistogram
  <2>2. InHistogram(c, v).hist = c.hist (+) SetToBag({Index(v)})
    BY <1>1 DEF InHistogram, Fields
  <2>3. /\ InHistogram(c, v).count = c.count /\ InHistogram(c, v).sum = c.sum
        /\ InHistogram(c, v).min = c.min /\ InHistogram(c, v).max = c.max
    BY <1>1 DEF InHistogram, Fields
  <2>4. /\ IsABag(c.hist (+) SetToBag({Index(v)}))
        /\ DOMAIN (c.hist (+) SetToBag({Index(v)})) = DOMAIN c.hist \cup {Index(v)}
    BY BagAdd DEF IsCounters
  <2> QED
    BY <2>1, <2>2, <2>3, <2>4, EmptyFacts DEF IsCounters, BagToSet
<1>3. IsCounters(InTotals(c, v))
  <2>1. DOMAIN InTotals(c, v) = Fields
    BY <1>1 DEF InTotals
  <2>2. /\ InTotals(c, v).hist = c.hist
        /\ InTotals(c, v).count = c.count + 1 /\ InTotals(c, v).sum = c.sum + v
        /\ InTotals(c, v).min = Min({c.min, v}) /\ InTotals(c, v).max = Max({c.max, v})
    BY <1>1 DEF InTotals, Fields
  <2> QED
    BY <2>1, <2>2, PairFacts, EmptyFacts DEF IsCounters
<1> QED
  BY <1>2, <1>3

LEMMA EmptyIsCounters == IsCounters(Empty)
  BY StatAssumption DEF IsCounters, Empty, IsABag, BagToSet, EmptyBag, SetToBag

LEMMA ValuedStep == StatInv /\ [StatNext]_statVars => Valued'
<1> SUFFICES ASSUME StatInv, [StatNext]_statVars PROVE Valued'
  OBVIOUS
<1> USE DEF Valued, Adding
<1>1. CASE Main
  <2>1. val' = val /\ pc' = pc
    BY <1>1 DEF Main, Destroy, Take, Renew, Report, ReportAll, threadVars
  <2>2. main' \in {"take", "renew", "report"} => samples' >= 1
    <3>1. samples \in Nat /\ (main \in {"take", "renew", "report"} => samples >= 1)
      BY DEF StatInv, Places
    <3>2. CASE Destroy
      BY <3>1, <3>2 DEF Destroy
    <3>3. CASE Take
      BY <3>1, <3>3 DEF Take
    <3>4. CASE Renew
      BY <3>1, <3>4 DEF Renew
    <3>5. CASE Report \/ ReportAll
      BY <3>5 DEF Report, ReportAll
    <3> QED
      BY <1>1, <3>2, <3>3, <3>4, <3>5 DEF Main
  <2> QED
    BY <2>1, <2>2 DEF StatInv
<1>2. ASSUME NEW t \in Threads, Add(t) PROVE Valued'
  <2> USE DEF StatInv, Held, StatTypeOK
  <2>1. CASE AddOutside(t)
    <3>1. PICK v \in plan.values : /\ Pushes(t, v) /\ NoIndex(v)
                                   /\ val' = [val EXCEPT ![t] = v]
      BY <2>1 DEF AddOutside
    <3>2. v \in Nat
      BY StatAssumption
    <3> QED
      BY <2>1, <3>1, <3>2 DEF AddOutside, mainVars
  <2>2. CASE AddBegins(t)
    <3>1. PICK v \in plan.values : /\ Pushes(t, v) /\ ~ NoIndex(v) /\ Bucket(v) < Buckets
                                   /\ val' = [val EXCEPT ![t] = v]
      BY <2>2 DEF AddBegins
    <3>2. v \in Nat
      BY StatAssumption
    <3>3. Index(v) \in 0 .. Size - 1
      BY <3>1, <3>2, IndexInt, SizeFacts DEF NoIndex
    <3> QED
      BY <2>2, <3>1, <3>2, <3>3 DEF AddBegins, mainVars
  <2>3. CASE AddDropped(t) \/ AddHistogram(t) \/ AddTotals(t) \/ AddLate(t) \/ AddGlobal(t)
    BY <2>3 DEF AddDropped, AddHistogram, AddTotals, AddLate, AddGlobal, mainVars
  <2> QED
    BY <1>2, <2>1, <2>2, <2>3 DEF Add
<1>3. CASE UNCHANGED statVars
  BY <1>3 DEF StatInv, statVars
<1> QED
  BY <1>1, <1>2, <1>3 DEF StatNext

LEMMA TypeStep == StatInv /\ [StatNext]_statVars => StatTypeOK'
<1> SUFFICES ASSUME StatInv, [StatNext]_statVars PROVE StatTypeOK'
  OBVIOUS
<1>0. /\ Places /\ Heap /\ Valued /\ StatTypeOK /\ Places' /\ Heap' /\ Valued'
      /\ samples \in Nat /\ active \in Nat
  BY PlacesStep, HeapStep, ValuedStep DEF StatInv, Places
<1>1. (active \in DOMAIN heap \ freed /\ snapshot \in DOMAIN heap)'
  BY <1>0 DEF Places, Heap, Valued
<1>2. \A k \in DOMAIN heap : k \in 1 .. active /\ IsCounters(heap[k])
  BY <1>0 DEF Heap, StatTypeOK
<1> USE DEF StatTypeOK
<1>3. CASE Destroy
  <2>1. heap' = [heap EXCEPT ![Doomed] = Empty]
    BY <1>3 DEF Destroy
  <2>2. \A k \in DOMAIN heap' : IsCounters(heap'[k])
    BY <1>0, <2>1, EmptyIsCounters
  <2> QED
    BY <1>0, <1>1, <1>3, <2>1, <2>2 DEF Destroy, threadVars
<1>4. CASE Take
  BY <1>0, <1>1, <1>4 DEF Take, threadVars
<1>5. CASE Renew
  <2>1. heap' = [k \in 1 .. Fresh |-> IF k = Fresh THEN Empty ELSE heap[k]]
        /\ Fresh = active + 1
    BY <1>0, <1>5 DEF Renew, Fresh, Places
  <2>2. \A k \in 1 .. Fresh : k = Fresh \/ k \in 1 .. active
    BY <1>0, <2>1
  <2>3. \A k \in DOMAIN heap' : IsCounters(heap'[k])
    BY <1>0, <2>1, <2>2, EmptyIsCounters DEF Heap
  <2>4. DOMAIN heap = 1 .. active /\ DOMAIN heap' = 1 .. active + 1
    BY <1>0, <2>1 DEF Heap
  <2>5. DOMAIN heap \subseteq DOMAIN heap'
    BY <1>0, <2>4
  <2> QED
    BY <1>0, <1>1, <1>5, <2>3, <2>5 DEF Renew, threadVars
<1>6. CASE Report
  <2>1. heap[snapshot].count \in Nat
    BY <1>0 DEF IsCounters
  <2> QED
    BY <1>0, <1>1, <1>6, <2>1 DEF Report
<1>7. CASE ReportAll
  BY <1>0, <1>1, <1>7 DEF ReportAll, threadVars
<1>8. ASSUME NEW t \in Threads, Add(t) PROVE StatTypeOK'
  <2>0. pc[t] \in Adding => val[t] \in Nat /\ Index(val[t]) \in 0 .. Size - 1
    BY <1>0 DEF Valued
  <2>1. CASE AddOutside(t) \/ AddDropped(t) \/ AddLate(t)
    BY <1>0, <1>1, <2>1 DEF AddOutside, AddDropped, AddLate, mainVars
  <2>2. CASE AddBegins(t)
    BY <1>0, <1>1, <2>2 DEF AddBegins, mainVars, Adding
  <2>3. CASE AddHistogram(t)
    <3>1. \A k \in DOMAIN heap : IsCounters(InHistogram(heap[k], val[t]))
      BY <1>0, <2>0, <2>3, CountersStay DEF AddHistogram, Adding
    <3>2. heap' = [heap EXCEPT ![ptr[t]] = InHistogram(heap[ptr[t]], val[t])]
      BY <2>3 DEF AddHistogram
    <3>3. \A k \in DOMAIN heap' : IsCounters(heap'[k])
      BY <1>0, <3>1, <3>2
    <3> QED
      BY <1>0, <1>1, <2>3, <3>2, <3>3 DEF AddHistogram, mainVars, Adding
  <2>4. CASE AddTotals(t)
    <3>1. \A k \in DOMAIN heap : IsCounters(InTotals(heap[k], val[t]))
      BY <1>0, <2>0, <2>4, CountersStay DEF AddTotals, Adding
    <3>2. heap' = [heap EXCEPT ![ptr[t]] = InTotals(heap[ptr[t]], val[t])]
      BY <2>4 DEF AddTotals
    <3>3. \A k \in DOMAIN heap' : IsCounters(heap'[k])
      BY <1>0, <3>1, <3>2
    <3> QED
      BY <1>0, <1>1, <2>4, <3>2, <3>3 DEF AddTotals, mainVars, Adding
  <2>5. CASE AddGlobal(t)
    <3>1. IsCounters(InTotals(InHistogram(global, val[t]), val[t]))
      BY <1>0, <2>0, <2>5, CountersStay DEF AddGlobal, Adding
    <3> QED
      BY <1>0, <1>1, <2>5, <3>1 DEF AddGlobal, mainVars, Adding
  <2> QED
    BY <1>8, <2>1, <2>2, <2>3, <2>4, <2>5 DEF Add
<1>9. CASE UNCHANGED statVars
  BY <1>0, <1>9 DEF statVars
<1> QED
  BY <1>3, <1>4, <1>5, <1>6, <1>7, <1>8, <1>9 DEF StatNext, Main

LEMMA StatInvInit == StatInit => StatInv
<1> SUFFICES ASSUME StatInit PROVE StatInv
  OBVIOUS
<1>1. Places /\ Heap
  BY LossInit DEF LossInv
<1>2. Valued
  BY DEF StatInit, Valued, Adding
<1>3. StatTypeOK
  BY EmptyIsCounters DEF StatInit, StatTypeOK
<1> QED
  BY <1>1, <1>2, <1>3 DEF StatInv

LEMMA StatInvStep == StatInv /\ [StatNext]_statVars => StatInv'
  BY PlacesStep, HeapStep, ValuedStep, TypeStep DEF StatInv

\* For any number of buckets, threads and samples the index of every latency
\* that is counted lies inside the histogram, and main's pointers stay inside
\* the counters allocated; those that are active are never freed.
THEOREM StatTypeCorrect == StatSpec => []StatTypeOK
<1>1. StatInv => StatTypeOK
  BY DEF StatInv
<1> QED
  BY <1>1, StatInvInit, StatInvStep, PTL DEF StatSpec

\* A latency of a bucket's size or more has an index, but for the half slot
\* at the end of the last bucket: for any number of buckets of any size.
THEOREM OutsideAtEnds == StatSpec => []InsideHistogram
<1>1. StatInv => InsideHistogram
  <2> SUFFICES ASSUME StatInv, NEW t \in Threads, pc[t] = "outside",
                      ~ (val[t] < BucketSize)
               PROVE  2 * val[t] >= (2 * BucketSize - 1) * Pow10[Buckets - 1]
    BY DEF InsideHistogram
  <2>1. val[t] \in Nat /\ NoIndex(val[t]) /\ val[t] >= BucketSize
    BY SizeFacts DEF StatInv, Valued
  <2> QED
    BY <2>1, NoIndexAtEnds
<1> QED
  BY <1>1, StatInvInit, StatInvStep, PTL DEF StatSpec

-----------------------------------------------------------------------------
(* A histogram counts what its latencies are: below each index as many as   *)
(* there are latencies with a lower one.                                   *)

Lower(bag, x) == {v \in DOMAIN bag : Index(v) < x}

Faithful(c) ==
  /\ DOMAIN c = Fields
  /\ IsABag(c.hist) /\ IsFiniteSet(DOMAIN c.hist)
  /\ IsABag(c.values) /\ IsFiniteSet(DOMAIN c.values)
  /\ DOMAIN c.values \subseteq 0 .. MaxTicks
  /\ DOMAIN c.hist = {Index(v) : v \in DOMAIN c.values}
  /\ \A x \in Nat : Before(c.hist, x) = SumOn(c.values, Lower(c.values, x))
  /\ c.count = SumOn(c.values, DOMAIN c.values)
  /\ c.max \in Nat
  /\ IF DOMAIN c.values = {} THEN c.max = 0 ELSE c.max \in DOMAIN c.values
  /\ \A v \in DOMAIN c.values : v <= c.max

\* Counters whose histogram has one latency more than its totals.
HistogramAhead(c, v) == \E d : Faithful(d) /\ c = InHistogram(d, v)

\* One more of x adds one to a sum over x, and nothing to others.
LEMMA BagSum ==
  ASSUME NEW bag, IsABag(bag), IsFiniteSet(DOMAIN bag), NEW x, NEW Q
  PROVE  SumOn(bag (+) SetToBag({x}), (DOMAIN bag \cup {x}) \cap Q)
           = SumOn(bag, DOMAIN bag \cap Q) + (IF x \in Q THEN 1 ELSE 0)
<1> DEFINE more == bag (+) SetToBag({x})
           T == DOMAIN bag \cap Q
           U == (DOMAIN bag \cup {x}) \cap Q
<1>1. IsFiniteSet(T)
  <2>1. T \subseteq DOMAIN bag
    OBVIOUS
  <2> QED
    BY <2>1, FS_Subset
<1>2. \A y \in DOMAIN bag \cup {x} :
        more[y] = (IF y \in DOMAIN bag THEN bag[y] ELSE 0) + (IF y = x THEN 1 ELSE 0)
  BY BagAdd
<1> HIDE DEF more
<1>3. \A y \in DOMAIN bag : bag[y] \in Nat
  BY DEF IsABag
<1>4. \A y \in T : bag[y] \in Int /\ (y # x => more[y] = bag[y])
  BY <1>2, <1>3
<1>5. SumOn(bag, T) \in Int
  BY <1>1, <1>4, SumInt
<1>6. CASE x \notin Q
  <2>1. U = T /\ \A y \in T : y # x
    BY <1>6
  <2> HIDE DEF T, U
  <2>2. SumOn(more, T) = SumOn(bag, T)
    BY <1>1, <1>4, <2>1, SumAgree
  <2>3. SumOn(more, U) = SumOn(bag, T) + (IF x \in Q THEN 1 ELSE 0)
    BY <1>5, <1>6, <2>1, <2>2
  <2> QED
    BY <2>3 DEF more, T, U
<1>7. CASE x \in Q /\ x \in DOMAIN bag
  <2>1. U = T /\ x \in T
    BY <1>7
  <2>2. more[x] = bag[x] + 1 /\ bag[x] \in Int
    BY <1>2, <1>3, <1>7
  <2>3. \A y \in T : bag[y] \in Int /\ more[y] \in Int
    BY <1>4, <2>2
  <2>4. \A y \in T \ {x} : more[y] = bag[y]
    BY <1>4
  <2> HIDE DEF T
  <2>5. SumOn(more, T) = SumOn(bag, T) + (more[x] - bag[x])
    BY <1>1, <2>1, <2>3, <2>4, SumChange
  <2> QED
    BY <1>5, <1>7, <2>1, <2>2, <2>5 DEF more, T
<1>8. CASE x \in Q /\ x \notin DOMAIN bag
  <2>1. U = T \cup {x} /\ x \notin T
    BY <1>8
  <2>2. more[x] = 1
    BY <1>2, <1>8
  <2>3. \A y \in T \cup {x} : more[y] \in Int
    BY <1>4, <2>1, <2>2
  <2>4. \A y \in T : bag[y] \in Int /\ more[y] = bag[y]
    BY <1>4, <2>1
  <2> HIDE DEF T, U
  <2>5. SumOn(more, T \cup {x}) = more[x] + SumOn(more, T)
    BY <1>1, <2>1, <2>3, SumAdd
  <2>6. SumOn(more, T) = SumOn(bag, T)
    BY <1>1, <2>4, SumAgree
  <2> QED
    BY <1>5, <1>8, <2>1, <2>2, <2>5, <2>6 DEF more, T, U
<1> QED
  BY <1>6, <1>7, <1>8

LEMMA FaithfulEmpty == Faithful(Empty)
<1>1. /\ DOMAIN Empty = Fields /\ Empty.hist = EmptyBag /\ Empty.values = EmptyBag
      /\ Empty.count = 0 /\ Empty.max = 0
  BY DEF Empty, Fields
<1>2. DOMAIN EmptyBag = {} /\ IsABag(EmptyBag)
  BY DEF EmptyBag, SetToBag, IsABag
<1>3. IsFiniteSet({})
  BY FS_EmptySet
<1>4. \A x \in Nat : Before(EmptyBag, x) = 0 /\ SumOn(EmptyBag, Lower(EmptyBag, x)) = 0
  <2>1. \A x \in Nat : {y \in DOMAIN EmptyBag : y < x} = {} /\ Lower(EmptyBag, x) = {}
    BY <1>2 DEF Lower
  <2> QED
    BY <2>1, SumEmpty DEF Before
<1>5. SumOn(EmptyBag, DOMAIN EmptyBag) = 0
  BY <1>2, SumEmpty
<1> QED
  BY <1>1, <1>2, <1>3, <1>4, <1>5 DEF Faithful

\* add, to the histogram and then to the totals.
LEMMA FaithfulAdd ==
  ASSUME NEW d, Faithful(d), NEW v \in 0 .. MaxTicks
  PROVE  Faithful(InTotals(InHistogram(d, v), v))
<1> DEFINE c == InTotals(InHistogram(d, v), v)
           i == Index(v)
           values == d.values (+) SetToBag({v})
           hist == d.hist (+) SetToBag({i})
<1>0. v \in Nat /\ MaxTicks \in Nat
  BY StatAssumption
<1>1. /\ DOMAIN c = Fields /\ c.hist = hist /\ c.values = values
      /\ c.count = d.count + 1 /\ c.max = Max({d.max, v})
  BY DEF Faithful, InTotals, InHistogram, Fields
<1> HIDE DEF c
<1>2. i \in Nat
  BY <1>0, IndexInt
<1>3. /\ IsABag(hist) /\ DOMAIN hist = DOMAIN d.hist \cup {i} /\ IsFiniteSet(DOMAIN hist)
      /\ IsABag(values) /\ DOMAIN values = DOMAIN d.values \cup {v}
      /\ IsFiniteSet(DOMAIN values)
  <2>1. /\ IsABag(d.hist) /\ IsFiniteSet(DOMAIN d.hist)
        /\ IsABag(d.values) /\ IsFiniteSet(DOMAIN d.values)
    BY DEF Faithful
  <2>2. IsABag(hist) /\ DOMAIN hist = DOMAIN d.hist \cup {i}
    BY <2>1, BagAdd
  <2>3. IsABag(values) /\ DOMAIN values = DOMAIN d.values \cup {v}
    BY <2>1, BagAdd
  <2>4. IsFiniteSet(DOMAIN d.hist \cup {i}) /\ IsFiniteSet(DOMAIN d.values \cup {v})
    BY <2>1, FS_AddElement
  <2> QED
    BY <2>2, <2>3, <2>4
<1>4. DOMAIN values \subseteq 0 .. MaxTicks
  BY <1>3 DEF Faithful
<1>5. DOMAIN hist = {Index(u) : u \in DOMAIN values}
  BY <1>3 DEF Faithful
<1>6. ASSUME NEW x \in Nat PROVE Before(hist, x) = SumOn(values, Lower(values, x))
  <2> DEFINE Q == {y \in DOMAIN d.hist \cup {i} : y < x}
             R == {u \in DOMAIN d.values \cup {v} : Index(u) < x}
  <2>1. /\ {y \in DOMAIN hist : y < x} = (DOMAIN d.hist \cup {i}) \cap Q
        /\ {y \in DOMAIN d.hist : y < x} = DOMAIN d.hist \cap Q
        /\ i \in Q <=> i < x
    BY <1>3
  <2>2. /\ Lower(values, x) = (DOMAIN d.values \cup {v}) \cap R
        /\ Lower(d.values, x) = DOMAIN d.values \cap R
        /\ v \in R <=> i < x
    BY <1>3 DEF Lower
  <2> HIDE DEF Q, R
  <2>3. Before(hist, x) = Before(d.hist, x) + (IF i \in Q THEN 1 ELSE 0)
    <3>1. IsABag(d.hist) /\ IsFiniteSet(DOMAIN d.hist)
      BY DEF Faithful
    <3>2. SumOn(d.hist (+) SetToBag({i}), (DOMAIN d.hist \cup {i}) \cap Q)
            = SumOn(d.hist, DOMAIN d.hist \cap Q) + (IF i \in Q THEN 1 ELSE 0)
      BY <3>1, BagSum
    <3> QED
      BY <2>1, <3>2 DEF Before
  <2>4. SumOn(values, Lower(values, x))
          = SumOn(d.values, Lower(d.values, x)) + (IF v \in R THEN 1 ELSE 0)
    <3>1. IsABag(d.values) /\ IsFiniteSet(DOMAIN d.values)
      BY DEF Faithful
    <3>2. SumOn(d.values (+) SetToBag({v}), (DOMAIN d.values \cup {v}) \cap R)
            = SumOn(d.values, DOMAIN d.values \cap R) + (IF v \in R THEN 1 ELSE 0)
      BY <3>1, BagSum
    <3> QED
      BY <2>2, <3>2
  <2>5. Before(d.hist, x) = SumOn(d.values, Lower(d.values, x))
    BY DEF Faithful
  <2> QED
    BY <2>1, <2>2, <2>3, <2>4, <2>5
<1>7. c.count = SumOn(values, DOMAIN values)
  <2> DEFINE Q == DOMAIN d.values \cup {v}
  <2>1. /\ (DOMAIN d.values \cup {v}) \cap Q = DOMAIN values
        /\ DOMAIN d.values \cap Q = DOMAIN d.values /\ v \in Q
    BY <1>3
  <2> HIDE DEF Q
  <2>2. SumOn(values, DOMAIN values) = SumOn(d.values, DOMAIN d.values) + 1
    BY <2>1, BagSum DEF Faithful
  <2> QED
    BY <1>1, <2>2 DEF Faithful
<1>8. /\ c.max \in Nat /\ c.max \in DOMAIN values
      /\ \A u \in DOMAIN values : u <= c.max
  <2>1. d.max \in Nat
    BY DEF Faithful
  <2>2. c.max \in {d.max, v} /\ c.max >= d.max /\ c.max >= v
    <3>1. \E x \in {d.max, v} : \A y \in {d.max, v} : x >= y
      BY <1>0, <2>1
    <3> QED
      BY <1>1, <3>1, Zenon DEF Max
  <2>3. c.max = v \/ (c.max = d.max /\ DOMAIN d.values # {})
    <3>1. ASSUME DOMAIN d.values = {} PROVE c.max = v
      <4>1. d.max = 0
        BY <3>1 DEF Faithful
      <4> QED
        BY <1>0, <2>2, <4>1
    <3> QED
      BY <2>2, <3>1
  <2>4. c.max \in DOMAIN values
    BY <1>3, <2>3 DEF Faithful
  <2>5. ASSUME NEW u \in DOMAIN values PROVE u <= c.max
    <3>1. CASE u = v
      BY <1>0, <2>1, <2>2, <3>1
    <3>2. CASE u \in DOMAIN d.values
      <4>1. u <= d.max /\ u \in 0 .. MaxTicks
        BY <3>2 DEF Faithful
      <4> QED
        BY <1>0, <2>1, <2>2, <4>1
    <3> QED
      BY <1>3, <3>1, <3>2
  <2> QED
    BY <1>0, <2>1, <2>2, <2>4, <2>5
<1> HIDE DEF hist, values
<1>9. Faithful(c)
  BY <1>1, <1>3, <1>4, <1>5, <1>6, <1>7, <1>8 DEF Faithful
<1> QED
  BY <1>9 DEF c

-----------------------------------------------------------------------------
(* What is printed of a whole is what its latencies are. *)

\* Freed counters are left alone; the others are whole but for those that a
\* thread is adding to, whose histogram is one ahead.
WholeInv ==
  /\ \A k \in freed \cap DOMAIN heap : heap[k] = Empty
  /\ \A k \in DOMAIN heap :
       (\A t \in Threads : ~ (pc[t] = "totals" /\ ptr[t] = k)) => Faithful(heap[k])
  /\ \A t \in Threads :
       pc[t] = "totals" /\ ptr[t] \notin freed => HistogramAhead(heap[ptr[t]], val[t])
  /\ Faithful(global)

PrintedInv ==
  printed.whole =>
    \E c : Faithful(c) /\ printed.values = c.values /\ printed.stat = GetStat(c)

\* The latencies added are ticks.
Ticks == \A t \in Threads : pc[t] \in Adding => val[t] \in 0 .. MaxTicks

CountInv == StatInv /\ Held /\ OneAtATime /\ Ticks /\ WholeInv /\ PrintedInv

LEMMA TicksStep == StatInv /\ Held /\ Ticks /\ [StatNext]_statVars => Ticks'
<1> SUFFICES ASSUME StatInv, Held, Ticks, [StatNext]_statVars PROVE Ticks'
  OBVIOUS
<1> USE DEF Ticks, Adding
<1>1. CASE Main \/ UNCHANGED statVars
  BY <1>1 DEF Main, Destroy, Take, Renew, Report, ReportAll, threadVars, statVars
<1>2. ASSUME NEW t \in Threads, Add(t) PROVE Ticks'
  <2> USE DEF StatInv, Valued, Held
  <2>1. CASE AddBegins(t)
    <3>1. PICK v \in plan.values : val' = [val EXCEPT ![t] = v]
      BY <2>1 DEF AddBegins
    <3>2. v \in 0 .. MaxTicks
      BY StatAssumption DEF StatTypeOK
    <3> QED
      BY <2>1, <3>1, <3>2 DEF AddBegins
  <2>2. CASE AddOutside(t)
    BY <2>2 DEF AddOutside
  <2>3. CASE AddDropped(t) \/ AddHistogram(t) \/ AddTotals(t) \/ AddLate(t) \/ AddGlobal(t)
    BY <2>3 DEF AddDropped, AddHistogram, AddTotals, AddLate, AddGlobal
  <2> QED
    BY <1>2, <2>1, <2>2, <2>3 DEF Add
<1> QED
  BY <1>1, <1>2 DEF StatNext

\* A step of a thread.
LEMMA WholeThread ==
  ASSUME CountInv, NEW t \in Threads, Add(t)
  PROVE  WholeInv'
<1>1. /\ \A u \in Threads : u # t => pc[u] = "idle" /\ pc'[u] = "idle"
      /\ pc \in [Threads -> Adding \cup {"idle", "outside", "late"}]
      /\ freed' = freed /\ freed = 1 .. samples /\ DOMAIN heap = 1 .. active
  BY DEF Add, AddOutside, AddDropped, AddBegins, AddHistogram, AddTotals, mainVars,
         AddLate, AddGlobal, Pushes, MutexFree, CountInv, StatInv, Places, Heap,
         Held, OneAtATime
<1>2. /\ \A k \in freed \cap DOMAIN heap : heap[k] = Empty
      /\ \A k \in DOMAIN heap :
           ~ (pc[t] = "totals" /\ ptr[t] = k) => Faithful(heap[k])
      /\ pc[t] = "totals" /\ ptr[t] \notin freed =>
           HistogramAhead(heap[ptr[t]], val[t])
      /\ Faithful(global)
  BY <1>1 DEF CountInv, WholeInv
<1>3. ASSUME /\ DOMAIN heap' = DOMAIN heap /\ Faithful(global')
             /\ \A k \in freed \cap DOMAIN heap : heap'[k] = Empty
             /\ \A k \in DOMAIN heap :
                  ~ (pc'[t] = "totals" /\ ptr'[t] = k) => Faithful(heap'[k])
             /\ pc'[t] = "totals" /\ ptr'[t] \notin freed =>
                  HistogramAhead(heap'[ptr'[t]], val'[t])
      PROVE  WholeInv'
  BY <1>1, <1>3 DEF WholeInv
<1> HIDE DEF CountInv
<1>4. CASE AddOutside(t) \/ AddDropped(t) \/ AddBegins(t)
  <2>1. pc[t] = "idle" /\ pc'[t] # "totals" /\ heap' = heap /\ global' = global
    BY <1>1, <1>4 DEF AddOutside, AddDropped, AddBegins, Pushes
  <2> QED
    BY <1>2, <1>3, <2>1
<1>5. CASE AddHistogram(t)
  <2>1. /\ pc[t] = "histogram" /\ pc'[t] = "totals" /\ ptr' = ptr /\ val' = val
        /\ global' = global /\ ptr[t] \notin freed
        /\ heap' = [heap EXCEPT ![ptr[t]] = InHistogram(heap[ptr[t]], val[t])]
    BY <1>1, <1>5 DEF AddHistogram
  <2>2. ptr[t] \in DOMAIN heap
    BY DEF CountInv, StatInv, StatTypeOK
  <2>3. Faithful(heap[ptr[t]])
    BY <1>2, <2>1, <2>2
  <2>4. HistogramAhead(heap'[ptr[t]], val[t])
    BY <2>1, <2>2, <2>3 DEF HistogramAhead
  <2> QED
    BY <1>2, <1>3, <2>1, <2>2, <2>4
<1>6. CASE AddTotals(t)
  <2>1. /\ pc[t] = "totals" /\ pc'[t] = "global" /\ ptr' = ptr
        /\ global' = global /\ ptr[t] \notin freed
        /\ heap' = [heap EXCEPT ![ptr[t]] = InTotals(heap[ptr[t]], val[t])]
    BY <1>1, <1>6 DEF AddTotals
  <2>2. ptr[t] \in DOMAIN heap /\ val[t] \in 0 .. MaxTicks
    BY <2>1 DEF CountInv, StatInv, StatTypeOK, Ticks, Adding
  <2>3. PICK d : Faithful(d) /\ heap[ptr[t]] = InHistogram(d, val[t])
    BY <1>2, <2>1 DEF HistogramAhead
  <2>4. Faithful(heap'[ptr[t]])
    <3>1. heap'[ptr[t]] = InTotals(InHistogram(d, val[t]), val[t])
      BY <2>1, <2>2, <2>3
    <3> QED
      BY <2>2, <2>3, <3>1, FaithfulAdd
  <2>5. \A k \in DOMAIN heap : k # ptr[t] => heap'[k] = heap[k]
    BY <2>1
  <2> QED
    BY <1>2, <1>3, <2>1, <2>4, <2>5
<1>7. CASE AddLate(t)
  <2>1. pc'[t] = "late" /\ heap' = heap /\ global' = global /\ ptr[t] \in freed
    BY <1>1, <1>7 DEF AddLate
  <2>2. \A k \in DOMAIN heap : Faithful(heap[k])
    <3> SUFFICES ASSUME NEW k \in DOMAIN heap, k = ptr[t] PROVE Faithful(heap[k])
      BY <1>2
    <3> QED
      BY <1>2, <2>1, FaithfulEmpty
  <2> QED
    BY <1>2, <1>3, <2>1, <2>2
<1>8. CASE AddGlobal(t)
  <2>1. /\ pc[t] = "global" /\ pc'[t] = "idle" /\ heap' = heap
        /\ global' = InTotals(InHistogram(global, val[t]), val[t])
    BY <1>1, <1>8 DEF AddGlobal
  <2>2. val[t] \in 0 .. MaxTicks
    BY <2>1 DEF CountInv, Ticks, Adding
  <2>3. Faithful(global')
    BY <1>2, <2>1, <2>2, FaithfulAdd
  <2> QED
    BY <1>2, <1>3, <2>1, <2>3
<1> QED
  BY <1>4, <1>5, <1>6, <1>7, <1>8 DEF Add

\* A step of main.
LEMMA WholeMain ==
  ASSUME CountInv, Main
  PROVE  WholeInv' /\ PrintedInv'
<1>1. /\ pc' = pc /\ ptr' = ptr /\ val' = val /\ global' = global
      /\ ptr \in [Threads -> DOMAIN heap]
      /\ DOMAIN heap = 1 .. active /\ freed = 1 .. samples
      /\ samples \in Nat /\ active \in Nat
      /\ snapshot \in DOMAIN heap
      /\ WholeInv /\ PrintedInv
  <2>1. pc' = pc /\ ptr' = ptr /\ val' = val
    BY DEF Main, Destroy, Take, Renew, Report, ReportAll, threadVars
  <2>2. global' = global
    BY DEF Main, Destroy, Take, Renew, Report, ReportAll
  <2>3. Places /\ Heap /\ StatTypeOK /\ WholeInv /\ PrintedInv
    BY DEF CountInv, StatInv
  <2>4. active \in Nat
    BY <2>3, PlaceFacts
  <2> QED
    BY <2>1, <2>2, <2>3, <2>4 DEF Places, Heap, StatTypeOK
<1>2. CASE Destroy
  <2>1. /\ freed' = freed \cup {snapshot} /\ heap' = [heap EXCEPT ![snapshot] = Empty]
        /\ printed' = printed
    BY <1>2 DEF Destroy, Doomed
  <2>2. DOMAIN heap' = DOMAIN heap /\ heap'[snapshot] = Empty
        /\ \A k \in DOMAIN heap : k # snapshot => heap'[k] = heap[k]
    BY <1>1, <2>1
  <2>3. \A k \in freed' \cap DOMAIN heap' : heap'[k] = Empty
    BY <1>1, <2>1, <2>2 DEF WholeInv
  <2>4. \A k \in DOMAIN heap' :
          (\A t \in Threads : ~ (pc[t] = "totals" /\ ptr[t] = k)) => Faithful(heap'[k])
    BY <1>1, <2>2, FaithfulEmpty DEF WholeInv
  <2>5. \A t \in Threads : pc[t] = "totals" /\ ptr[t] \notin freed' =>
          HistogramAhead(heap'[ptr[t]], val[t])
    BY <1>1, <2>1, <2>2 DEF WholeInv
  <2> QED
    BY <1>1, <2>1, <2>3, <2>4, <2>5 DEF WholeInv, PrintedInv
<1>3. CASE Take
  BY <1>1, <1>3 DEF Take, WholeInv, PrintedInv
<1>4. CASE Renew
  <2>1. /\ heap' = [k \in 1 .. Fresh |-> IF k = Fresh THEN Empty ELSE heap[k]]
        /\ Fresh = active + 1 /\ freed' = freed /\ printed' = printed
    BY <1>4 DEF Renew, Fresh, CountInv, StatInv, Places
  <2>2. /\ DOMAIN heap' = 1 .. active + 1 /\ heap'[active + 1] = Empty
        /\ \A k \in 1 .. active : heap'[k] = heap[k]
        /\ \A k \in 1 .. active + 1 : k = active + 1 \/ k \in 1 .. active
    BY <1>1, <2>1
  <2>3. \A k \in freed' \cap DOMAIN heap' : heap'[k] = Empty
    BY <1>1, <2>1, <2>2 DEF WholeInv
  <2>4. \A k \in DOMAIN heap' :
          (\A t \in Threads : ~ (pc[t] = "totals" /\ ptr[t] = k)) => Faithful(heap'[k])
    BY <1>1, <2>2, FaithfulEmpty DEF WholeInv
  <2>5. \A t \in Threads : pc[t] = "totals" /\ ptr[t] \notin freed' =>
          HistogramAhead(heap'[ptr[t]], val[t])
    BY <1>1, <2>1, <2>2 DEF WholeInv
  <2> QED
    BY <1>1, <2>1, <2>3, <2>4, <2>5 DEF WholeInv, PrintedInv
<1>5. CASE Report
  <2>1. /\ heap' = heap /\ freed' = freed
        /\ printed'.whole <=> \A t \in Threads : pc[t] \in {"histogram", "totals"} =>
                                                  ptr[t] # snapshot
        /\ printed'.values = heap[snapshot].values
        /\ printed'.stat = GetStat(heap[snapshot])
    BY <1>5 DEF Report, Statistics
  <2>2. printed'.whole => Faithful(heap[snapshot])
    BY <1>1, <2>1 DEF WholeInv
  <2> QED
    BY <1>1, <2>1, <2>2 DEF WholeInv, PrintedInv
<1>6. CASE ReportAll
  <2>1. /\ heap' = heap /\ freed' = freed
        /\ printed'.values = global.values /\ printed'.stat = GetStat(global)
    BY <1>6 DEF ReportAll, Statistics
  <2> QED
    BY <1>1, <2>1 DEF WholeInv, PrintedInv
<1> QED
  BY <1>2, <1>3, <1>4, <1>5, <1>6 DEF Main

LEMMA CountStep == CountInv /\ [StatNext]_statVars => CountInv'
<1> SUFFICES ASSUME CountInv, [StatNext]_statVars PROVE CountInv'
  OBVIOUS
<1>1. StatInv' /\ Held' /\ OneAtATime' /\ Ticks'
  BY StatInvStep, HeldStep, OneAtATimeStep, TicksStep DEF CountInv, StatInv
<1>2. WholeInv' /\ PrintedInv'
  <2>1. ASSUME NEW t \in Threads, Add(t) PROVE WholeInv' /\ PrintedInv'
    <3>1. printed' = printed
      BY <2>1 DEF Add, AddOutside, AddDropped, AddBegins, AddHistogram, AddTotals,
                  mainVars, AddLate, AddGlobal
    <3>2. PrintedInv'
      BY <3>1 DEF CountInv, PrintedInv
    <3> QED
      BY <2>1, <3>2, WholeThread
  <2>2. CASE UNCHANGED statVars
    BY <2>2 DEF CountInv, WholeInv, PrintedInv, statVars
  <2> QED
    BY <2>1, <2>2, WholeMain DEF StatNext
<1> QED
  BY <1>1, <1>2 DEF CountInv

LEMMA CountInit == StatInit => CountInv
<1> SUFFICES ASSUME StatInit PROVE CountInv
  OBVIOUS
<1>1. StatInv /\ Held /\ OneAtATime
  BY StatInvInit, LossInit DEF LossInv
<1>2. Ticks
  BY DEF StatInit, Ticks, Adding
<1>3. WholeInv
  BY FaithfulEmpty DEF StatInit, WholeInv
<1>4. PrintedInv
  <2>1. printed.values = EmptyBag /\ printed.stat = GetStat(Empty)
        /\ Empty.values = EmptyBag
    BY DEF StatInit, Empty
  <2> QED
    BY <2>1, FaithfulEmpty DEF PrintedInv
<1> QED
  BY <1>1, <1>2, <1>3, <1>4 DEF CountInv

-----------------------------------------------------------------------------
(* Percentiles *)

LEMMA MarksFacts ==
  /\ DOMAIN Marks = 1 .. 8 /\ Len(Marks) = 8
  /\ \A m \in 1 .. 8 : Marks[m] \in Nat /\ Marks[m] >= 1 /\ Marks[m] <= 1000
  /\ \A m \in 1 .. 8 : \A k \in 1 .. m : k \in 1 .. 8 /\ Marks[k] <= Marks[m]
  BY DEF Marks

\* The greatest of a bounded set of integers.
LEMMA GreatestIs ==
  ASSUME NEW S \in SUBSET Int, S # {}, NEW n \in Int, \A x \in S : x <= n
  PROVE  Max(S) \in S /\ \A y \in S : y <= Max(S)
<1> DEFINE D == {n - x : x \in S}
<1>1. D \in SUBSET Nat /\ D # {}
  <2>1. \A d \in D : d \in Nat
    OBVIOUS
  <2>2. PICK x \in Int : x \in S
    OBVIOUS
  <2>3. n - x \in D
    BY <2>2
  <2> HIDE DEF D
  <2> QED
    BY <2>1, <2>3
<1>2. Min(D) \in D /\ \A d \in D : Min(D) <= d
  BY <1>1, LeastIs
<1>3. PICK x \in S : Min(D) = n - x
  BY <1>2
<1>4. \A y \in S : x >= y
  <2> SUFFICES ASSUME NEW y \in S PROVE x >= y
    OBVIOUS
  <2>1. n - y \in D
    OBVIOUS
  <2>2. n - x <= n - y
    BY <1>2, <1>3, <2>1
  <2> QED
    BY <2>2
<1>5. \E z \in S : \A y \in S : z >= y
  BY <1>4
<1>6. Max(S) \in S /\ \A y \in S : Max(S) >= y
  BY <1>5, Zenon DEF Max
<1> QED
  BY <1>6

LEMMA DivisionGrows ==
  ASSUME NEW a \in Nat, NEW b \in Nat, a <= b, NEW w \in Nat \ {0}
  PROVE  a \div w <= b \div w
<1> DEFINE p == a \div w
           q == b \div w
<1>1. /\ p \in Nat /\ q \in Nat /\ a % w \in Nat /\ b % w \in Nat /\ (b % w) + 1 <= w
      /\ a = (w * p) + (a % w) /\ b = (w * q) + (b % w)
  BY Division
<1> HIDE DEF p, q
<1>2. CASE q + 1 <= p
  <2>1. w * (q + 1) <= w * p /\ w * (q + 1) \in Nat /\ w * p \in Nat
    BY <1>1, <1>2, ProductGrows
  <2>2. w * (q + 1) = (w * q) + w /\ w * q \in Nat
    BY <1>1
  <2> QED
    BY <1>1, <2>1, <2>2
<1>3. CASE p <= q
  BY <1>3 DEF p, q
<1> QED
  BY <1>1, <1>2, <1>3

\* A longer latency is counted in the same bucket or a later one, and ...
LEMMA BucketGrows ==
  ASSUME NEW u \in Nat, NEW v \in Nat, u <= v
  PROVE  Bucket(u) <= Bucket(v)
<1>0. BucketSize \in Nat \ {0} /\ Buckets \in Nat
  BY SizeFacts
<1>1. Bucket(u) \in 0 .. Buckets /\ Bucket(v) \in 0 .. Buckets
  BY BucketFacts
<1>2. CASE Bucket(v) = Buckets
  BY <1>0, <1>1, <1>2
<1>3. CASE Bucket(v) < Buckets
  <2>1. v \div BucketSize <= Pow10[Bucket(v)]
    BY <1>3, BucketFacts
  <2>2. u \div BucketSize <= v \div BucketSize
    BY <1>0, DivisionGrows
  <2>3. /\ u \div BucketSize \in Nat /\ v \div BucketSize \in Nat
        /\ Pow10[Bucket(v)] \in Nat /\ Bucket(v) \in 0 .. Buckets - 1
    <3>1. u \div BucketSize \in Nat /\ v \div BucketSize \in Nat
      BY <1>0, Division
    <3>2. Bucket(v) \in Nat
      BY <1>0, <1>1
    <3> QED
      BY <1>0, <1>1, <1>3, <3>1, <3>2, PowFacts
  <2>4. u \div BucketSize <= Pow10[Bucket(v)]
    BY <2>1, <2>2, <2>3
  <2> QED
    BY <2>3, <2>4, BucketFacts
<1> QED
  BY <1>0, <1>1, <1>2, <1>3

LEMMA ClearFacts ==
  ASSUME NEW v \in Nat, Clear(v)
  PROVE  /\ Bucket(v) \in Nat /\ Bucket(v) < Buckets
         /\ Compressed(v) \in Nat /\ Compressed(v) + 8 < BucketSize
         /\ Index(v) = Bucket(v) * BucketSize + Compressed(v)
         /\ Index(v) \in Nat /\ Index(v) + 8 < Size
<1> DEFINE b == Bucket(v)
           S == BucketSize
           k == Compressed(v)
<1>1. b \in Nat /\ b < Buckets /\ k \in Nat /\ k + 8 < S
  <2>1. k \in Nat
    BY CompressedFacts
  <2> QED
    BY <2>1, BucketFacts, SizeFacts, MarksFacts DEF Clear
<1>2. Index(v) = b * S + k /\ Size = Buckets * S
  BY DEF Index, IndexOf, Size
<1>3. Buckets \in Nat /\ S \in Nat
  BY SizeFacts
<1> HIDE DEF b, S, k
<1>4. S * (b + 1) <= S * Buckets
  BY <1>1, <1>3, ProductGrows
<1>5. S * (b + 1) = b * S + S /\ S * Buckets = Buckets * S /\ b * S \in Nat
  BY <1>1, <1>3
<1>6. Index(v) \in Nat /\ Index(v) + 8 < Size
  BY <1>1, <1>2, <1>3, <1>4, <1>5
<1> QED
  BY <1>1, <1>2, <1>6 DEF b, S, k

\* ... so at an index that is no lower.
LEMMA IndexGrows ==
  ASSUME NEW u \in Nat, Clear(u), NEW v \in Nat, Clear(v), u <= v
  PROVE  Index(u) <= Index(v)
<1> DEFINE S == BucketSize
           b == Bucket(u)
           d == Bucket(v)
           j == Compressed(u)
           k == Compressed(v)
<1>1. /\ b \in Nat /\ d \in Nat /\ j \in Nat /\ k \in Nat /\ j < S /\ S \in Nat
      /\ Index(u) = b * S + j /\ Index(v) = d * S + k
  BY ClearFacts, SizeFacts
<1>2. b <= d
  BY BucketGrows
<1>3. CASE b = d
  <2> DEFINE w == Pow10[b]
  <2>1. w \in Nat \ {0}
    BY <1>1, PowFacts
  <2>2. CASE w = 1
    <3>1. j = u /\ k = v
      BY <1>3, <2>2 DEF Compressed
    <3> QED
      BY <1>1, <1>3, <3>1
  <2>3. CASE w # 1
    <3>1. j = (u + w \div 2) \div w /\ k = (v + w \div 2) \div w
      BY <1>3, <2>3 DEF Compressed
    <3> HIDE DEF w
    <3>2. w \div 2 \in Nat
      BY <2>1
    <3>3. u + w \div 2 \in Nat /\ v + w \div 2 \in Nat /\ u + w \div 2 <= v + w \div 2
      BY <3>2
    <3>4. j <= k
      BY <2>1, <3>1, <3>3, DivisionGrows
    <3> HIDE DEF b, d, j, k, S
    <3>5. b * S \in Nat
      BY <1>1
    <3> QED
      BY <1>1, <1>3, <3>4, <3>5
  <2> QED
    BY <2>2, <2>3
<1>4. CASE b # d
  <2> HIDE DEF b, d, j, k, S
  <2>1. b + 1 <= d /\ b + 1 \in Nat
    BY <1>1, <1>2, <1>4
  <2>2. S * (b + 1) <= S * d
    BY <1>1, <2>1, ProductGrows
  <2>3. S * (b + 1) = b * S + S /\ S * d = d * S /\ b * S \in Nat /\ d * S \in Nat
    BY <1>1
  <2> QED
    BY <1>1, <2>2, <2>3
<1> QED
  BY <1>3, <1>4

\* Latencies of a whole, all of them clear.
ClearWhole(c) ==
  /\ Faithful(c) /\ DOMAIN c.values # {}
  /\ \A v \in DOMAIN c.values : Clear(v)

LEMMA WholeFacts ==
  ASSUME NEW c, ClearWhole(c)
  PROVE  /\ DOMAIN c.values \in SUBSET Nat /\ IsFiniteSet(DOMAIN c.values)
         /\ \A v \in DOMAIN c.values : v \in Nat /\ v <= MaxTicks /\ Clear(v)
                                       /\ c.values[v] \in Nat
         /\ \A S \in SUBSET DOMAIN c.values : SumOn(c.values, S) \in Nat
                                              /\ SumOn(c.values, S) <= c.count
         /\ \A T \in SUBSET DOMAIN c.values : \A S \in SUBSET T :
               SumOn(c.values, S) <= SumOn(c.values, T)
         /\ c.count \in Nat /\ c.count >= 1
         /\ \A v \in DOMAIN c.values : SumOn(c.values, DOMAIN c.values \ {v}) < c.count
<1> DEFINE D == DOMAIN c.values
<1>1. MaxTicks \in Nat /\ D \subseteq 0 .. MaxTicks /\ IsFiniteSet(D) /\ D # {}
      /\ c.count = SumOn(c.values, D)
  BY StatAssumption DEF ClearWhole, Faithful
<1>2. \A v \in D : c.values[v] \in Nat /\ c.values[v] >= 1
  BY DEF ClearWhole, Faithful, IsABag
<1>3. ASSUME NEW T \in SUBSET D, NEW S \in SUBSET T
      PROVE  /\ SumOn(c.values, S) \in Nat /\ SumOn(c.values, T) \in Nat
             /\ SumOn(c.values, S) <= SumOn(c.values, T)
  <2>1. IsFiniteSet(T)
    BY <1>1, FS_Subset
  <2>2. \A x \in T : c.values[x] \in Nat
    BY <1>2
  <2> QED
    BY <2>1, <2>2, SumSubset
<1>4. ASSUME NEW v \in D PROVE c.count >= 1 /\ SumOn(c.values, D \ {v}) < c.count
  <2>1. SumOn(c.values, D) = c.values[v] + SumOn(c.values, D \ {v})
    <3>1. \A x \in D : c.values[x] \in Int
      BY <1>2
    <3> QED
      BY <1>1, <3>1, SumRemove
  <2>2. SumOn(c.values, D \ {v}) \in Nat
    <3>1. D \ {v} \in SUBSET D
      OBVIOUS
    <3> QED
      BY <1>3, <3>1
  <2> QED
    BY <1>1, <1>2, <2>1, <2>2
<1>5. c.count \in Nat /\ c.count >= 1
  BY <1>1, <1>3, <1>4
<1>6. \A v \in D : v \in Nat /\ v <= MaxTicks /\ Clear(v)
  BY <1>1 DEF ClearWhole
<1> QED
  BY <1>1, <1>2, <1>3, <1>4, <1>5, <1>6

\* The true percentile is the least latency that enough of them reach up to.
UpTo(bag, v) == {u \in DOMAIN bag : u < v + 1}

\* The true percentile is a latency, the lowest whose rank is up to the mark.
LEMMA RankedIs ==
  ASSUME NEW c, ClearWhole(c), NEW m \in 1 .. 8
  PROVE  /\ Ranked(c.values, m) \in DOMAIN c.values
         /\ SumOn(c.values, UpTo(c.values, Ranked(c.values, m))) * 1000
              >= Marks[m] * c.count
         /\ \A v \in DOMAIN c.values :
              v < Ranked(c.values, m) =>
                ~ (SumOn(c.values, UpTo(c.values, v)) * 1000 >= Marks[m] * c.count)
<1> DEFINE D == DOMAIN c.values
           R == {v \in D : SumOn(c.values, UpTo(c.values, v)) * 1000 >= Marks[m] * c.count}
<1>1. c.count = SumOn(c.values, D) /\ c.max \in D /\ \A v \in D : v <= c.max
  BY DEF ClearWhole, Faithful
<1>2. D \in SUBSET Nat /\ MaxTicks \in Nat /\ \A v \in D : v <= MaxTicks
  BY WholeFacts, StatAssumption
<1>3. UpTo(c.values, c.max) = D /\ UpTo(c.values, MaxTicks) = D
  BY <1>1, <1>2 DEF UpTo
<1>4. Ranked(c.values, m) = Min(R)
  <2>1. Before(c.values, MaxTicks + 1) = c.count
    BY <1>1, <1>3 DEF Before, UpTo
  <2>2. \A v : Before(c.values, v + 1) = SumOn(c.values, UpTo(c.values, v))
    BY DEF Before, UpTo
  <2> QED
    BY <2>1, <2>2 DEF Ranked, BagToSet
<1>5. c.max \in R
  <2>1. Marks[m] \in Nat /\ Marks[m] <= 1000 /\ c.count \in Nat
    BY MarksFacts, WholeFacts
  <2>2. c.count * Marks[m] <= c.count * 1000
    BY <2>1, ProductGrows
  <2>3. c.count * Marks[m] = Marks[m] * c.count
    BY <2>1
  <2>4. c.count * 1000 >= Marks[m] * c.count
    BY <2>1, <2>2, <2>3
  <2> QED
    BY <1>1, <1>3, <2>4
<1>6. R \in SUBSET Nat
  BY <1>2
<1>7. \A v \in R : v \in D /\ SumOn(c.values, UpTo(c.values, v)) * 1000 >= Marks[m] * c.count
  OBVIOUS
<1>8. \A v \in D :
        SumOn(c.values, UpTo(c.values, v)) * 1000 >= Marks[m] * c.count => v \in R
  OBVIOUS
<1> HIDE DEF R
<1>9. Min(R) \in R /\ \A v \in R : Min(R) <= v
  BY <1>5, <1>6, LeastIs
<1>10. \A v \in D : v < Min(R) => v \notin R
  <2> SUFFICES ASSUME NEW v \in D, v < Min(R), v \in R PROVE FALSE
    OBVIOUS
  <2>1. Min(R) <= v /\ Min(R) \in Nat /\ v \in Nat
    BY <1>6, <1>9
  <2> QED
    BY <2>1
<1> QED
  BY <1>4, <1>7, <1>8, <1>9, <1>10

\* The loop of get_stat comes to the mark at the index after that latency's.
Candidates(c, m) ==
  {Size} \cup {x \in {0} \cup {y + 1 : y \in DOMAIN c.hist} :
                 Before(c.hist, x) * 1000 >= Marks[m] * c.count}

\* The first index at which the total is up to a mark is the one after that of
\* the true percentile.
LEMMA FirstIs ==
  ASSUME NEW c, ClearWhole(c), NEW m \in 1 .. 8
  PROVE  /\ FirstUpTo(c, m) = Index(Ranked(c.values, m)) + 1
         /\ Candidates(c, m) \in SUBSET Nat /\ FirstUpTo(c, m) \in Candidates(c, m)
         /\ \A x \in Candidates(c, m) : FirstUpTo(c, m) <= x
<1> DEFINE D == DOMAIN c.values
           true == Ranked(c.values, m)
           i == Index(true)
           C == Candidates(c, m)
<1>0. MaxTicks \in Int
  <2>1. MaxTicks \in Nat
    BY StatAssumption
  <2> QED
    BY <2>1
<1>1. /\ true \in D
      /\ SumOn(c.values, UpTo(c.values, true)) * 1000 >= Marks[m] * c.count
      /\ \A v \in D : v < true =>
           ~ (SumOn(c.values, UpTo(c.values, v)) * 1000 >= Marks[m] * c.count)
  BY RankedIs
<1> HIDE DEF true
<1>2. true \in Nat /\ Clear(true) /\ i \in Nat /\ i + 8 < Size /\ Size \in Nat
  BY <1>1, WholeFacts, ClearFacts, SizeFacts
<1>3. \A v \in D : v \in Nat /\ Clear(v) /\ Index(v) \in Nat
  BY WholeFacts, ClearFacts
<1>4. DOMAIN c.hist = {Index(v) : v \in D}
      /\ \A x \in Nat : Before(c.hist, x) = SumOn(c.values, Lower(c.values, x))
  BY DEF ClearWhole, Faithful
<1>5. C \in SUBSET Nat
  <2>1. DOMAIN c.hist \in SUBSET Nat
    BY <1>3, <1>4
  <2> QED
    BY <1>2, <2>1 DEF Candidates
<1>6. Marks[m] \in Nat /\ Marks[m] >= 1 /\ c.count \in Nat /\ c.count >= 1
  BY MarksFacts, WholeFacts
<1>7. Marks[m] * c.count \in Nat /\ Marks[m] * c.count >= 1
  <2>1. c.count * 1 <= c.count * Marks[m] /\ c.count * Marks[m] = Marks[m] * c.count
    BY <1>6, ProductGrows
  <2> QED
    BY <1>6, <2>1
<1>8. i + 1 \in C
  <2>1. i \in DOMAIN c.hist
    BY <1>1, <1>4
  <2>2. UpTo(c.values, true) \subseteq Lower(c.values, i + 1)
    <3> SUFFICES ASSUME NEW u \in D, u < true + 1 PROVE Index(u) < i + 1
      BY DEF UpTo, Lower
    <3>1. u \in Nat /\ Clear(u) /\ Index(u) \in Nat /\ u <= true
      BY <1>2, <1>3
    <3>2. Index(u) <= i
      BY <1>2, <3>1, IndexGrows
    <3> QED
      BY <1>2, <3>1, <3>2
  <2>3. /\ SumOn(c.values, UpTo(c.values, true)) \in Nat
        /\ SumOn(c.values, Lower(c.values, i + 1)) \in Nat
        /\ SumOn(c.values, UpTo(c.values, true)) <= SumOn(c.values, Lower(c.values, i + 1))
    <3>1. Lower(c.values, i + 1) \in SUBSET D
          /\ UpTo(c.values, true) \in SUBSET D
          /\ UpTo(c.values, true) \in SUBSET Lower(c.values, i + 1)
      BY <2>2 DEF Lower, UpTo
    <3> QED
      BY <3>1, WholeFacts
  <2>4. Before(c.hist, i + 1) * 1000 >= Marks[m] * c.count
    <3>1. i + 1 \in Nat
      BY <1>2
    <3>2. Before(c.hist, i + 1) = SumOn(c.values, Lower(c.values, i + 1))
      BY <1>4, <3>1
    <3> QED
      BY <1>1, <1>7, <2>3, <3>2
  <2> QED
    BY <2>1, <2>4 DEF Candidates
<1>9. ASSUME NEW x \in C PROVE i + 1 <= x
  <2>1. CASE x = Size
    BY <1>2, <2>1
  <2>2. CASE x # Size
    <3>1. x \in Nat /\ Before(c.hist, x) * 1000 >= Marks[m] * c.count
      BY <1>5, <2>2 DEF Candidates
    <3> SUFFICES ASSUME x <= i PROVE FALSE
      BY <1>2, <3>1
    <3> DEFINE L == Lower(c.values, x)
    <3>2. SumOn(c.values, L) * 1000 >= Marks[m] * c.count
      BY <1>4, <3>1
    <3>3. L # {}
      BY <1>7, <3>2, SumEmpty
    <3>4. L \in SUBSET D /\ L \in SUBSET Int /\ \A v \in L : v <= MaxTicks
      BY <1>3, WholeFacts DEF Lower
    <3>5. \A v \in L : Index(v) < x
      BY DEF Lower
    <3> HIDE DEF L
    <3>6. PICK v \in L : \A u \in L : u <= v
      <4>1. Max(L) \in L /\ \A u \in L : u <= Max(L)
        BY <1>0, <3>3, <3>4, GreatestIs
      <4> QED
        BY <4>1
    <3>7. v < true
      <4> SUFFICES ASSUME true <= v PROVE FALSE
        BY <1>2, <1>3, <3>4
      <4>1. v \in Nat /\ Clear(v) /\ Index(v) \in Nat /\ Index(v) < x
        BY <1>3, <3>4, <3>5
      <4>2. i <= Index(v)
        BY <1>2, <4>1, IndexGrows
      <4> QED
        BY <1>2, <3>1, <4>1, <4>2
    <3>8. L \in SUBSET UpTo(c.values, v) /\ UpTo(c.values, v) \in SUBSET D
      BY <1>3, <3>4, <3>6 DEF UpTo
    <3>9. /\ SumOn(c.values, L) \in Nat /\ SumOn(c.values, UpTo(c.values, v)) \in Nat
          /\ SumOn(c.values, L) <= SumOn(c.values, UpTo(c.values, v))
      BY <3>4, <3>8, WholeFacts
    <3>10. SumOn(c.values, UpTo(c.values, v)) * 1000 >= Marks[m] * c.count
      BY <1>7, <3>2, <3>9
    <3> QED
      BY <1>1, <3>4, <3>7, <3>10
  <2> QED
    BY <2>1, <2>2
<1>10. FirstUpTo(c, m) = Min(C)
  BY DEF FirstUpTo, Candidates
<1> HIDE DEF C, i
<1>11. Min(C) \in C /\ \A x \in C : Min(C) <= x
  BY <1>5, <1>8, LeastIs
<1>12. Min(C) = i + 1
  <2>1. Min(C) <= i + 1 /\ i + 1 <= Min(C) /\ Min(C) \in Nat
    BY <1>5, <1>8, <1>9, <1>11
  <2>2. i \in Nat
    BY <1>2 DEF i
  <2> QED
    BY <2>1, <2>2
<1> QED
  BY <1>5, <1>10, <1>11, <1>12 DEF C, i, true

\* A mark waits for those before it, at most seven.
LEMMA MarkIndexIs ==
  ASSUME NEW c, ClearWhole(c), NEW m \in 1 .. 8
  PROVE  MarkIndex(c)[m] \in FirstUpTo(c, m) .. FirstUpTo(c, m) + (m - 1)
<1> DEFINE M == {FirstUpTo(c, k) + (m - k) : k \in 1 .. m}
           f == FirstUpTo(c, m)
<1>1. MarkIndex(c)[m] = Max(M)
  BY MarksFacts DEF MarkIndex
<1>2. ASSUME NEW k \in 1 .. m PROVE FirstUpTo(c, k) \in Nat /\ FirstUpTo(c, k) <= f
  <2>1. k \in 1 .. 8 /\ Marks[k] <= Marks[m] /\ Marks[k] \in Nat /\ Marks[m] \in Nat
        /\ c.count \in Nat
    BY MarksFacts, WholeFacts
  <2>2. Marks[k] * c.count <= Marks[m] * c.count
    <3>1. c.count * Marks[k] <= c.count * Marks[m]
      BY <2>1, ProductGrows
    <3> QED
      BY <2>1, <3>1
  <2>3. f \in Candidates(c, m) /\ f \in Nat
    BY FirstIs
  <2>4. f \in Candidates(c, k)
    <3>1. CASE f = Size
      BY <3>1 DEF Candidates
    <3>2. CASE f # Size
      <4>1. f \in {0} \cup {y + 1 : y \in DOMAIN c.hist}
            /\ Before(c.hist, f) * 1000 >= Marks[m] * c.count
        BY <2>3, <3>2 DEF Candidates
      <4>2. Before(c.hist, f) \in Nat
        <5>1. Lower(c.values, f) \in SUBSET DOMAIN c.values
          BY DEF Lower
        <5> QED
          BY <2>3, <5>1, WholeFacts DEF ClearWhole, Faithful
      <4>3. Marks[k] * c.count \in Nat /\ Marks[m] * c.count \in Nat
        BY <2>1
      <4>4. Before(c.hist, f) * 1000 >= Marks[k] * c.count
        BY <2>2, <4>1, <4>2, <4>3
      <4> QED
        BY <4>1, <4>4 DEF Candidates
    <3> QED
      BY <3>1, <3>2
  <2> QED
    BY <2>1, <2>4, FirstIs
<1>3. f \in Nat
  BY FirstIs
<1> HIDE DEF f
<1>4. M \in SUBSET Int /\ \A x \in M : x <= f + (m - 1)
  BY <1>2, <1>3
<1>5. f \in M
  <2>1. f = FirstUpTo(c, m) + (m - m) /\ m \in 1 .. m
    BY <1>3 DEF f
  <2> QED
    BY <2>1
<1> HIDE DEF M
<1>6. Max(M) \in M /\ \A y \in M : y <= Max(M)
  <2>1. f + (m - 1) \in Int
    BY <1>3
  <2> QED
    BY <1>4, <1>5, <2>1, GreatestIs
<1>7. Max(M) \in Int /\ f <= Max(M) /\ Max(M) <= f + (m - 1)
  BY <1>4, <1>5, <1>6
<1>8. Max(M) \in f .. f + (m - 1)
  BY <1>3, <1>7
<1> QED
  BY <1>1, <1>8 DEF f

LEMMA DivisionIs ==
  ASSUME NEW s \in Nat \ {0}, NEW q \in Nat, NEW r \in Nat, r < s,
         NEW a, a = (s * q) + r
  PROVE  a \div s = q
<1> DEFINE p == a \div s
<1>0. s * q \in Nat /\ a \in Nat
  OBVIOUS
<1>1. p \in Nat /\ a % s \in Nat /\ (a % s) + 1 <= s /\ a = (s * p) + (a % s)
  BY <1>0, Division
<1> HIDE DEF p
<1>2. CASE q + 1 <= p
  <2>1. s * (q + 1) <= s * p /\ s * (q + 1) = (s * q) + s /\ s * p \in Nat
    BY <1>1, <1>2, ProductGrows
  <2> QED
    BY <1>0, <1>1, <2>1
<1>3. CASE p + 1 <= q
  <2>1. s * (p + 1) <= s * q /\ s * (p + 1) = (s * p) + s /\ s * p \in Nat
    BY <1>1, <1>3, ProductGrows
  <2> QED
    BY <1>0, <1>1, <2>1
<1>4. CASE p = q
  BY <1>4 DEF p
<1> QED
  BY <1>1, <1>2, <1>3, <1>4

\* The latency printed for a mark, of latencies that are all clear.
LEMMA PercentileIsNear ==
  ASSUME NEW c, ClearWhole(c), NEW m \in 1 .. 8,
         NEW true, true = Ranked(c.values, m),
         NEW w, w = Pow10[Bucket(true)]
  PROVE  2 * (Percentiles(c)[m] - true) \in - w .. (2 * m + 1) * w
<1> DEFINE S == BucketSize
           b == Bucket(true)
           k == Compressed(true)
           at == MarkIndex(c)[m]
           p == Percentiles(c)[m]
<1>1. true \in DOMAIN c.values /\ true \in Nat /\ Clear(true)
  BY RankedIs, WholeFacts
<1>2. /\ b \in Nat /\ b < Buckets /\ k \in Nat /\ k + 8 < S
      /\ Index(true) = b * S + k /\ Index(true) + 8 < Size
  BY <1>1, ClearFacts
<1>3. S \in Nat \ {0} /\ Size \in Nat /\ w \in Nat \ {0} /\ m \in Nat
      /\ b * S \in Nat
  BY <1>2, SizeFacts, PowFacts
<1>4. /\ 2 * (w * k) <= 2 * true + w /\ 2 * true < 2 * (w * k) + w + 1
      /\ w * k \in Nat
  BY <1>1, <1>2, <1>3, CompressedFacts
<1>5. PICK j \in 1 .. m : at = (b * S + k) + j
  <2>1. at \in (b * S + k) + 1 .. ((b * S + k) + 1) + (m - 1)
    BY <1>2, FirstIs, MarkIndexIs
  <2>2. at - (b * S + k) \in 1 .. m
    BY <1>2, <1>3, <2>1
  <2>3. at = (b * S + k) + (at - (b * S + k))
    BY <1>2, <1>3, <2>1
  <2> QED
    BY <2>2, <2>3
<1>6. at < Size
  BY <1>2, <1>3, <1>5
<1>7. p = IF Before(c.hist, at) < c.count THEN Latency(at) ELSE c.max
  BY <1>6, MarksFacts DEF Percentiles
<1>8. (2 * m + 1) * w = 2 * (m * w) + w /\ m * w \in Nat
  BY <1>3
<1> SUFFICES p \in Int /\ - w <= 2 * p - 2 * true /\ 2 * p - 2 * true <= 2 * (m * w) + w
  <2> HIDE DEF p
  <2>1. 2 * (p - true) \in - w .. (2 * m + 1) * w
    BY <1>1, <1>3, <1>8
  <2> QED
    BY <2>1 DEF p
<1>9. CASE Before(c.hist, at) < c.count
  <2>1. at \div S = b /\ k + j \in Nat
    <3>1. k + j \in Nat /\ k + j < S
      BY <1>2, <1>3, <1>5
    <3>2. at = (S * b) + (k + j)
      BY <1>2, <1>3, <1>5
    <3> HIDE DEF S, b, k, at
    <3> QED
      BY <1>2, <1>3, <3>1, <3>2, DivisionIs
  <2>2. Latency(at) = (k + j) * w
    <3>1. at - b * S = k + j
      BY <1>2, <1>3, <1>5
    <3> QED
      BY <2>1, <3>1 DEF Latency
  <2>3. (k + j) * w = w * k + w * j /\ w * j \in Nat
    BY <1>2, <1>3
  <2>4. w * j <= w * m /\ w * 1 <= w * j /\ w * m = m * w
    BY <1>3, ProductGrows
  <2> HIDE DEF p, k, b, at, S
  <2> QED
    BY <1>1, <1>3, <1>4, <1>7, <1>8, <1>9, <2>2, <2>3, <2>4
<1>10. CASE ~ (Before(c.hist, at) < c.count)
  <2> DEFINE v == c.max
             d == Compressed(v)
  <2>1. v \in DOMAIN c.values /\ true <= v
    BY <1>1 DEF ClearWhole, Faithful
  <2>2. v \in Nat /\ Clear(v)
    BY <2>1, WholeFacts
  <2>3. Index(v) < at
    <3> SUFFICES ASSUME ~ (Index(v) < at) PROVE FALSE
      OBVIOUS
    <3>1. at \in Nat
      BY <1>2, <1>3, <1>5
    <3>2. Before(c.hist, at) = SumOn(c.values, Lower(c.values, at))
      BY <3>1 DEF ClearWhole, Faithful
    <3>3. Lower(c.values, at) \in SUBSET (DOMAIN c.values \ {v})
          /\ DOMAIN c.values \ {v} \in SUBSET DOMAIN c.values
          /\ Lower(c.values, at) \in SUBSET DOMAIN c.values
      BY DEF Lower
    <3>4. /\ SumOn(c.values, Lower(c.values, at)) <= SumOn(c.values, DOMAIN c.values \ {v})
          /\ SumOn(c.values, DOMAIN c.values \ {v}) < c.count
          /\ SumOn(c.values, Lower(c.values, at)) \in Nat
          /\ SumOn(c.values, DOMAIN c.values \ {v}) \in Nat
          /\ c.count \in Nat
      BY <2>1, <3>3, WholeFacts
    <3> QED
      BY <1>10, <3>2, <3>4
  <2>4. Bucket(v) = b
    <3>1. b <= Bucket(v) /\ Bucket(v) \in Nat /\ Index(v) = Bucket(v) * S + d /\ d \in Nat
      BY <1>1, <2>1, <2>2, BucketGrows, ClearFacts
    <3> DEFINE e == Bucket(v)
    <3> SUFFICES ASSUME b + 1 <= e PROVE FALSE
      BY <1>2, <3>1
    <3>2. b + 1 \in Nat /\ e \in Nat
      BY <1>2, <3>1
    <3>3. S * (b + 1) <= S * e
      BY <1>3, <3>2, ProductGrows
    <3>4. S * (b + 1) = b * S + S /\ S * e = e * S /\ e * S \in Nat
      BY <1>2, <1>3, <3>1
    <3> HIDE DEF e, d, v, b, k, S, at
    <3>5. Index(v) = e * S + d
      BY <3>1 DEF e
    <3> QED
      BY <1>2, <1>3, <1>5, <2>3, <3>1, <3>3, <3>4, <3>5
  <2>5. d \in Nat /\ d <= k + (m - 1)
    <3>1. d \in Nat /\ Index(v) = b * S + d
      BY <2>2, <2>4, ClearFacts
    <3> QED
      BY <1>2, <1>3, <1>5, <2>3, <3>1
  <2>6. 2 * v < 2 * (w * d) + w + 1 /\ w * d \in Nat
    <3>1. w = Pow10[Bucket(v)]
      BY <2>4
    <3>2. 2 * v < 2 * (w * d) + w + 1
      BY <2>2, <3>1, CompressedFacts
    <3> QED
      BY <1>3, <2>5, <3>2
  <2>7. w * d <= w * (k + (m - 1)) /\ w * (k + (m - 1)) = w * k + m * w - w
    <3>1. k + (m - 1) \in Nat
      BY <1>2, <1>3
    <3>2. w * d <= w * (k + (m - 1))
      BY <1>3, <2>5, <3>1, ProductGrows
    <3>3. w * (k + (m - 1)) = w * k + m * w - w
      BY <1>2, <1>3
    <3> QED
      BY <3>2, <3>3
  <2>8. p = v
    BY <1>7, <1>10
  <2> HIDE DEF p, v, d, k, b, at, S
  <2> QED
    BY <1>1, <1>3, <1>4, <1>8, <2>1, <2>2, <2>6, <2>7, <2>8
<1> QED
  BY <1>9, <1>10

\* For any number of buckets of any size, any latencies and any interleaving
\* of samples: a percentile of a whole whose latencies are clear of the ends
\* of their buckets is as near the true one as the slots and marks allow.
THEOREM PercentilesAreNear == StatSpec => []PercentilesNear
<1>1. CountInv => PercentilesNear
  <2> DEFINE bag == printed.values
  <2> SUFFICES ASSUME CountInv, printed.whole, bag # EmptyBag,
                      \A v \in BagToSet(bag) : Clear(v), NEW m \in DOMAIN Marks
               PROVE  2 * (printed.stat.percentiles[m] - Ranked(bag, m))
                        \in - Pow10[Bucket(Ranked(bag, m))]
                              .. (2 * m + 1) * Pow10[Bucket(Ranked(bag, m))]
    BY DEF PercentilesNear
  <2>1. PICK c : Faithful(c) /\ bag = c.values /\ printed.stat = GetStat(c)
    BY DEF CountInv, PrintedInv
  <2>2. DOMAIN c.values # {}
    <3> SUFFICES ASSUME DOMAIN c.values = {} PROVE FALSE
      OBVIOUS
    <3>1. c.values \in [{} -> {n \in Nat : n > 0}]
      BY <2>1 DEF Faithful, IsABag
    <3>2. c.values = EmptyBag
      BY <3>1 DEF EmptyBag, SetToBag
    <3> QED
      BY <2>1, <3>2
  <2>3. ClearWhole(c) /\ m \in 1 .. 8
    BY <2>1, <2>2, MarksFacts DEF ClearWhole, BagToSet
  <2>4. printed.stat.percentiles = Percentiles(c)
    BY <2>1 DEF GetStat
  <2> HIDE DEF bag
  <2> QED
    BY <2>1, <2>3, <2>4, PercentileIsNear
<1> QED
  BY <1>1, CountInit, CountStep, PTL DEF StatSpec
=============================================================================
