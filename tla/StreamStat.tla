----------------------------- MODULE StreamStat -----------------------------
(***************************************************************************)
(* stream_stat_t of stream_stat.cc under its callers: the threads of a     *)
(* workload, which add latencies while they hold latency_mutex             *)
(* (push_latency of io_engine.cc), and main, which takes samples without   *)
(* it (stop_simulations of rebench.cc) and the whole at the end.           *)
(*                                                                         *)
(* A histogram is a bag of the indices counted in it.  Arithmetic is exact *)
(* where the code uses doubles.  A read or write outside allocated memory  *)
(* is undefined: everything stops there.                                   *)
(***************************************************************************)
EXTENDS Sequences, Bags, Sums

CONSTANTS
  Threads,        \* the threads of the workload
  Buckets,        \* buckets, and ...
  BucketSizeExp,  \* ... bucket_size_exp of the constructor: 12 and 3
  MaxTicks,       \* the largest ticks_t
  Plans           \* BOUND: the latencies, how many a thread adds, the samples

ASSUME StatAssumption ==
  /\ Buckets \in Nat \ {0} /\ BucketSizeExp \in Nat \ {0} /\ MaxTicks \in Nat
  /\ \A p \in Plans : /\ p.values \subseteq 0 .. MaxTicks
                      /\ p.adds \in [Threads -> Nat]
                      /\ p.samples \in Nat

VARIABLES
  plan,      \* of this behaviour, fixed
  heap,      \* the counters allocated so far, by the order of their allocation
  freed,     \* which of them destroy_stat_counters has freed
  active,    \* active_stat
  snapshot,  \* snapshot_stat
  global,    \* *global_stat
  pc,        \* of each thread, in push_latency and add
  ptr,       \* of each thread: its copy of active_stat
  val,       \* of each thread: the latency it adds
  added,     \* history: latencies a thread has pushed
  since,     \* history: samples main reported since the thread took the mutex
  main,      \* where main stands
  samples,   \* history: samples main began
  reported,  \* history: the counts of all samples reported
  printed    \* the last statistics computed, and of what

statVars == <<plan, heap, freed, active, snapshot, global, pc, ptr, val, added,
              since, main, samples, reported, printed>>
threadVars == <<pc, ptr, val, added, since>>
mainVars   == <<freed, active, snapshot, main, samples, reported, printed>>

-----------------------------------------------------------------------------
(* Where a latency is counted, and what an index stands for. *)

\* pow(10, n).
Pow10[n \in Nat] == IF n = 0 THEN 1 ELSE 10 * Pow10[n - 1]

BucketSize == Pow10[BucketSizeExp]
Size       == Buckets * BucketSize

\* ceil(log10(value / bucket_size)), where the division leaves no zero.
Bucket(v) ==
  Min({Buckets} \cup {b \in 0 .. Buckets - 1 : v \div BucketSize <= Pow10[b]})

\* The slot within the bucket, to the nearest.
Compressed(v) ==
  LET w == Pow10[Bucket(v)]
  IN  IF w = 1 THEN v ELSE (v + w \div 2) \div w

IndexOf(v) == Bucket(v) * BucketSize + Compressed(v)

\* Mutants of the index: the whole latency, uncompressed; and of the latency
\* an index stands for: the slot without the width of its bucket.
IndexUncompressed(v) == Bucket(v) * BucketSize + v
Index(v)             == IndexOf(v)

UnscaledLatency(x) == x - (x \div BucketSize) * BucketSize
Latency(x)         == (x - (x \div BucketSize) * BucketSize)
                        * Pow10[x \div BucketSize]

\* stat_counters_t, and the latencies counted in it (history).
Empty == [hist |-> EmptyBag, sum |-> 0, count |-> 0, min |-> MaxTicks, max |-> 0,
          values |-> EmptyBag]

InHistogram(c, v) == [c EXCEPT !.hist = @ (+) SetToBag({Index(v)})]
InTotals(c, v) ==
  [c EXCEPT !.count = @ + 1, !.sum = @ + v, !.max = Max({@, v}),
            !.min = Min({@, v}), !.values = @ (+) SetToBag({v})]

-----------------------------------------------------------------------------
(* get_stat.  The loop passes the indices in order; the total before an     *)
(* index only changes after one that is occupied.                           *)

\* default_percentile_marks, in thousandths.
Marks == <<500, 600, 700, 800, 900, 950, 990, 995>>

Before(bag, x) == SumOn(bag, {y \in DOMAIN bag : y < x})

\* The first index at which the total is up to the mark, whatever came before.
FirstUpTo(c, m) ==
  Min({Size} \cup {x \in {0} \cup {y + 1 : y \in DOMAIN c.hist} :
                     Before(c.hist, x) * 1000 >= Marks[m] * c.count})

\* One mark at an index: a mark waits for those before it, an index each.
MarkIndex(c) ==
  [m \in DOMAIN Marks |-> Max({FirstUpTo(c, k) + (m - k) : k \in 1 .. m})]

\* The loop ends with the total: marks it has not come to get the maximum.
Percentiles(c) ==
  LET at == MarkIndex(c)
  IN  [m \in DOMAIN Marks |->
         IF at[m] < Size /\ Before(c.hist, at[m]) < c.count
           THEN Latency(at[m]) ELSE c.max]

\* The mean is sum / count, a number only if something was counted.
GetStat(c) == [percentiles |-> Percentiles(c), count |-> c.count,
               sum |-> c.sum, min |-> c.min, max |-> c.max]

-----------------------------------------------------------------------------
Adding == {"histogram", "totals", "global"}

StatInit ==
  /\ plan \in Plans
  /\ heap = <<Empty, Empty>>           \* the snapshot's and the active one
  /\ freed = {} /\ snapshot = 1 /\ active = 2
  /\ global = Empty
  /\ pc = [t \in Threads |-> "idle"]
  /\ ptr = [t \in Threads |-> 2] /\ val = [t \in Threads |-> 0]
  /\ added = [t \in Threads |-> 0] /\ since = [t \in Threads |-> 0]
  /\ main = "run" /\ samples = 0 /\ reported = 0
  /\ printed = [whole |-> TRUE, values |-> EmptyBag, stat |-> GetStat(Empty)]

Defined == \A t \in Threads : pc[t] \notin {"outside", "late"}

\* pthread_mutex_lock.  Mutant: there is none.
Unlocked  == TRUE
MutexFree == \A t \in Threads : pc[t] = "idle"

\* push_latency of v locks the mutex.
Pushes(t, v) ==
  /\ Defined /\ MutexFree
  /\ pc[t] = "idle" /\ added[t] < plan.adds[t]
  /\ main # "done"

\* Below a bucket the logarithm is of zero: minus infinity is no int and no
\* index; and the last slots of the last bucket round up past the array.
NoIndex(v) ==
  \/ v \div BucketSize = 0
  \/ Bucket(v) < Buckets /\ Index(v) >= Size

AddOutside(t) ==
  /\ \E v \in plan.values :
       /\ Pushes(t, v) /\ NoIndex(v)
       /\ val' = [val EXCEPT ![t] = v]
  /\ pc' = [pc EXCEPT ![t] = "outside"]
  /\ UNCHANGED <<plan, heap, global, ptr, added, since, mainVars>>

\* b < buckets fails: too long to be counted.
AddDropped(t) ==
  /\ \E v \in plan.values :
       Pushes(t, v) /\ ~ NoIndex(v) /\ Bucket(v) >= Buckets
  /\ added' = [added EXCEPT ![t] = @ + 1]
  /\ UNCHANGED <<plan, heap, global, pc, ptr, val, since, mainVars>>

\* add(active_stat, ...): the pointer is read.
AddBegins(t) ==
  /\ \E v \in plan.values :
       /\ Pushes(t, v) /\ ~ NoIndex(v) /\ Bucket(v) < Buckets
       /\ val' = [val EXCEPT ![t] = v]
  /\ ptr' = [ptr EXCEPT ![t] = active]
  /\ since' = [since EXCEPT ![t] = 0]
  /\ pc' = [pc EXCEPT ![t] = "histogram"]
  /\ UNCHANGED <<plan, heap, global, added, mainVars>>

\* histogram[...]++, ...
AddHistogram(t) ==
  /\ Defined /\ pc[t] = "histogram" /\ ptr[t] \notin freed
  /\ heap' = [heap EXCEPT ![ptr[t]] = InHistogram(@, val[t])]
  /\ pc' = [pc EXCEPT ![t] = "totals"]
  /\ UNCHANGED <<plan, global, ptr, val, added, since, mainVars>>

\* ... then count, sum, max and min, ...
AddTotals(t) ==
  /\ Defined /\ pc[t] = "totals" /\ ptr[t] \notin freed
  /\ heap' = [heap EXCEPT ![ptr[t]] = InTotals(@, val[t])]
  /\ pc' = [pc EXCEPT ![t] = "global"]
  /\ UNCHANGED <<plan, global, ptr, val, added, since, mainVars>>

\* ... of counters that main has freed meanwhile.
AddLate(t) ==
  /\ Defined /\ pc[t] \in {"histogram", "totals"} /\ ptr[t] \in freed
  /\ pc' = [pc EXCEPT ![t] = "late"]
  /\ UNCHANGED <<plan, heap, global, ptr, val, added, since, mainVars>>

\* add(global_stat, ...), which main leaves alone until the threads are
\* joined; the mutex is unlocked.
AddGlobal(t) ==
  /\ Defined /\ pc[t] = "global"
  /\ global' = InTotals(InHistogram(global, val[t]), val[t])
  /\ pc' = [pc EXCEPT ![t] = "idle"]
  /\ added' = [added EXCEPT ![t] = @ + 1]
  /\ UNCHANGED <<plan, heap, ptr, val, since, mainVars>>

Add(t) == \/ AddOutside(t) \/ AddDropped(t) \/ AddBegins(t) \/ AddHistogram(t)
          \/ AddTotals(t) \/ AddLate(t) \/ AddGlobal(t)

-----------------------------------------------------------------------------
\* The counters a sample frees first.  Mutant: the active ones.
DoomedActive == active
Doomed       == snapshot

\* snapshot_and_reset: the old snapshot goes, ...
Destroy ==
  /\ Defined /\ main = "run" /\ samples < plan.samples
  /\ freed' = freed \cup {Doomed}
  /\ heap' = [heap EXCEPT ![Doomed] = Empty]
  /\ samples' = samples + 1
  /\ main' = "take"
  /\ UNCHANGED <<plan, global, threadVars, active, snapshot, reported, printed>>

\* ... the active counters become the snapshot, ...
Take ==
  /\ Defined /\ main = "take"
  /\ snapshot' = active
  /\ main' = "renew"
  /\ UNCHANGED <<plan, heap, global, threadVars, freed, active, samples,
                 reported, printed>>

\* ... and new ones the active: the third to be allocated at the first sample.
Fresh == samples + 2

Renew ==
  /\ Defined /\ main = "renew"
  /\ heap' = [k \in 1 .. Fresh |-> IF k = Fresh THEN Empty ELSE heap[k]]
  /\ active' = Fresh
  /\ main' = "report"
  /\ UNCHANGED <<plan, global, threadVars, freed, snapshot, samples, reported,
                 printed>>

Statistics(c, whole) ==
  [whole |-> whole, values |-> c.values, stat |-> GetStat(c)]

\* get_snapshot_stat, and a line of the output file.
Report ==
  /\ Defined /\ main = "report"
  /\ printed' = Statistics(heap[snapshot],
                  \A t \in Threads : pc[t] \in {"histogram", "totals"} =>
                                       ptr[t] # snapshot)
  /\ reported' = reported + heap[snapshot].count
  /\ since' = [t \in Threads |-> since[t] + 1]
  /\ main' = "run"
  /\ UNCHANGED <<plan, heap, global, pc, ptr, val, added, freed, active, snapshot,
                 samples>>

\* The threads are joined: get_global_stat.
ReportAll ==
  /\ Defined /\ main = "run"
  /\ \A t \in Threads : pc[t] = "idle"
  /\ printed' = Statistics(global, TRUE)
  /\ main' = "done"
  /\ UNCHANGED <<plan, heap, global, threadVars, freed, active, snapshot,
                 samples, reported>>

Main == Destroy \/ Take \/ Renew \/ Report \/ ReportAll

StatNext == Main \/ \E t \in Threads : Add(t)

StatSpec == StatInit /\ [][StatNext]_statVars

-----------------------------------------------------------------------------
(* Properties *)

IsCounters(c) ==
  /\ DOMAIN c = DOMAIN Empty
  /\ IsABag(c.hist) /\ BagToSet(c.hist) \subseteq 0 .. Size - 1
  /\ c.count \in Nat /\ c.sum \in Nat /\ c.min \in Nat /\ c.max \in Nat

\* Every variable has its type; what is counted is counted inside the arrays.
StatTypeOK ==
  /\ plan \in Plans
  /\ \A k \in DOMAIN heap : IsCounters(heap[k])
  /\ IsCounters(global)
  /\ active \in DOMAIN heap \ freed /\ snapshot \in DOMAIN heap
  /\ pc \in [Threads -> Adding \cup {"idle", "outside", "late"}]
  /\ ptr \in [Threads -> DOMAIN heap]
  /\ added \in [Threads -> Nat] /\ since \in [Threads -> Nat]
  /\ main \in {"run", "take", "renew", "report", "done"}
  /\ samples \in Nat /\ reported \in Nat

\* Main frees counters while a thread may hold a pointer to them, but the
\* thread only comes too late if it was held up inside add, mutex in hand,
\* from before main reported one sample until it took the next, an iteration
\* of main's loop and its sleep at least (stream_stat.cc:56, 71; rebench.cc:239).
FreedLate == \A t \in Threads : pc[t] = "late" => since[t] >= 1

\* No latency from bucket_size up indexes outside the histogram, short of the
\* half slot that rounds up past its end: with 12 and 3, 10^14 ns.  Below
\* bucket_size every latency does (stream_stat.cc:49, 62).
InsideHistogram ==
  \A t \in Threads :
    pc[t] = "outside" => \/ val[t] < BucketSize
                         \/ 2 * val[t] >= (2 * BucketSize - 1) * Pow10[Buckets - 1]

\* The samples miss or hold in excess what the whole does not, but not by
\* more than one latency for each sample, and one at a time: since the threads
\* add one after the other (io_engine.cc:117, stream_stat.cc:70-78).
LossBounded ==
  LET sampled == reported + heap[active].count
                   + (IF main = "report" THEN heap[snapshot].count ELSE 0)
  IN  Defined => sampled \in global.count - samples .. global.count + 1

\* Of latencies clear of the ends of their buckets ...
Clear(v) ==
  /\ v \div BucketSize > 1 /\ Bucket(v) < Buckets
  /\ Compressed(v) + Len(Marks) < BucketSize

\* ... the latency below or at which a mark's share of them is.
Ranked(bag, m) ==
  Min({v \in BagToSet(bag) :
         Before(bag, v + 1) * 1000 >= Marks[m] * Before(bag, MaxTicks + 1)})

\* A percentile of clear latencies is at most half a slot under the true one,
\* and over it by no more than one slot and a half, and a slot for each mark
\* before it (stream_stat.cc:101-115).
PercentilesNear ==
  LET bag == printed.values
  IN  printed.whole /\ bag # EmptyBag /\ (\A v \in BagToSet(bag) : Clear(v)) =>
        \A m \in DOMAIN Marks :
          LET true  == Ranked(bag, m)
              width == Pow10[Bucket(true)]
          IN  2 * (printed.stat.percentiles[m] - true)
                \in - width .. (2 * m + 1) * width

\* rebench.cc:83: "trace latencies up to 10^12 nanoseconds, estimation error
\* 0.1% (10^-3)": percentiles of latencies in the range are that near.
EstimationError ==
  LET bag == printed.values
  IN  printed.whole /\ bag # EmptyBag =>
        \A m \in DOMAIN Marks :
          LET true  == Ranked(bag, m)
              error == printed.stat.percentiles[m] - true
          IN  error * BucketSize \in - true .. true
=============================================================================
