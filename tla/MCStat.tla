------------------------------- MODULE MCStat -------------------------------
(***************************************************************************)
(* Instances of StreamStat for TLC: two threads that race with main's      *)
(* samples, one thread alone with many latencies, and the constructor's    *)
(* own bucket size.  A bucket of 100 slots and three buckets otherwise.    *)
(***************************************************************************)
EXTENDS StreamStat

CONSTANTS t1, t2

Alone(values, n, k) ==
  [values |-> values, adds |-> [t \in Threads |-> IF t = t1 THEN n ELSE 0],
   samples |-> k]

Racing(values, n, k) ==
  [values |-> values, adds |-> [t \in Threads |-> n], samples |-> k]

\* Below a bucket, in the first one, in the range, where rounding leaves the
\* array, and past the last bucket.
Edges == {50, 150, 9940, 9960, 20000}

StatPlans == {Racing({5210}, 2, 3), Racing({212, 5260}, 1, 2),
              Alone(Edges, 2, 1), Alone({250, 262, 4870, 4910}, 5, 0),
              Alone({250, 9040}, 10, 0)}

\* One thread, two latencies of a disk's cache and of a disk.
ErrorPlans == {Alone({1500, 200000}, n, s) : n \in 1 .. 3, s \in 0 .. 2}
=============================================================================
