-------------------------------- MODULE Sums --------------------------------
(***************************************************************************)
(* The sum of a function over a finite set: what a loop that adds up the   *)
(* counters of all threads computes when none of them moves.               *)
(***************************************************************************)
EXTENDS Integers, FiniteSetsExt

SumOn(f, S) == MapThenSumSet(LAMBDA x : f[x], S)
=============================================================================
