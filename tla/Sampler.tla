------------------------------ MODULE Sampler -------------------------------
(***************************************************************************)
(* The samples main takes of the rates of the workloads: stop_simulations  *)
(* of rebench.cc, with the one last_ticks_now that all of them share.  A   *)
(* visit reads the clock and counts in one instant; times are in           *)
(* milliseconds.  The end of the loop is left out: it may stop anywhere.   *)
(***************************************************************************)
EXTENDS Integers, Sequences

CONSTANTS
  StepLists,   \* the sample steps of the workloads, in command order
  TicksRange,  \* 2^64: ticks_t has no sign
  MaxTime      \* BOUND: the clock stops here

ASSUME SamplerAssumption ==
  /\ StepLists \subseteq Seq(Int) \ {<< >>}
  /\ TicksRange \in Nat /\ MaxTime \in Nat

VARIABLES
  steps,           \* config.sample_step of each workload, fixed
  now,             \* the clock
  last_ticks_now,  \* when main thinks the last samples were taken
  ticks_now,       \* the last reading of this pass or an earlier one; 0 at first
  at,              \* the workload main visits; past them all, the reset
  sampled,         \* history: when each workload was last counted
  rate             \* history: of the last sample of each workload, what its
                   \* operations are divided by, the time they took, since when

samplerVars == <<steps, now, last_ticks_now, ticks_now, at, sampled, rate>>

NoRate == [ms |-> 0, over |-> 0, since |-> 0]

\* The threads have been started, and then the loop reads the clock.
SamplerInit ==
  /\ steps \in StepLists
  /\ now = 1 /\ last_ticks_now = 1 /\ ticks_now = 0
  /\ at = 1
  /\ sampled = [w \in DOMAIN steps |-> 0]
  /\ rate = [w \in DOMAIN steps |-> NoRate]

Elapsed(a, b) == IF a >= b THEN a - b ELSE a - b + TicksRange

\* ms_passed >= sample_step: a negative step becomes a huge one.  Mutant: a
\* step has to be exceeded.
DueAfter(ms, step) == step >= 0 /\ ms > step
Due(ms, step)      == step >= 0 /\ ms >= step

Elapse ==
  /\ now < MaxTime
  /\ now' = now + 1
  /\ UNCHANGED <<steps, last_ticks_now, ticks_now, at, sampled, rate>>

\* ++it.  Mutant: the iterator is advanced twice.
SkipOne      == at + 2
NextWorkload == at + 1

\* A step of zero asks for latencies, and the clock is not read.
VisitLatencies ==
  /\ at \in DOMAIN steps /\ steps[at] = 0
  /\ at' = NextWorkload
  /\ UNCHANGED <<steps, now, last_ticks_now, ticks_now, sampled, rate>>

VisitEarly ==
  /\ at \in DOMAIN steps /\ steps[at] # 0
  /\ ~ Due(Elapsed(now, last_ticks_now), steps[at])
  /\ ticks_now' = now
  /\ at' = NextWorkload
  /\ UNCHANGED <<steps, now, last_ticks_now, sampled, rate>>

\* ops_per_sec = ops_this_time / ms_passed
VisitSample ==
  /\ at \in DOMAIN steps /\ steps[at] # 0
  /\ Due(Elapsed(now, last_ticks_now), steps[at])
  /\ ticks_now' = now
  /\ rate' = [rate EXCEPT ![at] = [ms    |-> Elapsed(now, last_ticks_now),
                                   over  |-> now - sampled[at],
                                   since |-> sampled[at]]]
  /\ sampled' = [sampled EXCEPT ![at] = now]
  /\ at' = NextWorkload
  /\ UNCHANGED <<steps, now, last_ticks_now>>

\* What "Reset the ticks" tests and takes.  Mutants: only a step that is
\* exceeded; the clock is read again.
ResetAfter == DueAfter(Elapsed(ticks_now, last_ticks_now), steps[1])
ResetDue   == Due(Elapsed(ticks_now, last_ticks_now), steps[1])
ReadAgain  == now
Reading    == ticks_now

\* The step of the first workload decides for all; then main sleeps.
EndPass ==
  /\ at = Len(steps) + 1 /\ now < MaxTime
  /\ last_ticks_now' = IF ResetDue THEN Reading ELSE last_ticks_now
  /\ now' = now + 1
  /\ at' = 1
  /\ UNCHANGED <<steps, ticks_now, sampled, rate>>

SamplerNext ==
  Elapse \/ VisitLatencies \/ VisitEarly \/ VisitSample \/ EndPass

SamplerSpec == SamplerInit /\ [][SamplerNext]_samplerVars

-----------------------------------------------------------------------------
(* Properties *)

\* Every variable has its type; the visits stay inside the list.
SamplerTypeOK ==
  /\ steps \in StepLists
  /\ now \in Nat /\ last_ticks_now \in Nat /\ ticks_now \in Nat
  /\ at \in 1 .. Len(steps) + 1
  /\ sampled \in [DOMAIN steps -> Nat]
  /\ rate \in [DOMAIN steps -> [ms : Nat, over : Nat, since : Nat]]

\* README.md:98, "The timestep between IOPS report samples": the samples of a
\* workload whose step is no shorter than the first one's are a step apart at
\* least, and its operations are never divided by more time than they took.
\* A workload with a shorter step has no such luck: it is sampled at every
\* poll until the ticks are reset (rebench.cc:189, 234).
StepApart ==
  \A w \in DOMAIN steps :
    steps[1] \in 0 .. steps[w] /\ rate[w] # NoRate =>
      steps[w] <= rate[w].ms /\ rate[w].ms <= rate[w].over

\* w has the step of the first workload and main reads the clock for no one
\* after it: above all, when w is the only workload.
ReadLast(w) ==
  steps[w] = steps[1] /\ \A v \in DOMAIN steps : v > w => steps[v] = 0

\* Its rates are exact, but for the first, which holds what the threads did
\* before main looked at the clock: ticks_now is w's own reading, and the
\* ticks are reset in the passes that sample it (rebench.cc:188, 233-235).
LastIsExact ==
  \A w \in DOMAIN steps :
    ReadLast(w) /\ rate[w].since # 0 => rate[w].ms = rate[w].over
=============================================================================
