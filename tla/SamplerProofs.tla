---------------------------- MODULE SamplerProofs ---------------------------
(***************************************************************************)
(* Proofs about Sampler for any list of sample steps and any clock: what   *)
(* sharing last_ticks_now does to the rates, and what it cannot do.        *)
(***************************************************************************)
EXTENDS Sampler, TLAPS

Workloads == DOMAIN steps

LEMMA StepsFacts ==
  ASSUME steps \in StepLists
  PROVE  /\ steps \in Seq(Int) /\ Len(steps) \in Nat \ {0}
         /\ Workloads = 1 .. Len(steps) /\ 1 \in Workloads
         /\ \A w \in Workloads : steps[w] \in Int
<1>1. steps \in Seq(Int) /\ steps # << >>
  BY SamplerAssumption
<1> QED
  BY <1>1 DEF Workloads

\* A difference of readings is a natural number when it does not wrap.
LEMMA ElapsedForward ==
  ASSUME NEW a \in Nat, NEW b \in Nat, a >= b
  PROVE  Elapsed(a, b) = a - b /\ Elapsed(a, b) \in Nat
  BY DEF Elapsed

\* The clock is ahead of all that was read from it; a workload that main has
\* visited in this pass, and whose rate it takes, has left a reading behind.
Clock ==
  /\ last_ticks_now <= now /\ ticks_now <= now
  /\ \A w \in Workloads : sampled[w] <= now
  /\ \A w \in Workloads :
       w < at /\ steps[w] # 0 => ticks_now >= last_ticks_now

LEMMA TypeAndClock == SamplerSpec => [](SamplerTypeOK /\ Clock)
<1>1. SamplerInit => SamplerTypeOK /\ Clock
  <2> SUFFICES ASSUME SamplerInit PROVE SamplerTypeOK /\ Clock
    OBVIOUS
  <2>1. steps \in StepLists /\ Len(steps) \in Nat \ {0}
    BY StepsFacts DEF SamplerInit
  <2> QED
    BY <2>1 DEF SamplerInit, SamplerTypeOK, Clock, NoRate, Workloads
<1>2. SamplerTypeOK /\ Clock /\ [SamplerNext]_samplerVars
        => SamplerTypeOK' /\ Clock'
  <2> SUFFICES ASSUME SamplerTypeOK, Clock, [SamplerNext]_samplerVars
               PROVE  SamplerTypeOK' /\ Clock'
    OBVIOUS
  <2> USE DEF SamplerTypeOK, Clock, Workloads
  <2>1. /\ Len(steps) \in Nat \ {0} /\ DOMAIN steps = 1 .. Len(steps)
        /\ \A w \in DOMAIN steps : steps[w] \in Int
    BY StepsFacts
  <2>2. CASE Elapse
    BY <2>1, <2>2, SamplerAssumption DEF Elapse
  <2>3. CASE VisitLatencies
    BY <2>1, <2>3 DEF VisitLatencies, NextWorkload
  <2>4. CASE VisitEarly
    BY <2>1, <2>4 DEF VisitEarly, NextWorkload
  <2>5. CASE VisitSample
    <3>1. Elapsed(now, last_ticks_now) \in Nat
      BY ElapsedForward
    <3>2. now - sampled[at] \in Nat
      BY <2>5 DEF VisitSample
    <3>3. rate' \in [DOMAIN steps -> [ms : Nat, over : Nat, since : Nat]]
      BY <2>5, <3>1, <3>2 DEF VisitSample
    <3> QED
      BY <2>1, <2>5, <3>3 DEF VisitSample, NextWorkload
  <2>6. CASE EndPass
    BY <2>1, <2>6, SamplerAssumption DEF EndPass, Reading
  <2>7. CASE UNCHANGED samplerVars
    BY <2>7 DEF samplerVars
  <2> QED
    BY <2>2, <2>3, <2>4, <2>5, <2>6, <2>7 DEF SamplerNext
<1> QED
  BY <1>1, <1>2, PTL DEF SamplerSpec

\* Every variable keeps its type, and main's visits stay inside the list.
THEOREM SamplerTypeCorrect == SamplerSpec => []SamplerTypeOK
  BY TypeAndClock, PTL

-----------------------------------------------------------------------------
(* When a workload whose step is no shorter than the first one's is        *)
(* sampled, the pass ends with a reset: the ticks are then no earlier than *)
(* its sample.                                                             *)
CountedAt(w) ==
  /\ steps[w] = 0 => rate[w] = NoRate
  /\ steps[w] # 0 /\ steps[1] \in 0 .. steps[w] =>
       /\ \/ sampled[w] <= last_ticks_now
          \/ /\ w < at /\ sampled[w] <= ticks_now
             /\ Due(Elapsed(ticks_now, last_ticks_now), steps[1])
       /\ rate[w] # NoRate => steps[w] <= rate[w].ms /\ rate[w].ms <= rate[w].over

Counted == \A w \in Workloads : CountedAt(w)

LEMMA CountedStep ==
  SamplerTypeOK /\ Clock /\ Counted /\ [SamplerNext]_samplerVars => Counted'
<1> SUFFICES ASSUME SamplerTypeOK, Clock, [SamplerNext]_samplerVars,
                    NEW w \in Workloads, CountedAt(w)
             PROVE  CountedAt(w)'
  BY DEF Counted, Workloads, SamplerNext, samplerVars, Elapse, VisitLatencies,
         VisitEarly, VisitSample, EndPass
<1>1. /\ Len(steps) \in Nat \ {0} /\ DOMAIN steps = 1 .. Len(steps)
      /\ \A v \in DOMAIN steps : steps[v] \in Int
  BY StepsFacts DEF SamplerTypeOK, Workloads
<1> USE <1>1 DEF SamplerTypeOK, Clock, CountedAt, Workloads, Due
<1>2. CASE Elapse
  BY <1>2 DEF Elapse
<1>3. CASE VisitLatencies
  BY <1>3 DEF VisitLatencies, NextWorkload
<1>4. CASE VisitEarly
  <2>1. /\ sampled'[w] = sampled[w] /\ rate'[w] = rate[w] /\ steps' = steps
        /\ ticks_now' = now /\ at' = at + 1 /\ last_ticks_now' = last_ticks_now
    BY <1>4 DEF VisitEarly, NextWorkload
  <2> QED
    BY <2>1 DEF Elapsed
<1>5. CASE VisitSample
  <2>1. Elapsed(now, last_ticks_now) = now - last_ticks_now
    BY ElapsedForward
  <2>2. CASE w = at
    <3>1. steps[1] \in 0 .. steps[w] => sampled[w] <= last_ticks_now
      BY <1>5, <2>2 DEF VisitSample
    <3>2. /\ sampled'[w] = now /\ ticks_now' = now /\ at' = at + 1
          /\ last_ticks_now' = last_ticks_now /\ steps' = steps
          /\ rate'[w].ms = now - last_ticks_now
          /\ rate'[w].over = now - sampled[w]
          /\ now - last_ticks_now >= steps[w] /\ steps[w] # 0
      BY <1>5, <2>1, <2>2 DEF VisitSample, NextWorkload
    <3> QED
      BY <2>1, <2>2, <3>1, <3>2
  <2>3. CASE w # at
    <3>1. /\ sampled'[w] = sampled[w] /\ rate'[w] = rate[w]
          /\ ticks_now' = now /\ at' = at + 1
          /\ last_ticks_now' = last_ticks_now /\ steps' = steps
      BY <1>5, <2>3 DEF VisitSample, NextWorkload
    <3> QED
      BY <2>1, <2>3, <3>1 DEF Elapsed
  <2> QED
    BY <2>2, <2>3
<1>6. CASE EndPass
  <2>1. /\ sampled'[w] = sampled[w] /\ rate'[w] = rate[w] /\ steps' = steps
        /\ at = Len(steps) + 1 /\ w < at
        /\ last_ticks_now' = IF Due(Elapsed(ticks_now, last_ticks_now), steps[1])
                               THEN ticks_now ELSE last_ticks_now
    BY <1>6 DEF EndPass, Reading, ResetDue
  <2> QED
    BY <2>1
<1>7. CASE UNCHANGED samplerVars
  BY <1>7 DEF samplerVars
<1> QED
  BY <1>2, <1>3, <1>4, <1>5, <1>6, <1>7 DEF SamplerNext

\* No workload whose step is no shorter than the first one's has its
\* operations divided by more time than they took, or is sampled too soon.
THEOREM SamplesStepApart == SamplerSpec => []StepApart
<1>1. SamplerInit => Counted
  BY DEF SamplerInit, Counted, CountedAt, Workloads
<1>2. Counted => StepApart
  BY DEF Counted, CountedAt, StepApart, Workloads
<1> QED
  BY <1>1, <1>2, TypeAndClock, CountedStep, PTL DEF SamplerSpec

-----------------------------------------------------------------------------
(* The workload that is read last, with the step of the first one, was     *)
(* last sampled when the ticks say, before and after the reset of a pass.  *)
SampledThen(w) ==
  IF w < at
    THEN IF Due(Elapsed(ticks_now, last_ticks_now), steps[1])
           THEN sampled[w] = ticks_now
           ELSE sampled[w] \in {0, last_ticks_now}
    ELSE sampled[w] \in {0, last_ticks_now}

ExactAt(w) ==
  /\ steps[w] = 0 => rate[w] = NoRate
  /\ steps[w] # 0 /\ ReadLast(w) =>
       /\ SampledThen(w)
       /\ rate[w].since # 0 => rate[w].ms = rate[w].over

Exact == \A w \in Workloads : ExactAt(w)

LEMMA ExactStep ==
  SamplerTypeOK /\ Clock /\ Exact /\ [SamplerNext]_samplerVars => Exact'
<1> SUFFICES ASSUME SamplerTypeOK, Clock, [SamplerNext]_samplerVars,
                    NEW w \in Workloads, ExactAt(w)
             PROVE  ExactAt(w)'
  BY DEF Exact, Workloads, SamplerNext, samplerVars, Elapse, VisitLatencies,
         VisitEarly, VisitSample, EndPass
<1>1. /\ Len(steps) \in Nat \ {0} /\ DOMAIN steps = 1 .. Len(steps)
      /\ \A v \in DOMAIN steps : steps[v] \in Int
  BY StepsFacts DEF SamplerTypeOK, Workloads
<1>2. ReadLast(w) /\ w < at /\ at \in DOMAIN steps => steps[at] = 0
  BY <1>1 DEF ReadLast, Workloads, SamplerTypeOK
<1> USE <1>1 DEF SamplerTypeOK, Clock, ExactAt, SampledThen, ReadLast, Workloads
<1>3. CASE Elapse
  BY <1>3 DEF Elapse
<1>4. CASE VisitLatencies
  <2>1. /\ sampled'[w] = sampled[w] /\ rate'[w] = rate[w] /\ steps' = steps
        /\ ticks_now' = ticks_now /\ last_ticks_now' = last_ticks_now
        /\ at' = at + 1 /\ steps[at] = 0
    BY <1>4 DEF VisitLatencies, NextWorkload
  <2> QED
    BY <2>1
<1>5. CASE VisitEarly
  <2>1. /\ sampled'[w] = sampled[w] /\ rate'[w] = rate[w] /\ steps' = steps
        /\ ticks_now' = now /\ at' = at + 1 /\ last_ticks_now' = last_ticks_now
        /\ steps[at] # 0 /\ at \in DOMAIN steps
        /\ ~ Due(Elapsed(now, last_ticks_now), steps[at])
    BY <1>5 DEF VisitEarly, NextWorkload
  <2> QED
    BY <1>2, <2>1
<1>6. CASE VisitSample
  <2>1. Elapsed(now, last_ticks_now) = now - last_ticks_now
    BY ElapsedForward
  <2>2. /\ ticks_now' = now /\ at' = at + 1 /\ last_ticks_now' = last_ticks_now
        /\ steps' = steps /\ steps[at] # 0 /\ at \in DOMAIN steps
        /\ Due(Elapsed(now, last_ticks_now), steps[at])
    BY <1>6 DEF VisitSample, NextWorkload
  <2>3. CASE w = at
    <3>1. /\ sampled'[w] = now
          /\ rate'[w] = [ms |-> now - last_ticks_now, over |-> now - sampled[w],
                         since |-> sampled[w]]
      BY <1>6, <2>1, <2>3 DEF VisitSample
    <3>2. steps[w] = steps[1] => SampledThen(w)'
      BY <2>2, <2>3, <3>1
    <3>3. ReadLast(w) => sampled[w] \in {0, last_ticks_now}
      BY <2>2, <2>3
    <3>4. ReadLast(w)' => ReadLast(w)
      BY <2>2
    <3>5. ReadLast(w)' /\ rate'[w].since # 0 => rate'[w].ms = rate'[w].over
      BY <3>1, <3>3, <3>4
    <3> QED
      BY <2>2, <2>3, <3>2, <3>5
  <2>4. CASE w # at
    <3>1. sampled'[w] = sampled[w] /\ rate'[w] = rate[w]
      BY <1>6, <2>4 DEF VisitSample
    <3> QED
      BY <1>2, <2>2, <2>4, <3>1
  <2> QED
    BY <2>3, <2>4
<1>7. CASE EndPass
  <2>1. /\ sampled'[w] = sampled[w] /\ rate'[w] = rate[w] /\ steps' = steps
        /\ at = Len(steps) + 1 /\ w < at /\ at' = 1
        /\ last_ticks_now' = IF Due(Elapsed(ticks_now, last_ticks_now), steps[1])
                               THEN ticks_now ELSE last_ticks_now
    BY <1>7 DEF EndPass, Reading, ResetDue
  <2> QED
    BY <2>1
<1>8. CASE UNCHANGED samplerVars
  BY <1>8 DEF samplerVars
<1> QED
  BY <1>3, <1>4, <1>5, <1>6, <1>7, <1>8 DEF SamplerNext

\* The rates of a workload by itself are exact, and so are those of the last
\* one main reads the clock for, if its step is the first one's.
THEOREM LastRateIsExact == SamplerSpec => []LastIsExact
<1>1. SamplerInit => Exact
  <2> SUFFICES ASSUME SamplerInit, NEW w \in Workloads PROVE ExactAt(w)
    BY DEF Exact
  <2>1. Len(steps) \in Nat \ {0} /\ Workloads = 1 .. Len(steps)
    BY StepsFacts DEF SamplerInit
  <2> QED
    BY <2>1 DEF SamplerInit, ExactAt, SampledThen, Workloads, NoRate
<1>2. Exact => LastIsExact
  BY DEF Exact, ExactAt, LastIsExact, Workloads, NoRate
<1> QED
  BY <1>1, <1>2, TypeAndClock, ExactStep, PTL DEF SamplerSpec
=============================================================================
