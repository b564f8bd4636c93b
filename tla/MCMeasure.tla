----------------------------- MODULE MCMeasure ------------------------------
(***************************************************************************)
(* What main measures as the threads run, for TLC: the histograms of       *)
(* StreamStat and the rates of Sampler.  They have no state in common, so  *)
(* a behaviour is of the one or of the other.                              *)
(***************************************************************************)
EXTENDS MCStat, Sampler

VARIABLE subject

MeasureInit ==
  /\ StatInit /\ SamplerInit
  /\ \/ subject = "histograms" /\ steps = <<2>>
     \/ subject = "rates" /\ plan = Racing({5210}, 2, 3)

MeasureNext ==
  /\ \/ subject = "histograms" /\ StatNext /\ UNCHANGED samplerVars
     \/ subject = "rates" /\ SamplerNext /\ UNCHANGED statVars
  /\ UNCHANGED subject

MeasureSpec == MeasureInit /\ [][MeasureNext]_<<statVars, samplerVars, subject>>

\* One to three workloads: latencies (0), no samples at all (-1), short and
\* long steps, in every order.
SampleSteps == UNION {[1 .. n -> {-1, 0, 2, 3}] : n \in 1 .. 3}
=============================================================================
