----------------------------- MODULE Benchmark ------------------------------
(***************************************************************************)
(* What a run of the benchmark promises, whatever its engines and loops    *)
(* look like.  Threads start, issue operations and leave; the first to     *)
(* leave finds its workload stopped or stops it, for good.  The result of  *)
(* a workload is published once, in command order, when all its threads    *)
(* have left, and is the exact number of operations they issued.  The      *)
(* process may abort at any moment.                                        *)
(***************************************************************************)
EXTENDS Integers, FiniteSetsExt

CONSTANTS
  NumWorkloads,    \* the workloads are 1 .. NumWorkloads
  Members          \* the threads of each workload: pairs <<workload, index>>

Workload == 1 .. NumWorkloads
Thread   == UNION {Members[w] : w \in Workload}

VARIABLES
  stage,      \* of each thread: "new", "live" or "gone"
  issued,     \* operations issued by each thread
  stopped,    \* whether each workload was told to stop
  result,     \* the published operations of each workload, -1 before
  outcome     \* of the process: "running", "ok" or "aborted"

bvars == <<stage, issued, stopped, result, outcome>>

BInit ==
  /\ stage   = [t \in Thread |-> "new"]
  /\ issued  = [t \in Thread |-> 0]
  /\ stopped = [w \in Workload |-> FALSE]
  /\ result  = [w \in Workload |-> -1]
  /\ outcome = "running"

Start(t) ==
  /\ outcome = "running" /\ stage[t] = "new"
  /\ stage' = [stage EXCEPT ![t] = "live"]
  /\ UNCHANGED <<issued, stopped, result, outcome>>

Issue(t) ==
  /\ outcome = "running" /\ stage[t] = "live"
  /\ issued' = [issued EXCEPT ![t] = @ + 1]
  /\ UNCHANGED <<stage, stopped, result, outcome>>

Stop(w) ==
  /\ outcome = "running"
  /\ stopped' = [stopped EXCEPT ![w] = TRUE]
  /\ UNCHANGED <<stage, issued, result, outcome>>

Leave(t) ==
  /\ outcome = "running" /\ stage[t] = "live"
  /\ stage' = [stage EXCEPT ![t] = "gone"]
  /\ stopped' = [stopped EXCEPT ![t[1]] = TRUE]
  /\ UNCHANGED <<issued, result, outcome>>

Publish(w) ==
  /\ outcome = "running"
  /\ \A v \in 1 .. w - 1 : result[v] # -1
  /\ result[w] = -1
  /\ stopped[w]
  /\ \A t \in Members[w] : stage[t] = "gone"
  /\ result' = [result EXCEPT ![w] = MapThenSumSet(LAMBDA t : issued[t], Members[w])]
  /\ outcome' = IF w = NumWorkloads THEN "ok" ELSE outcome
  /\ UNCHANGED <<stage, issued, stopped>>

Abort ==
  /\ outcome = "running"
  /\ outcome' = "aborted"
  /\ UNCHANGED <<stage, issued, stopped, result>>

BNext ==
  \/ \E t \in Thread : Start(t) \/ Issue(t) \/ Leave(t)
  \/ \E w \in Workload : Stop(w) \/ Publish(w)
  \/ Abort

BSpec == BInit /\ [][BNext]_bvars
=============================================================================
