-------------------------- MODULE SimulationProofs --------------------------
(***************************************************************************)
(* Proofs about Simulation for every list of workloads, every bound and    *)
(* with system calls that may fail.                                        *)
(***************************************************************************)
EXTENDS Simulation, SumTheorems, TLAPS

\* A configuration has at least one thread; the engines are the pairs of a
\* workload and one of its threads.
LEMMA ConfigFacts ==
  /\ NW \in Nat \ {0}
  /\ Workloads = 1 .. NW
  /\ \A w \in Workloads : /\ Config[w] \in ConfigType
                          /\ Config[w].threads \in Nat \ {0}
                          /\ Config[w].sample_step \in Int
                          /\ Config[w].local_fd \in BOOLEAN
                          /\ Config[w].output \in BOOLEAN
<1>1. Config \in Seq(ConfigType) /\ Config # << >>
  BY ConfigAssumption
<1>2. NW \in Nat \ {0} /\ DOMAIN Config = 1 .. NW
  BY <1>1 DEF NW
<1>3. \A w \in 1 .. NW : Config[w] \in ConfigType
  BY <1>1, <1>2
<1>4. ASSUME NEW c \in ConfigType
      PROVE  /\ c.threads \in Nat \ {0} /\ c.sample_step \in Int
             /\ c.local_fd \in BOOLEAN /\ c.output \in BOOLEAN
  BY DEF ConfigType
<1> QED
  BY <1>2, <1>3, <1>4 DEF Workloads, NW

LEMMA EngineFacts ==
  /\ \A w \in Workloads : \A i \in Threads(w) : <<w, i>> \in Engines
  /\ \A e \in Engines : /\ e[1] \in Workloads /\ e[2] \in Threads(e[1])
                        /\ e = <<e[1], e[2]>>
  /\ \A w \in Workloads : EnginesOf(w) = {e \in Engines : e[1] = w}
  BY DEF Engines, EnginesOf

-----------------------------------------------------------------------------
(* Type correctness *)

LEMMA TypeInit == Init => TypeOK
<1> SUFFICES ASSUME Init PROVE TypeOK
  OBVIOUS
<1>1. EngineTypeOK
  BY DEF Init, EngineInit, EngineTypeOK, ThreadLabels, NotSeen
<1>2. cur \in Workloads /\ idx \in Threads(cur)
  BY ConfigFacts DEF Init, Threads
<1> QED
  BY <1>1, <1>2 DEF Init, TypeOK, MainLabels

\* A step of a thread leaves main's variables alone.
LEMMA TypeWorker ==
  ASSUME TypeOK, NEW e \in Engines, Worker(e)
  PROVE  TypeOK'
<1>1. SUFFICES EngineTypeOK'
  BY DEF TypeOK, Worker, mainVars
<1> USE DEF TypeOK, EngineTypeOK, ThreadLabels, Goto
<1>2. e[1] \in Workloads
  BY EngineFacts
<1>3. CASE TestDone(e)
  BY <1>3 DEF TestDone
<1>4. CASE ClaimOp(e)
  BY <1>4 DEF ClaimOp
<1>5. CASE OpRefused(e)
  BY <1>5 DEF OpRefused
<1>6. CASE OpPerformed(e)
  BY <1>6 DEF OpPerformed
<1>7. CASE OpFails(e)
  BY <1>7 DEF OpFails
<1>8. CASE EnterPush(e)
  <2>1. (IF Cfg(e).sample_step = 0 THEN latencies[e[1]] ELSE << >>)
          \in Seq(Nat \X Nat)
    BY <1>2
  <2>2. /\ latency_mutex' \in [Workloads -> Engines \cup {NoEngine}]
        /\ pc' \in [Engines -> ThreadLabels]
    BY <1>8 DEF EnterPush
  <2>3. seen' \in [Engines -> [latencies : Seq(Nat \X Nat), count : Nat]]
    BY <1>2, <1>8, <2>1 DEF EnterPush
  <2> QED
    BY <1>8, <2>2, <2>3 DEF EnterPush
<1>9. CASE LeavePush(e)
  <2>1. <<e[2], ops[e]>> \in Nat \X Nat
    <3>1. Config[e[1]].threads \in Nat \ {0}
      BY <1>2, ConfigFacts
    <3>2. e[2] \in 1 .. Config[e[1]].threads
      BY EngineFacts DEF Threads
    <3> QED
      BY <3>1, <3>2
  <2>2. Append(seen[e].latencies, <<e[2], ops[e]>>) \in Seq(Nat \X Nat)
    BY <2>1
  <2>3. latencies' \in [Workloads -> Seq(Nat \X Nat)]
    BY <1>2, <1>9, <2>2 DEF LeavePush
  <2>4. seen' \in [Engines -> [latencies : Seq(Nat \X Nat), count : Nat]]
    BY <1>9 DEF LeavePush, NotSeen
  <2>5. seen[e].count + 1 \in Nat
    OBVIOUS
  <2>6. stat_count' \in [Workloads -> Nat]
    BY <1>2, <1>9, <2>5 DEF LeavePush
  <2>7. /\ pc' \in [Engines -> ThreadLabels]
        /\ latency_mutex' \in [Workloads -> Engines \cup {NoEngine}]
        /\ UNCHANGED <<is_done, ops, performed, res, status>>
    BY <1>2, <1>9 DEF LeavePush, AfterPush, Unlocked
  <2> QED
    BY <2>3, <2>4, <2>6, <2>7
<1>10. CASE SetDone(e)
  BY <1>2, <1>10 DEF SetDone
<1> QED
  BY <1>3, <1>4, <1>5, <1>6, <1>7, <1>8, <1>9, <1>10
     DEF Worker, RunBenchmark

\* The variables of the threads that no step of main writes, or only some
\* steps, keep their types.
LEMMA TypeMain ==
  ASSUME TypeOK, Main
  PROVE  TypeOK'
<1> USE DEF TypeOK, EngineTypeOK, MainLabels, At
<1>1. /\ cur \in Workloads /\ Config[cur].threads \in Nat \ {0}
      /\ Config[cur].local_fd \in BOOLEAN /\ Config[cur].output \in BOOLEAN
  BY ConfigFacts
<1>2. \A w \in Workloads : 1 \in Threads(w)
  BY ConfigFacts DEF Threads
<1>3. cur < NW => cur + 1 \in Workloads
  BY ConfigFacts
<1>4. 1 \in Workloads
  BY ConfigFacts
<1>5. mpc # "collect" => idx \in Threads(cur) /\ self \in Engines
  BY EngineFacts DEF self
<1>6. mpc # "collect" /\ idx < Config[cur].threads => idx + 1 \in Threads(cur)
  BY <1>1 DEF Threads
<1>7. CASE Spawn
  <2>1. self \in Engines /\ idx \in Nat
    BY <1>7, <1>5 DEF Spawn
  <2>2. fd' \in [Engines -> Engines \cup {NoEngine}]
    <3>1. fd[<<cur, 1>>] \in Engines \cup {NoEngine}
      BY <1>2, EngineFacts
    <3> QED
      BY <1>7, <2>1, <3>1 DEF Spawn, SetupIo, CopyIoState
  <2>3. output_fd' \in [Workloads -> Nat]
    BY <1>7, <2>1 DEF Spawn, SetupIo, CopyIoState, self
  <2>4. open' \in SUBSET Descriptor
    BY <1>7, <2>1 DEF Spawn, SetupIo, CopyIoState, Descriptor
  <2>5. pc' \in [Engines -> ThreadLabels]
    BY <1>7, <2>1 DEF Spawn, ThreadLabels
  <2>6. /\ mpc' \in {"spawn", "look"} /\ cur' \in Workloads
        /\ idx' \in Threads(cur') /\ idx' \in Nat \ {0}
    <3>1. CASE idx < Config[cur].threads
      BY <1>7, <3>1, <1>6 DEF Spawn
    <3>2. CASE ~ (idx < Config[cur].threads)
      BY <1>7, <3>2, <1>2, <1>3, <1>4 DEF Spawn
    <3> QED
      BY <3>1, <3>2
  <2> QED
    BY <1>7, <2>2, <2>3, <2>4, <2>5, <2>6 DEF Spawn
<1>8. CASE SysCallFails
  BY <1>8 DEF SysCallFails, mainVars
<1>9. CASE Look
  <2>1. UNCHANGED <<ops, performed, pc, res, latency_mutex, latencies,
                    stat_count, seen, status, cur, idx, total_slept,
                    last_ops_so_far, collected, fd, output_fd, open, joins,
                    reported>>
    BY <1>9 DEF Look
  <2>2. /\ is_done' \in [Workloads -> BOOLEAN]
        /\ all_done' \in BOOLEAN
    BY <1>9 DEF Look, LookDone, LookSpace, LookTime, StopIf, LookInteractive
  <2>3. /\ ops_so_far' \in Nat \cup {-1}
        /\ mpc' \in {"stats", "sum_quota", "wait"}
        /\ mpc = "look"
    BY <1>9 DEF Look, LookDone, LookSpace, LookTime, StopIf, LookInteractive
  <2> QED
    BY <2>1, <2>2, <2>3
<1>10. CASE Wait
  BY <1>10 DEF Wait, engineVars
<1>11. ASSUME NEW label \in {"sum_quota", "sum_sample", "sum_total"},
              NEW after \in {"quota", "sample", "report"},
              ComputeTotalOps(label, after)
       PROVE  TypeOK'
  <2>1. /\ ops_so_far' \in Nat \cup {-1}
        /\ mpc # "collect"
    BY <1>11, <1>5 DEF ComputeTotalOps
  <2>2. /\ idx' \in Threads(cur) /\ idx' \in Nat \ {0}
        /\ mpc' \in {mpc, "quota", "sample", "report"}
    <3>1. CASE idx < Config[cur].threads
      BY <1>11, <2>1, <3>1, <1>6 DEF ComputeTotalOps, NextThread
    <3>2. CASE ~ (idx < Config[cur].threads)
      BY <1>11, <3>2, <1>2 DEF ComputeTotalOps, NextThread
    <3> QED
      BY <3>1, <3>2
  <2> QED
    BY <1>11, <2>1, <2>2 DEF ComputeTotalOps, engineVars
<1>12. CASE Quota
  BY <1>12 DEF Quota, StopIf
<1>13. CASE ChooseStats
  BY <1>13 DEF ChooseStats, engineVars
<1>14. CASE Sample
  BY <1>14 DEF Sample, engineVars
<1>15. CASE Collect
  <2>1. latencies[cur][idx] \in Nat \X Nat /\ Garbage \in Nat \X Nat
    BY <1>15 DEF Collect, Garbage
  <2>2. PICK x \in Nat \X Nat :
          collected' = [collected EXCEPT ![cur] = Append(@, x)]
    BY <1>15, <2>1 DEF Collect
  <2>3. Append(collected[cur], x) \in Seq(Nat \X Nat)
    OBVIOUS
  <2>4. collected' \in [Workloads -> Seq(Nat \X Nat)]
    BY <2>2, <2>3
  <2>5. /\ mpc' = "collect" /\ idx' = idx + 1
        /\ UNCHANGED <<engineVars, cur, all_done, total_slept, ops_so_far,
                       last_ops_so_far, fd, output_fd, open, joins, reported>>
    BY <1>15 DEF Collect
  <2>6. EngineTypeOK'
    BY <2>5 DEF engineVars
  <2>7. idx' \in Nat \ {0}
    BY <2>5
  <2> QED
    BY <2>4, <2>5, <2>6, <2>7, ZenonT(30)
<1>16. CASE CollectCrashes
  BY <1>16 DEF CollectCrashes, mainVars
<1>17. CASE CollectEnds
  BY <1>17, <1>2 DEF CollectEnds, engineVars
<1>18. CASE Clear
  <2>1. latencies' \in [Workloads -> Seq(Nat \X Nat)]
    BY <1>18 DEF Clear
  <2> QED
    BY <1>18, <2>1, <1>5 DEF Clear
<1>19. ASSUME NextWorkload
       PROVE  /\ mpc' \in MainLabels \ {"collect"} /\ cur' \in Workloads
              /\ idx' \in Threads(cur') /\ idx' \in Nat \ {0}
              /\ all_done' \in BOOLEAN /\ total_slept' \in Nat
              /\ ops_so_far' \in Nat \cup {-1}
  <2>1. CASE cur < NW
    BY <2>1, <1>19, <1>2, <1>3 DEF NextWorkload, PassEnds, Slept, NoCount
  <2>2. CASE ~ (cur < NW)
    <3>1. cur' = 1 /\ idx' = 1 /\ all_done' = TRUE /\ ops_so_far' = -1
      BY <2>2, <1>19 DEF NextWorkload, PassEnds, Slept, NoCount
    <3>2. mpc' \in {"close", "look"} /\ total_slept' \in {total_slept, total_slept + 1}
      BY <2>2, <1>19 DEF NextWorkload, PassEnds, Slept, NoCount
    <3> QED
      BY <3>1, <3>2, <1>2, <1>4
  <2> QED
    BY <2>1, <2>2
<1>20. CASE Reap
  <2>1. UNCHANGED <<engineVars, last_ops_so_far, collected, fd, output_fd,
                    open, joins, reported>>
    BY <1>20 DEF Reap
  <2>2. CASE is_done[cur]
    BY <2>1, <2>2, <1>20, <1>2 DEF Reap, engineVars
  <2>3. CASE ~ is_done[cur]
    <3>1. NextWorkload
      BY <2>3, <1>20 DEF Reap
    <3> QED
      BY <2>1, <3>1, <1>19 DEF engineVars
  <2> QED
    BY <2>2, <2>3
<1>21. CASE Join
  <2>1. UNCHANGED <<engineVars, last_ops_so_far, collected, fd, output_fd,
                    open, reported>>
    BY <1>21 DEF Join
  <2>2. joins' \in [Engines -> 0 .. 2]
    <3>1. self \in Engines
      BY <1>21, <1>5 DEF Join
    <3> QED
      BY <3>1, <1>21 DEF Join
  <2>3. CASE idx < Config[cur].threads
    <3>1. /\ UNCHANGED <<mpc, cur, all_done, total_slept, ops_so_far>>
          /\ idx' = idx + 1 /\ mpc = "join"
      BY <2>3, <1>21 DEF Join
    <3>2. idx' \in Threads(cur)
      BY <3>1, <2>3, <1>6
    <3> QED
      BY <2>1, <2>2, <3>1, <3>2 DEF engineVars
  <2>4. CASE ~ (idx < Config[cur].threads)
    <3>1. NextWorkload
      BY <2>4, <1>21 DEF Join
    <3> QED
      BY <2>1, <2>2, <3>1, <1>19 DEF engineVars
  <2> QED
    BY <2>3, <2>4
<1>22. CASE JoinFails
  <2>1. joins' \in [Engines -> 0 .. 2]
    BY <1>22, <1>5 DEF JoinFails
  <2>2. status' \in {"running", "ok", "exit", "crash"}
    BY <1>22 DEF JoinFails
  <2> QED
    BY <1>22, <2>1, <2>2 DEF JoinFails
<1>23. CASE CloseLocal
  <2>1. UNCHANGED <<is_done, ops, performed, pc, res, latency_mutex,
                    latencies, stat_count, seen, cur, all_done, total_slept,
                    last_ops_so_far, collected, fd, output_fd, joins, reported>>
    BY <1>23 DEF CloseLocal
  <2>2. /\ open' \subseteq open /\ status' \in {status, "exit"}
        /\ ops_so_far' = 0
    BY <1>23 DEF CloseLocal, FreshTotal, CleanupIo
  <2>3. mpc' \in {"close", "sum_total"} /\ idx' \in Threads(cur) /\ idx' \in Nat \ {0}
    BY <1>23, <1>2, <1>5, <1>6 DEF CloseLocal, NextThread
  <2> QED
    BY <2>1, <2>2, <2>3
<1>24. CASE Report
  <2>1. UNCHANGED <<is_done, ops, performed, pc, res, latency_mutex,
                    latencies, stat_count, seen, all_done, total_slept,
                    ops_so_far, last_ops_so_far, collected, fd, output_fd, joins>>
    BY <1>24 DEF Report
  <2>2. open' \subseteq open /\ idx' = 1
    BY <1>24 DEF Report
  <2>3. /\ status' \in {status, "exit", "crash", "ok"}
        /\ mpc' \in {"report", "close"}
        /\ cur' \in {cur} \cup (IF cur < NW THEN {cur + 1} ELSE {})
        /\ reported' \in {reported, [reported EXCEPT ![cur] = ops_so_far]}
    BY <1>24 DEF Report
  <2>4. reported' \in [Workloads -> Nat \cup {-1}]
    BY <2>3
  <2>5. cur' \in Workloads /\ idx' \in Threads(cur')
    BY <2>2, <2>3, <1>2, <1>3
  <2> QED
    BY <2>1, <2>2, <2>3, <2>4, <2>5
<1> QED
  BY <1>7, <1>8, <1>9, <1>10, <1>11, <1>12, <1>13, <1>14, <1>15, <1>16,
     <1>17, <1>18, <1>20, <1>21, <1>22, <1>23, <1>24 DEF Main

LEMMA TypeNext == TypeOK /\ [Next]_vars => TypeOK'
<1> SUFFICES ASSUME TypeOK, [Next]_vars PROVE TypeOK'
  OBVIOUS
<1>1. CASE UNCHANGED vars
  BY <1>1 DEF TypeOK, EngineTypeOK, vars, mainVars, engineVars
<1> QED
  BY <1>1, TypeMain, TypeWorker DEF Next, Ended

\* Every variable keeps its type, and main's loop variables stay in range, on
\* every list of workloads that parse_options accepts.
THEOREM TypeCorrect == Spec => []TypeOK
  BY TypeInit, TypeNext, PTL DEF Spec

-----------------------------------------------------------------------------
(* No descriptor is closed under a thread *)

\* What a step of a thread may do to the program counters and to is_done.
LEMMA WorkerFrame ==
  ASSUME TypeOK, NEW e \in Engines, Worker(e)
  PROVE  /\ UNCHANGED mainVars
         /\ pc[e] \notin {"unborn", "exited"}
         /\ \E l \in ThreadLabels \ {"unborn"} : pc' = [pc EXCEPT ![e] = l]
         /\ \A w \in Workloads : is_done[w] => is_done'[w]
<1>1. pc \in [Engines -> ThreadLabels] /\ is_done \in [Workloads -> BOOLEAN]
  BY DEF TypeOK, EngineTypeOK
<1>2. UNCHANGED mainVars
  BY DEF Worker
<1>3. CASE SetDone(e)
  BY <1>1, <1>2, <1>3 DEF SetDone, Goto, ThreadLabels
<1>4. CASE OpFails(e)
  <2>1. pc' = pc /\ pc[e] \in {"test", "op"} /\ is_done' = is_done
    BY <1>4 DEF OpFails
  <2>2. pc' = [pc EXCEPT ![e] = pc[e]]
    BY <1>1, <2>1
  <2> QED
    BY <1>2, <2>1, <2>2 DEF ThreadLabels
<1>5. CASE \/ TestDone(e) \/ ClaimOp(e) \/ OpRefused(e) \/ OpPerformed(e)
           \/ EnterPush(e) \/ LeavePush(e)
  <2>1. is_done' = is_done
    BY <1>5 DEF TestDone, ClaimOp, OpRefused, OpPerformed, EnterPush,
                LeavePush
  <2>2. \E from, to \in ThreadLabels :
          /\ from \notin {"unborn", "exited"} /\ to # "unborn"
          /\ Goto(e, from, to)
    BY <1>5 DEF TestDone, ClaimOp, OpRefused, OpPerformed, EnterPush,
                LeavePush, AfterPush, ThreadLabels
  <2> QED
    BY <1>2, <2>1, <2>2 DEF Goto
<1> QED
  BY <1>3, <1>4, <1>5 DEF Worker, RunBenchmark

LEMMA PhaseWorker ==
  ASSUME PhaseInv, NEW e \in Engines, Worker(e)
  PROVE  PhaseInv'
<1>1. TypeOK'
  BY TypeWorker DEF PhaseInv
<1>2. /\ UNCHANGED mainVars
      /\ pc[e] \notin {"unborn", "exited"}
      /\ \A w \in Workloads : is_done[w] => is_done'[w]
  BY WorkerFrame DEF PhaseInv
<1>3. PICK l \in ThreadLabels \ {"unborn"} : pc' = [pc EXCEPT ![e] = l]
  BY WorkerFrame DEF PhaseInv
<1>4. \A f \in Engines : /\ pc[f] = "exited" => pc'[f] = "exited"
                         /\ pc'[f] # "unborn" <=> pc[f] # "unborn"
  BY <1>2, <1>3 DEF PhaseInv, TypeOK, EngineTypeOK
<1>5. BornInv' /\ DescriptorInv'
  BY <1>2, <1>4 DEF PhaseInv, BornInv, Spawned, DescriptorInv, mainVars
<1>6. FoundInv'
  BY <1>2 DEF PhaseInv, TypeOK, FoundInv, mainVars
<1>7. JoinInv' /\ PassInv' /\ ClosingInv'
  BY <1>2, <1>4, EngineFacts
     DEF PhaseInv, TypeOK, JoinInv, PassInv, ClosingInv, mainVars
<1> QED
  BY <1>1, <1>5, <1>6, <1>7 DEF PhaseInv

LEMMA PhaseInit == Init => PhaseInv
<1> SUFFICES ASSUME Init PROVE PhaseInv
  OBVIOUS
<1>1. TypeOK
  BY TypeInit
<1>2. \A e \in Engines : pc[e] = "unborn" /\ ~ (e[1] < 1) /\ ~ (e[2] < 1)
  BY ConfigFacts, EngineFacts DEF Init, EngineInit, Threads
<1> QED
  BY <1>1, <1>2
     DEF Init, PhaseInv, BornInv, Spawned, DescriptorInv, FoundInv, JoinInv,
         PassInv, ClosingInv, Closing, Visiting, Deciding

LEMMA PhaseSpawn ==
  ASSUME PhaseInv, Spawn
  PROVE  PhaseInv'
<1>1. TypeOK'
  BY TypeMain DEF PhaseInv, Main
<1>2. /\ mpc = "spawn" /\ self \in Engines
      /\ cur \in Workloads /\ idx \in 1 .. Config[cur].threads
      /\ Config[cur].threads \in Nat
      /\ pc' = [pc EXCEPT ![self] = "test"]
      /\ pc \in [Engines -> ThreadLabels]
      /\ fd \in [Engines -> Engines \cup {NoEngine}]
  BY ConfigFacts, EngineFacts
     DEF PhaseInv, TypeOK, EngineTypeOK, Spawn, At, self, Threads
<1>3. \A e \in Engines : /\ e[1] \in 1 .. NW /\ e[2] \in Nat
                         /\ 1 <= e[2] /\ e[2] <= Config[e[1]].threads
                         /\ e = self <=> e[1] = cur /\ e[2] = idx
  BY ConfigFacts, EngineFacts DEF Threads, self
<1>4. BornInv'
  <2>1. ASSUME NEW e \in Engines
        PROVE  pc'[e] # "unborn" <=> e = self \/ Spawned(e)
    BY <1>2 DEF PhaseInv, BornInv
  <2>2. ASSUME NEW e \in Engines
        PROVE  Spawned(e)' <=> e = self \/ Spawned(e)
    <3>1. CASE idx < Config[cur].threads
      <4>1. mpc' = "spawn" /\ cur' = cur /\ idx' = idx + 1
        BY <1>2, <3>1 DEF Spawn
      <4>2. e[2] < idx + 1 <=> e[2] < idx \/ e[2] = idx
        <5>1. e[2] \in Nat /\ idx \in Nat
          BY <1>2, <1>3
        <5> QED
          BY <5>1
      <4> QED
        BY <1>2, <1>3, <4>1, <4>2 DEF Spawned
    <3>2. CASE ~ (idx < Config[cur].threads) /\ cur < NW
      <4>1. mpc' = "spawn" /\ cur' = cur + 1 /\ idx' = 1 /\ idx = Config[cur].threads
        BY <1>2, <3>2 DEF Spawn
      <4> QED
        BY <1>2, <1>3, <4>1, ConfigFacts DEF Spawned
    <3>3. CASE ~ (idx < Config[cur].threads) /\ ~ (cur < NW)
      <4>1. mpc' = "look" /\ cur = NW /\ idx = Config[cur].threads
        BY <1>2, <3>3, ConfigFacts DEF Spawn
      <4>2. e = self \/ e[1] < cur \/ (e[1] = cur /\ e[2] < idx)
        <5>1. /\ e[1] \in 1 .. NW /\ e[2] \in Nat /\ idx \in Nat
              /\ e[2] <= Config[e[1]].threads
              /\ e = self <=> e[1] = cur /\ e[2] = idx
          BY <1>2, <1>3
        <5> QED
          BY <5>1, <4>1, ConfigFacts
      <4> QED
        BY <4>1, <4>2 DEF Spawned
    <3> QED
      BY <3>1, <3>2, <3>3
  <2> QED
    BY <2>1, <2>2 DEF BornInv
<1>5. DescriptorInv'
  <2>1. open \subseteq open'
    BY DEF Spawn, SetupIo, CopyIoState
  <2>2. \A e \in Engines \ {self} : fd'[e] = fd[e] /\ pc'[e] = pc[e]
    BY <1>2 DEF Spawn, SetupIo, CopyIoState
  <2>3. \A e \in Engines : pc[e] # "unborn" => <<"device", fd[e]>> \in open
    BY <1>2 DEF PhaseInv, DescriptorInv, Closing
  <2>4. <<"device", fd'[self]>> \in open'
    <3>1. CASE Config[cur].local_fd \/ idx = 1
      BY <1>2, <3>1 DEF Spawn, SetupIo
    <3>2. CASE ~ (Config[cur].local_fd \/ idx = 1)
      <4>1. <<cur, 1>> \in Engines /\ Spawned(<<cur, 1>>)
        BY <1>2, <3>2, ConfigFacts, EngineFacts DEF Threads, Spawned
      <4>2. <<"device", fd[<<cur, 1>>]>> \in open
        BY <2>3, <4>1 DEF PhaseInv, BornInv
      <4> QED
        BY <1>2, <3>2, <4>2 DEF Spawn, CopyIoState
    <3> QED
      BY <3>1, <3>2
  <2> QED
    BY <2>1, <2>2, <2>3, <2>4 DEF DescriptorInv
<1>6. mpc' \in {"spawn", "look"} /\ (mpc' = "look" => cur' = 1)
  BY <1>2 DEF Spawn
<1> QED
  BY <1>1, <1>3, <1>4, <1>5, <1>6
     DEF PhaseInv, FoundInv, JoinInv, PassInv, ClosingInv, Closing, Visiting,
         Deciding

\* The end of a visit: the pass goes on, or it ends with all_done set only if
\* every thread has exited.
LEMMA NextWorkloadInv ==
  ASSUME PhaseInv, NextWorkload, mpc \in Visiting, UNCHANGED <<pc, is_done>>,
         all_done => \A e \in EnginesOf(cur) : pc[e] = "exited"
  PROVE  FoundInv' /\ JoinInv' /\ PassInv' /\ ClosingInv'
<1>1. cur \in 1 .. NW /\ NW \in Nat /\ \A e \in Engines : e[1] \in 1 .. NW
  BY ConfigFacts, EngineFacts DEF PhaseInv, TypeOK
<1>2. all_done => \A e \in Engines : e[1] <= cur => pc[e] = "exited"
  <2>1. all_done => \A e \in Engines : e[1] < cur => pc[e] = "exited"
    BY DEF PhaseInv, PassInv
  <2>2. EnginesOf(cur) = {e \in Engines : e[1] = cur}
    BY <1>1, EngineFacts, ConfigFacts
  <2> QED
    BY <1>1, <2>1, <2>2
<1>3. CASE cur < NW
  <2>1. mpc' = "look" /\ cur' = cur + 1 /\ all_done' = all_done
    BY <1>3 DEF NextWorkload, PassEnds, Slept, NoCount
  <2> QED
    BY <1>1, <1>2, <2>1
       DEF FoundInv, JoinInv, PassInv, ClosingInv, Visiting, Closing
<1>4. CASE ~ (cur < NW)
  <2>1. cur' = 1 /\ mpc' = (IF all_done THEN "close" ELSE "look")
    BY <1>4 DEF NextWorkload, PassEnds, Slept, NoCount
  <2>2. mpc' = "close" => \A e \in Engines : pc[e] = "exited"
    BY <1>1, <1>2, <1>4, <2>1
  <2> QED
    BY <1>1, <2>1, <2>2
       DEF FoundInv, JoinInv, PassInv, ClosingInv, Visiting, Deciding, Closing
<1> QED
  BY <1>3, <1>4

\* The steps of main after start_simulations leave the program counters
\* alone, and none takes is_done back.
LEMMA MainFrame ==
  ASSUME TypeOK, Main, ~ Spawn
  PROVE  /\ UNCHANGED <<pc, fd>>
         /\ \A w \in Workloads : is_done[w] => is_done'[w]
<1>1. is_done \in [Workloads -> BOOLEAN] /\ cur \in Workloads
  BY DEF TypeOK, EngineTypeOK
<1>2. CASE SysCallFails
  BY <1>2 DEF SysCallFails, mainVars
<1>3. CASE Look
  <2>1. is_done' = is_done \/ is_done' = [is_done EXCEPT ![cur] = TRUE]
    BY <1>3 DEF Look, LookDone, LookSpace, LookTime, StopIf, LookInteractive
  <2> QED
    BY <1>1, <1>3, <2>1 DEF Look
<1>4. CASE Quota
  <2>1. is_done' = is_done \/ is_done' = [is_done EXCEPT ![cur] = TRUE]
    BY <1>4 DEF Quota, StopIf
  <2> QED
    BY <1>1, <1>4, <2>1 DEF Quota, StopIf
<1>5. CASE \/ Wait \/ ComputeTotalOps("sum_quota", "quota") \/ ChooseStats
           \/ ComputeTotalOps("sum_sample", "sample") \/ Sample
           \/ Collect \/ CollectEnds \/ Reap \/ Join
           \/ ComputeTotalOps("sum_total", "report")
  BY <1>5 DEF Wait, ComputeTotalOps, ChooseStats, Sample, Collect, CollectEnds,
              Reap, Join, engineVars
<1>6. CASE \/ CollectCrashes \/ Clear \/ JoinFails \/ CloseLocal \/ Report
  BY <1>6 DEF CollectCrashes, Clear, JoinFails, CloseLocal, Report, mainVars
<1> QED
  BY <1>2, <1>3, <1>4, <1>5, <1>6 DEF Main

LEMMA PhaseMain ==
  ASSUME PhaseInv, Main, ~ Spawn
  PROVE  PhaseInv'
<1>1. TypeOK'
  BY TypeMain DEF PhaseInv
<1>2. /\ UNCHANGED <<pc, fd>>
      /\ \A w \in Workloads : is_done[w] => is_done'[w]
  BY MainFrame DEF PhaseInv
<1>3. cur \in Workloads
  BY DEF PhaseInv, TypeOK
<1>4. ASSUME mpc # "spawn", mpc' # "spawn"
      PROVE  BornInv'
  BY <1>2, <1>4 DEF PhaseInv, BornInv, Spawned
<1>5. ASSUME mpc \notin Closing, UNCHANGED open
      PROVE  DescriptorInv'
  BY <1>2, <1>5 DEF PhaseInv, DescriptorInv
<1>6. CASE SysCallFails \/ CollectCrashes \/ JoinFails
  <2>1. UNCHANGED <<mpc, cur, idx, all_done, open>>
    BY <1>6 DEF SysCallFails, CollectCrashes, JoinFails, mainVars
  <2> QED
    BY <1>1, <1>2, <1>3, <2>1
       DEF PhaseInv, BornInv, Spawned, DescriptorInv, FoundInv, JoinInv, PassInv,
           ClosingInv
<1>7. CASE \/ Look \/ Wait \/ Quota
           \/ ComputeTotalOps("sum_quota", "quota")
  <2>1. /\ mpc \in Deciding /\ mpc' \in Deciding \cup {"stats"}
        /\ UNCHANGED <<cur, open>>
        /\ all_done' => all_done
        /\ mpc' = "stats" /\ all_done' => is_done'[cur]
    <3>1. CASE Look
      BY <3>1, <1>3
         DEF PhaseInv, TypeOK, EngineTypeOK, Look, LookDone, LookSpace, LookTime,
             StopIf, LookInteractive, At, Deciding
    <3>2. CASE Wait
      BY <3>2 DEF Wait, At, Deciding, engineVars
    <3>3. CASE Quota
      BY <3>3, <1>3 DEF PhaseInv, TypeOK, EngineTypeOK, Quota, StopIf, At, Deciding
    <3>4. CASE ComputeTotalOps("sum_quota", "quota")
      BY <3>4 DEF ComputeTotalOps, NextThread, At, Deciding
    <3> QED
      BY <1>7, <3>1, <3>2, <3>3, <3>4
  <2>2. BornInv' /\ DescriptorInv'
    BY <2>1, <1>4, <1>5 DEF Deciding, Closing
  <2>3. FoundInv' /\ JoinInv' /\ ClosingInv'
    BY <2>1 DEF FoundInv, JoinInv, ClosingInv, Visiting, Deciding, Closing
  <2>4. PassInv'
    BY <1>2, <2>1 DEF PhaseInv, PassInv
  <2> QED
    BY <1>1, <2>2, <2>3, <2>4 DEF PhaseInv
<1>8. CASE \/ ChooseStats \/ ComputeTotalOps("sum_sample", "sample")
           \/ Sample \/ Collect \/ CollectEnds \/ Clear
  <2>1. /\ mpc \in Visiting \ {"join"} /\ mpc' \in Visiting \ {"join"}
        /\ UNCHANGED <<cur, open, all_done, is_done>>
    BY <1>8 DEF ChooseStats, ComputeTotalOps, NextThread, Sample, Collect,
                CollectEnds, Clear, At, Visiting, engineVars
  <2>2. BornInv' /\ DescriptorInv'
    BY <2>1, <1>4, <1>5 DEF Visiting, Closing
  <2>3. FoundInv' /\ JoinInv' /\ ClosingInv'
    BY <2>1 DEF PhaseInv, FoundInv, JoinInv, ClosingInv, Visiting, Closing
  <2>4. PassInv'
    BY <1>2, <2>1 DEF PhaseInv, PassInv
  <2> QED
    BY <1>1, <2>2, <2>3, <2>4 DEF PhaseInv
<1>9. CASE Reap
  <2>1. mpc = "reap" /\ UNCHANGED <<open, is_done>>
    BY <1>9 DEF Reap, At, engineVars
  <2>2. CASE is_done[cur]
    <3>1. mpc' = "join" /\ idx' = 1 /\ UNCHANGED <<cur, all_done>>
      BY <1>9, <2>2 DEF Reap
    <3>2. BornInv' /\ DescriptorInv'
      BY <2>1, <3>1, <1>4, <1>5 DEF Closing
    <3>3. JoinInv'
      <4>1. \A e \in EnginesOf(cur) : ~ (e[2] < 1)
        BY <1>3, ConfigFacts, EngineFacts DEF Threads
      <4> QED
        BY <3>1, <4>1 DEF JoinInv
    <3>4. FoundInv' /\ PassInv' /\ ClosingInv'
      BY <1>2, <2>1, <2>2, <3>1
         DEF PhaseInv, FoundInv, PassInv, ClosingInv, Visiting, Closing
    <3> QED
      BY <1>1, <3>2, <3>3, <3>4 DEF PhaseInv
  <2>3. CASE ~ is_done[cur]
    <3>1. NextWorkload /\ ~ all_done
      BY <1>9, <2>1, <2>3 DEF Reap, PhaseInv, FoundInv, Visiting
    <3>2. BornInv' /\ DescriptorInv'
      BY <2>1, <3>1, <1>4, <1>5 DEF NextWorkload, PassEnds, Slept, NoCount,
                                    Closing
    <3> QED
      BY <1>1, <1>2, <2>1, <3>1, <3>2, NextWorkloadInv DEF PhaseInv, Visiting
  <2> QED
    BY <2>2, <2>3
<1>10. CASE Join
  <2>1. /\ mpc = "join" /\ UNCHANGED <<open, is_done>>
        /\ pc[self] = "exited"
    BY <1>10 DEF Join, At, engineVars
  <2>2. /\ idx \in Nat /\ Config[cur].threads \in Nat
        /\ \A e \in EnginesOf(cur) : /\ e[2] \in Nat
                                      /\ e[2] <= Config[cur].threads
    BY <2>1, <1>3, ConfigFacts, EngineFacts DEF PhaseInv, TypeOK, Threads
  <2>3. \A e \in EnginesOf(cur) : e[2] < idx + 1 => pc[e] = "exited"
    <3> SUFFICES ASSUME NEW e \in EnginesOf(cur), e[2] < idx + 1
                 PROVE  pc[e] = "exited"
      OBVIOUS
    <3>1. e[2] \in Nat /\ idx \in Nat
      BY <2>2
    <3>2. e[2] < idx \/ e[2] = idx
      BY <3>1
    <3>3. e[2] < idx => pc[e] = "exited"
      BY <2>1 DEF PhaseInv, JoinInv
    <3>4. e[2] = idx => e = self
      BY <1>3, EngineFacts DEF self
    <3> QED
      BY <2>1, <3>2, <3>3, <3>4
  <2>4. CASE idx < Config[cur].threads
    <3>1. idx' = idx + 1 /\ UNCHANGED <<mpc, cur, all_done>>
      BY <1>10, <2>4 DEF Join
    <3>2. BornInv' /\ DescriptorInv'
      BY <2>1, <3>1, <1>4, <1>5 DEF Closing
    <3>3. JoinInv'
      BY <1>2, <2>3, <3>1 DEF JoinInv
    <3>4. FoundInv' /\ PassInv' /\ ClosingInv'
      BY <1>2, <2>1, <3>1
         DEF PhaseInv, FoundInv, PassInv, ClosingInv, Visiting, Closing
    <3> QED
      BY <1>1, <3>2, <3>3, <3>4 DEF PhaseInv
  <2>5. CASE ~ (idx < Config[cur].threads)
    <3>1. NextWorkload
      BY <1>10, <2>5 DEF Join
    <3>2. BornInv' /\ DescriptorInv'
      BY <2>1, <3>1, <1>4, <1>5 DEF NextWorkload, PassEnds, Slept, NoCount,
                                    Closing
    <3>3. \A e \in EnginesOf(cur) : pc[e] = "exited"
      <4> SUFFICES ASSUME NEW e \in EnginesOf(cur)
                   PROVE  pc[e] = "exited"
        OBVIOUS
      <4>1. e[2] < idx + 1
        <5>1. /\ e[2] \in Nat /\ idx \in Nat /\ Config[cur].threads \in Nat
              /\ e[2] <= Config[cur].threads
          BY <2>2
        <5> QED
          BY <5>1, <2>5
      <4> QED
        BY <2>3, <4>1
    <3> QED
      BY <1>1, <1>2, <2>1, <3>1, <3>2, <3>3, NextWorkloadInv
         DEF PhaseInv, Visiting
  <2> QED
    BY <2>4, <2>5
<1>11. CASE \/ CloseLocal \/ ComputeTotalOps("sum_total", "report") \/ Report
  <2>1. mpc \in Closing /\ mpc' \in Closing
    BY <1>11 DEF CloseLocal, ComputeTotalOps, NextThread, Report, At, Closing
  <2>2. BornInv' /\ ClosingInv'
    BY <1>2, <1>4, <2>1 DEF PhaseInv, ClosingInv, Closing
  <2>3. DescriptorInv' /\ FoundInv' /\ JoinInv' /\ PassInv'
    BY <2>1 DEF DescriptorInv, FoundInv, JoinInv, PassInv, Closing, Visiting,
                Deciding
  <2> QED
    BY <1>1, <2>2, <2>3 DEF PhaseInv
<1> QED
  BY <1>6, <1>7, <1>8, <1>9, <1>10, <1>11 DEF Main

LEMMA PhaseNext == PhaseInv /\ [Next]_vars => PhaseInv'
<1> SUFFICES ASSUME PhaseInv, [Next]_vars PROVE PhaseInv'
  OBVIOUS
<1>1. CASE UNCHANGED vars
  <2>1. TypeOK'
    BY <1>1, TypeNext DEF PhaseInv
  <2>2. UNCHANGED <<mpc, cur, idx, all_done, open, pc, fd, is_done>>
    BY <1>1 DEF vars, engineVars, mainVars
  <2> QED
    BY <2>1, <2>2
       DEF PhaseInv, BornInv, Spawned, DescriptorInv, FoundInv, JoinInv, PassInv,
           ClosingInv
<1> QED
  BY <1>1, PhaseSpawn, PhaseMain, PhaseWorker DEF Next, Ended

\* What all_done and the loop variables say of the threads holds of every run.
THEOREM Phases == Spec => []PhaseInv
  BY PhaseInit, PhaseNext, PTL DEF Spec

\* No thread does I/O on a descriptor that main has closed: not with any
\* number of workloads that end at different times, nor when a thread ends
\* its workload while main is looking at it.
THEOREM DescriptorsOpen == Spec => []FdOpenInUse
<1>1. PhaseInv => FdOpenInUse
  BY DEF PhaseInv, DescriptorInv, ClosingInv, FdOpenInUse
<1> QED
  BY <1>1, Phases, PTL

-----------------------------------------------------------------------------
(* A stopped workload starts no further operation *)

LEMMA StopStep ==
  ASSUME PhaseInv, [Next]_vars, NEW e \in Engines, is_done[e[1]], pc[e] # "claim"
  PROVE  is_done'[e[1]] /\ pc'[e] # "claim" /\ ops'[e] = ops[e]
<1>1. /\ pc \in [Engines -> ThreadLabels] /\ ops \in [Engines -> Nat]
      /\ e[1] \in Workloads
  BY EngineFacts DEF PhaseInv, TypeOK, EngineTypeOK
<1>2. CASE UNCHANGED vars
  BY <1>2 DEF vars, engineVars
<1>3. CASE Spawn
  BY <1>1, <1>3 DEF Spawn
<1>4. CASE Main /\ ~ Spawn
  <2>1. UNCHANGED pc /\ is_done'[e[1]]
    BY <1>1, <1>4, MainFrame DEF PhaseInv
  <2>2. UNCHANGED ops
    BY <1>4 DEF Main, SysCallFails, Look, Wait, ComputeTotalOps, Quota,
                ChooseStats, Sample, Collect, CollectCrashes, CollectEnds,
                Clear, Reap, Join, JoinFails, CloseLocal, Report, engineVars
  <2> QED
    BY <2>1, <2>2
<1>5. ASSUME NEW f \in Engines, Worker(f)
      PROVE  is_done'[e[1]] /\ pc'[e] # "claim" /\ ops'[e] = ops[e]
  <2>1. is_done'[e[1]]
    BY <1>1, <1>5, WorkerFrame DEF PhaseInv
  <2>2. CASE f # e
    <3>1. pc'[e] = pc[e]
      <4>1. PICK l \in ThreadLabels : pc' = [pc EXCEPT ![f] = l]
        BY <1>5, WorkerFrame DEF PhaseInv
      <4> QED
        BY <1>1, <2>2, <4>1
    <3>2. ops'[e] = ops[e]
      BY <1>1, <1>5, <2>2
         DEF Worker, RunBenchmark, TestDone, ClaimOp, OpRefused, OpPerformed,
             OpFails, EnterPush, LeavePush, SetDone
    <3> QED
      BY <2>1, <3>1, <3>2
  <2>3. CASE f = e
    <3>1. ~ ClaimOp(e)
      BY DEF ClaimOp, Goto
    <3>2. /\ ops' = ops
          /\ pc' = pc \/ \E l \in ThreadLabels \ {"claim"} : pc' = [pc EXCEPT ![e] = l]
      BY <1>5, <2>3, <3>1
         DEF Worker, RunBenchmark, TestDone, OpRefused, OpPerformed, OpFails,
             EnterPush, LeavePush, AfterPush, SetDone, Goto, ThreadLabels
    <3> QED
      BY <1>1, <2>1, <3>2
  <2> QED
    BY <2>2, <2>3
<1> QED
  BY <1>2, <1>3, <1>4, <1>5 DEF Next, Ended

\* Once a workload is told to stop, by main or by a thread, it stays stopped
\* and each thread completes at most the operation it has begun.
THEOREM Stops == Spec => StopsPromptly
<1>1. PhaseInv /\ [Next]_vars =>
        [\A e \in Engines : is_done[e[1]] /\ pc[e] # "claim" =>
           is_done'[e[1]] /\ pc'[e] # "claim" /\ ops'[e] = ops[e]]_vars
  BY StopStep
<1> QED
  BY <1>1, Phases, PTL DEF Spec, StopsPromptly

-----------------------------------------------------------------------------
(* A single random workload joins each thread once *)

\* The threads of such a workload never refuse an operation.
LEMMA LoneWorker ==
  ASSUME LoneRandom, PhaseInv, LoneInv, NEW e \in Engines, Worker(e)
  PROVE  LoneInv'
<1>1. /\ res \in [Engines -> {0, 1}] /\ pc \in [Engines -> ThreadLabels]
      /\ res[e] = 1 /\ pc[e] # "quit" /\ Cfg(e) = Config[1]
      /\ UNCHANGED mainVars
  <2>1. e[1] = 1
    BY EngineFacts, ConfigFacts DEF LoneRandom
  <2> QED
    BY <2>1 DEF PhaseInv, TypeOK, EngineTypeOK, LoneInv, Worker, Cfg
<1>2. ~ OpRefused(e) /\ ~ SetDone(e)
  BY <1>1 DEF LoneRandom, OpRefused, SetDone, Goto, IsDone, DoneIf
<1>3. /\ is_done' = is_done
      /\ res' = res \/ res' = [res EXCEPT ![e] = 1]
      /\ pc' = pc \/ \E l \in ThreadLabels \ {"quit"} : pc' = [pc EXCEPT ![e] = l]
  BY <1>1, <1>2
     DEF Worker, RunBenchmark, TestDone, ClaimOp, OpPerformed, OpFails,
         EnterPush, LeavePush, AfterPush, Goto, ThreadLabels
<1>4. \A f \in Engines : res'[f] = 1 /\ pc'[f] # "quit"
  BY <1>1, <1>3 DEF LoneInv
<1> QED
  BY <1>1, <1>3, <1>4 DEF LoneInv, mainVars

LEMMA LoneMain ==
  ASSUME LoneRandom, PhaseInv, LoneInv, Main
  PROVE  LoneInv'
<1>1. /\ cur = 1 /\ NW = 1 /\ 1 \in Workloads
      /\ is_done \in [Workloads -> BOOLEAN]
      /\ joins \in [Engines -> 0 .. 2] /\ pc \in [Engines -> ThreadLabels]
      /\ all_done \in BOOLEAN
      /\ Config[1].threads \in Nat
  BY ConfigFacts DEF LoneRandom, PhaseInv, TypeOK, EngineTypeOK
<1>2. \A e \in Engines : /\ e[2] \in Nat
                         /\ 1 <= e[2] /\ e[2] <= Config[1].threads
  BY <1>1, EngineFacts, ConfigFacts DEF Threads
<1>3. \A e \in Engines : res'[e] = 1 /\ pc'[e] # "quit"
  <2>1. res' = res
    BY DEF Main, Spawn, SysCallFails, Look, Wait, ComputeTotalOps, Quota,
           ChooseStats, Sample, Collect, CollectCrashes, CollectEnds, Clear,
           Reap, Join, JoinFails, CloseLocal, Report, engineVars
  <2>2. CASE Spawn
    BY <1>1, <2>1, <2>2 DEF LoneInv, Spawn
  <2>3. CASE ~ Spawn
    BY <2>1, <2>3, MainFrame DEF PhaseInv, LoneInv
  <2> QED
    BY <2>2, <2>3
<1>4. CASE Spawn
  BY <1>1, <1>3, <1>4
     DEF LoneInv, Spawn, At, Deciding, Visiting, Closing
<1>5. CASE SysCallFails \/ CollectCrashes
  <2>1. UNCHANGED <<mpc, idx, is_done, all_done, joins>>
    BY <1>5 DEF SysCallFails, CollectCrashes, mainVars
  <2> QED
    BY <1>3, <2>1 DEF LoneInv
<1>6. CASE Look
  <2>1. mpc = "look" /\ UNCHANGED <<joins, idx>>
    BY <1>6 DEF Look, At
  <2>2. all_done /\ ~ is_done[1]
    BY <2>1 DEF LoneInv, Deciding
  <2>3. \/ mpc' = "sum_quota" /\ all_done' /\ ~ is_done'[1]
        \/ mpc' = "stats" /\ (is_done'[1] <=> all_done')
    BY <1>1, <1>6, <2>2
       DEF Look, LookDone, LookSpace, LookTime, StopIf, LookInteractive,
           LoneRandom
  <2> QED
    BY <1>3, <2>1, <2>3 DEF LoneInv, Deciding, Visiting, Closing
<1>7. CASE Wait
  BY <1>1, <1>7 DEF LoneInv, Wait, At, Deciding
<1>8. CASE Quota
  <2>1. mpc = "quota" /\ mpc' = "stats" /\ UNCHANGED <<joins, idx>>
    BY <1>8 DEF Quota, StopIf, At
  <2>2. all_done /\ ~ is_done[1]
    BY <2>1 DEF LoneInv, Deciding
  <2>3. is_done'[1] <=> all_done'
    BY <1>1, <1>8, <2>2 DEF Quota, StopIf
  <2> QED
    BY <1>3, <2>1, <2>3 DEF LoneInv, Deciding, Visiting, Closing
<1>9. CASE ComputeTotalOps("sum_quota", "quota")
  BY <1>3, <1>9
     DEF LoneInv, ComputeTotalOps, NextThread, At, Deciding, Visiting,
         Closing, engineVars
<1>10. CASE \/ ChooseStats \/ ComputeTotalOps("sum_sample", "sample")
            \/ Sample \/ Collect \/ CollectEnds \/ Clear
  <2>1. /\ mpc \in Visiting \ {"join"} /\ mpc' \in Visiting \ {"join"}
        /\ UNCHANGED <<is_done, all_done, joins>>
    BY <1>10 DEF ChooseStats, ComputeTotalOps, NextThread, Sample, Collect,
                 CollectEnds, Clear, At, Visiting, engineVars
  <2> QED
    BY <1>3, <2>1 DEF LoneInv, Visiting, Deciding, Closing
<1>11. ASSUME NextWorkload, mpc \in Visiting, UNCHANGED is_done,
              \A e \in Engines : joins'[e] = IF all_done THEN 1 ELSE 0
       PROVE  LoneInv'
  <2>1. /\ all_done' = TRUE
        /\ mpc' = IF all_done THEN "close" ELSE "look"
    BY <1>1, <1>11 DEF NextWorkload, PassEnds, Slept, NoCount
  <2>2. is_done'[1] <=> all_done
    BY <1>11 DEF LoneInv
  <2> QED
    BY <1>3, <1>11, <2>1, <2>2 DEF LoneInv, Visiting, Deciding, Closing
<1>12. CASE Reap
  <2>1. /\ mpc = "reap" /\ UNCHANGED <<is_done, joins>>
        /\ \A e \in Engines : joins[e] = 0
    BY <1>12 DEF LoneInv, Reap, At, Closing, engineVars
  <2>2. CASE is_done[1]
    <3>1. mpc' = "join" /\ idx' = 1 /\ UNCHANGED all_done
      BY <1>1, <1>12, <2>2 DEF Reap
    <3>2. \A e \in Engines : ~ (e[2] < 1)
      BY <1>2
    <3> QED
      BY <1>3, <2>1, <2>2, <3>1, <3>2
         DEF LoneInv, Visiting, Deciding, Closing
  <2>3. CASE ~ is_done[1]
    <3>1. NextWorkload /\ ~ all_done
      BY <1>1, <1>12, <2>1, <2>3 DEF Reap, LoneInv, Visiting
    <3> QED
      BY <1>11, <2>1, <3>1 DEF Visiting
  <2> QED
    BY <2>2, <2>3
<1>13. CASE Join
  <2>1. /\ mpc = "join" /\ idx \in Nat /\ self \in Engines
        /\ UNCHANGED is_done /\ all_done /\ is_done[1]
    BY <1>1, <1>13, EngineFacts
       DEF PhaseInv, TypeOK, LoneInv, Join, At, self, Visiting, engineVars
  <2>2. \A e \in Engines : e = self <=> e[2] = idx
    BY <1>1, EngineFacts, ConfigFacts DEF self
  <2>3. \A e \in Engines : joins[e] = IF e[2] < idx THEN 1 ELSE 0
    BY <2>1 DEF LoneInv, Closing
  <2>4. joins' = [joins EXCEPT ![self] = 1]
    <3>1. joins[self] = 0
      BY <2>1, <2>2, <2>3
    <3> QED
      BY <3>1, <1>13, <2>1, <1>1 DEF Join
  <2>5. \A e \in Engines : joins'[e] = IF e[2] < idx + 1 THEN 1 ELSE 0
    <3> SUFFICES ASSUME NEW e \in Engines
                 PROVE  joins'[e] = IF e[2] < idx + 1 THEN 1 ELSE 0
      OBVIOUS
    <3>1. e[2] \in Nat /\ idx \in Nat
      BY <1>2, <2>1
    <3>2. CASE e = self
      BY <1>1, <2>1, <2>2, <2>4, <3>1, <3>2
    <3>3. CASE e # self
      <4>1. e[2] # idx /\ joins'[e] = joins[e]
        BY <1>1, <2>2, <2>4, <3>3
      <4>2. e[2] < idx <=> e[2] < idx + 1
        BY <3>1, <4>1
      <4> QED
        BY <2>3, <4>1, <4>2
    <3> QED
      BY <3>2, <3>3
  <2>6. CASE idx < Config[1].threads
    <3>1. mpc' = "join" /\ idx' = idx + 1 /\ UNCHANGED all_done
      BY <1>1, <1>13, <2>1, <2>6 DEF Join
    <3> QED
      BY <1>3, <2>1, <2>5, <3>1 DEF LoneInv, Visiting, Deciding, Closing
  <2>7. CASE ~ (idx < Config[1].threads)
    <3>1. NextWorkload
      BY <1>1, <1>13, <2>7 DEF Join
    <3>2. \A e \in Engines : joins'[e] = 1
      <4> SUFFICES ASSUME NEW e \in Engines PROVE joins'[e] = 1
        OBVIOUS
      <4>1. e[2] \in Nat /\ idx \in Nat /\ e[2] <= Config[1].threads
        BY <1>2, <2>1
      <4>2. e[2] < idx + 1
        BY <1>1, <2>7, <4>1
      <4> QED
        BY <2>5, <4>2
    <3> QED
      BY <1>11, <2>1, <3>1, <3>2 DEF Visiting
  <2> QED
    BY <2>6, <2>7
<1>14. CASE JoinFails
  <2>1. /\ mpc = "join" /\ self \in Engines /\ joins[self] > 0 /\ idx \in Nat
    BY <1>1, <1>14, EngineFacts DEF PhaseInv, TypeOK, JoinFails, At, self
  <2>2. joins[self] = 0
    BY <2>1 DEF LoneInv, Closing, self
  <2> QED
    BY <2>1, <2>2
<1>15. CASE CloseLocal \/ ComputeTotalOps("sum_total", "report") \/ Report
  <2>1. /\ mpc \in Closing /\ mpc' \in Closing /\ UNCHANGED joins
    BY <1>15 DEF CloseLocal, ComputeTotalOps, NextThread, Report, At, Closing
  <2> QED
    BY <1>3, <2>1 DEF LoneInv, Visiting, Deciding, Closing
<1> QED
  BY <1>4, <1>5, <1>6, <1>7, <1>8, <1>9, <1>10, <1>12, <1>13, <1>14, <1>15
     DEF Main

LEMMA LoneInit == LoneRandom /\ Init => LoneInv
<1> SUFFICES ASSUME LoneRandom, Init PROVE LoneInv
  OBVIOUS
<1>1. 1 \in Workloads
  BY ConfigFacts
<1> QED
  BY <1>1 DEF Init, EngineInit, LoneInv, Deciding, Visiting, Closing

LEMMA LoneNext ==
  ASSUME LoneRandom, PhaseInv, LoneInv, [Next]_vars
  PROVE  LoneInv'
<1>1. CASE UNCHANGED vars
  BY <1>1 DEF LoneInv, vars, mainVars, engineVars
<1> QED
  BY <1>1, LoneMain, LoneWorker DEF Next, Ended

\* A single workload of random offsets that is bound by its volume or by time
\* joins each of its threads once.  It is the threads that set is_done
\* themselves, and a second workload, that break this.
THEOREM JoinedOnce == LoneRandom => (Spec => []JoinOnce)
<1> SUFFICES ASSUME LoneRandom PROVE Spec => []JoinOnce
  OBVIOUS
<1>1. Init => LoneInv
  BY LoneInit
<1>2. PhaseInv /\ LoneInv /\ [Next]_vars => LoneInv'
  BY LoneNext
<1>3. LoneInv => JoinOnce
  BY DEF LoneInv, JoinOnce
<1> QED
  BY <1>1, <1>2, <1>3, Phases, PTL DEF Spec

-----------------------------------------------------------------------------
(* Interactive workloads are joined once *)

\* is_done is never taken back.
LEMMA OnePassWorker ==
  ASSUME OnlyInteractive, PhaseInv, OnePassInv, NEW e \in Engines, Worker(e)
  PROVE  OnePassInv'
<1>1. UNCHANGED mainVars /\ is_done \in [Workloads -> BOOLEAN]
  BY DEF Worker, PhaseInv, TypeOK, EngineTypeOK
<1>2. \A w \in Workloads : is_done[w] => is_done'[w]
  BY <1>1, EngineFacts
     DEF Worker, RunBenchmark, TestDone, ClaimOp, OpRefused, OpPerformed, OpFails,
         EnterPush, LeavePush, SetDone, Goto
<1>3. cur \in Workloads
  BY DEF PhaseInv, TypeOK
<1> QED
  BY <1>1, <1>2, <1>3 DEF OnePassInv, PassedBy, mainVars

\* Main passes each workload by with its threads joined, and all_done set.
LEMMA OnePassMain ==
  ASSUME OnlyInteractive, PhaseInv, OnePassInv, Main
  PROVE  OnePassInv'
<1>1. /\ cur \in Workloads /\ NW \in Nat \ {0} /\ Workloads = 1 .. NW /\ cur \in Nat
      /\ is_done \in [Workloads -> BOOLEAN]
      /\ joins \in [Engines -> 0 .. 2]
      /\ Config[cur].threads \in Nat
      /\ Config[cur].duration_unit = "interactive"
  BY ConfigFacts DEF OnlyInteractive, PhaseInv, TypeOK, EngineTypeOK
<1>2. \A e \in Engines : /\ e[1] \in Nat /\ e[1] <= NW /\ e[2] \in Nat
                         /\ 1 <= e[1] /\ 1 <= e[2]
                         /\ e[1] = cur => e[2] <= Config[cur].threads
  BY <1>1, EngineFacts, ConfigFacts DEF Threads
<1> USE DEF Deciding, Visiting, Closing
<1>3. CASE Spawn
  <2>1. /\ mpc = "spawn" /\ UNCHANGED <<is_done, all_done, joins>>
        /\ \/ mpc' = "spawn"
           \/ mpc' = "look" /\ cur' = 1
    BY <1>3 DEF Spawn, At
  <2>2. \A e \in Engines : ~ PassedBy(e) /\ ~ PassedBy(e)'
    BY <1>2, <2>1 DEF PassedBy
  <2> QED
    BY <2>1, <2>2 DEF OnePassInv
<1>4. CASE SysCallFails \/ CollectCrashes
  BY <1>4 DEF SysCallFails, CollectCrashes, mainVars, OnePassInv, PassedBy
<1>5. CASE Look \/ Wait
  <2>1. /\ mpc \in {"look", "wait"} /\ UNCHANGED <<is_done, all_done, joins, cur>>
        /\ \/ mpc' = "wait"
           \/ mpc' = "stats" /\ is_done[cur]
    BY <1>1, <1>5 DEF Look, LookDone, LookSpace, LookTime, LookInteractive, Wait,
                      At, engineVars
  <2>2. \A e \in Engines : PassedBy(e)' <=> PassedBy(e)
    BY <2>1 DEF PassedBy
  <2> QED
    BY <2>1, <2>2 DEF OnePassInv
<1>6. CASE ComputeTotalOps("sum_quota", "quota") \/ Quota
  BY <1>6 DEF ComputeTotalOps, Quota, At, OnePassInv
<1>7. CASE \/ ChooseStats \/ ComputeTotalOps("sum_sample", "sample")
           \/ Sample \/ Collect \/ CollectEnds \/ Clear
  <2>1. /\ mpc \in Visiting \ {"join"} /\ mpc' \in Visiting \ {"join"}
        /\ UNCHANGED <<is_done, all_done, joins, cur>>
    BY <1>7 DEF ChooseStats, ComputeTotalOps, NextThread, Sample, Collect,
                CollectEnds, Clear, At, engineVars
  <2>2. \A e \in Engines : PassedBy(e)' <=> PassedBy(e)
    BY <2>1 DEF PassedBy
  <2> QED
    BY <2>1, <2>2 DEF OnePassInv
<1>8. CASE Reap
  <2>1. /\ mpc = "reap" /\ mpc' = "join" /\ idx' = 1
        /\ UNCHANGED <<is_done, all_done, joins, cur>>
    BY <1>8 DEF OnePassInv, Reap, At, engineVars
  <2>2. \A e \in Engines : PassedBy(e)' <=> PassedBy(e)
    BY <1>2, <2>1 DEF PassedBy
  <2> QED
    BY <2>1, <2>2 DEF OnePassInv
<1>9. CASE Join
  <2>1. /\ mpc = "join" /\ idx \in Nat /\ self \in Engines
        /\ UNCHANGED is_done /\ all_done /\ is_done[cur]
    BY <1>1, <1>9, EngineFacts
       DEF PhaseInv, TypeOK, OnePassInv, Join, At, self, engineVars
  <2>2. self[1] = cur /\ self[2] = idx
    BY DEF self
  <2>3. joins' = [joins EXCEPT ![self] = 1]
    <3>1. ~ PassedBy(self)
      BY <1>1, <2>1, <2>2 DEF PassedBy
    <3>2. joins[self] = 0
      BY <2>1, <3>1 DEF OnePassInv
    <3> QED
      BY <1>1, <1>9, <2>1, <3>2 DEF Join
  <2>4. \A e \in Engines : joins'[e] = IF PassedBy(e) \/ e = self THEN 1 ELSE 0
    BY <1>1, <2>1, <2>3 DEF OnePassInv
  <2>5. \A e \in Engines : e = self <=> e[1] = cur /\ e[2] = idx
    BY <2>2, EngineFacts DEF self
  <2>6. CASE idx < Config[cur].threads
    <3>1. mpc' = "join" /\ idx' = idx + 1 /\ UNCHANGED <<all_done, cur>>
      BY <1>9, <2>1, <2>6 DEF Join
    <3>2. ASSUME NEW e \in Engines
          PROVE  PassedBy(e)' <=> PassedBy(e) \/ e = self
      BY <1>1, <1>2, <2>1, <2>5, <3>1 DEF PassedBy
    <3> QED
      BY <2>1, <2>4, <3>1, <3>2 DEF OnePassInv
  <2>7. CASE ~ (idx < Config[cur].threads)
    <3>1. /\ all_done'
          /\ \/ cur < NW /\ cur' = cur + 1 /\ mpc' = "look"
             \/ ~ (cur < NW) /\ mpc' = "close"
      BY <1>9, <2>1, <2>7 DEF Join, NextWorkload, PassEnds
    <3>2. ASSUME NEW e \in Engines
          PROVE  PassedBy(e)' <=> PassedBy(e) \/ e = self
      <4>1. e[1] = cur => e[2] < idx \/ e[2] = idx
        BY <1>1, <1>2, <2>1, <2>7
      <4>2. PassedBy(e) \/ e = self <=> e[1] < cur \/ e[1] = cur
        BY <2>1, <2>5, <4>1 DEF PassedBy
      <4>3. CASE cur < NW
        <5>1. PassedBy(e)' <=> e[1] < cur + 1
          BY <3>1, <4>3 DEF PassedBy
        <5> QED
          BY <1>1, <1>2, <4>2, <5>1
      <4>4. CASE ~ (cur < NW)
        BY <1>1, <1>2, <3>1, <4>2, <4>4 DEF PassedBy
      <4> QED
        BY <4>3, <4>4
    <3> QED
      BY <2>1, <2>4, <3>1, <3>2 DEF OnePassInv
  <2> QED
    BY <2>6, <2>7
<1>10. CASE JoinFails
  <2>1. /\ mpc = "join" /\ self \in Engines /\ joins[self] > 0 /\ idx \in Nat
    BY <1>10, EngineFacts DEF PhaseInv, TypeOK, JoinFails, At, self
  <2>2. ~ PassedBy(self)
    BY <1>1, <2>1 DEF PassedBy, self
  <2>3. joins[self] = 0
    BY <2>1, <2>2 DEF OnePassInv
  <2> QED
    BY <2>1, <2>3
<1>11. CASE CloseLocal \/ ComputeTotalOps("sum_total", "report") \/ Report
  <2>1. /\ mpc \in Closing /\ mpc' \in Closing /\ UNCHANGED <<joins, all_done>>
    BY <1>11 DEF CloseLocal, ComputeTotalOps, NextThread, Report, At
  <2>2. \A e \in Engines : PassedBy(e) /\ PassedBy(e)'
    BY <2>1 DEF PassedBy
  <2> QED
    BY <2>1, <2>2 DEF OnePassInv
<1> QED
  BY <1>3, <1>4, <1>5, <1>6, <1>7, <1>8, <1>9, <1>10, <1>11 DEF Main

\* The thread of an interactive workload ends by itself, and main still joins
\* it once, since it waits for that: it is passing by a workload that ends
\* later that makes another pass, and another join.
THEOREM InteractiveJoinedOnce == OnlyInteractive => (Spec => []JoinOnce)
<1> SUFFICES ASSUME OnlyInteractive PROVE Spec => []JoinOnce
  OBVIOUS
<1>1. Init => OnePassInv
  BY DEF Init, OnePassInv, PassedBy, Closing, Deciding, Visiting
<1>2. PhaseInv /\ OnePassInv /\ [Next]_vars => OnePassInv'
  <2> SUFFICES ASSUME PhaseInv, OnePassInv, [Next]_vars PROVE OnePassInv'
    OBVIOUS
  <2>1. CASE UNCHANGED vars
    BY <2>1 DEF OnePassInv, PassedBy, vars, mainVars, engineVars
  <2> QED
    BY <2>1, OnePassMain, OnePassWorker DEF Next, Ended
<1>3. OnePassInv => JoinOnce
  BY DEF OnePassInv, JoinOnce
<1> QED
  BY <1>1, <1>2, <1>3, Phases, PTL DEF Spec
-----------------------------------------------------------------------------
(* What a step does to the counters *)

\* Main writes none of the counters; the threads it creates have not begun.
LEMMA MainCounts ==
  ASSUME PhaseInv, Main
  PROVE  /\ UNCHANGED <<ops, performed, res, latency_mutex, stat_count, seen>>
         /\ \A e \in Engines : pc'[e] = pc[e] \/ (pc[e] = "unborn" /\ pc'[e] = "test")
<1>1. UNCHANGED <<ops, performed, res, latency_mutex, stat_count, seen>>
  BY DEF Main, Spawn, SysCallFails, Look, Wait, ComputeTotalOps, Quota,
         ChooseStats, Sample, Collect, CollectCrashes, CollectEnds, Clear,
         Reap, Join, JoinFails, CloseLocal, Report, engineVars
<1>2. CASE Spawn
  <2>1. /\ pc \in [Engines -> ThreadLabels] /\ mpc = "spawn"
        /\ pc' = [pc EXCEPT ![self] = "test"]
    BY <1>2 DEF PhaseInv, TypeOK, EngineTypeOK, Spawn, At
  <2>2. self \in Engines /\ ~ Spawned(self)
    <3>1. cur \in Nat /\ idx \in Nat
      BY ConfigFacts DEF PhaseInv, TypeOK
    <3> QED
      BY <2>1, <3>1, EngineFacts DEF PhaseInv, TypeOK, self, Spawned
  <2>3. pc[self] = "unborn"
    BY <2>2 DEF PhaseInv, BornInv
  <2> QED
    BY <1>1, <2>1, <2>2, <2>3
<1>3. CASE ~ Spawn
  BY <1>1, <1>3, MainFrame DEF PhaseInv
<1> QED
  BY <1>2, <1>3

\* A thread writes its own counter, history and position, and no others'.
LEMMA OwnCounts ==
  ASSUME TypeOK, NEW e \in Engines, Worker(e)
  PROVE  \A f \in Engines \ {e} :
           /\ ops'[f] = ops[f] /\ performed'[f] = performed[f]
           /\ res'[f] = res[f] /\ pc'[f] = pc[f] /\ seen'[f] = seen[f]
<1> USE DEF TypeOK, EngineTypeOK
<1>1. \A f \in Engines \ {e} : pc'[f] = pc[f]
  BY WorkerFrame
<1>2. CASE TestDone(e) \/ OpFails(e)
  BY <1>1, <1>2 DEF TestDone, OpFails
<1>3. CASE ClaimOp(e)
  BY <1>1, <1>3 DEF ClaimOp
<1>4. CASE OpRefused(e)
  BY <1>1, <1>4 DEF OpRefused
<1>5. CASE OpPerformed(e)
  BY <1>1, <1>5 DEF OpPerformed
<1>6. CASE EnterPush(e)
  BY <1>1, <1>6 DEF EnterPush
<1>7. CASE LeavePush(e)
  BY <1>1, <1>7 DEF LeavePush
<1>8. CASE SetDone(e)
  BY <1>1, <1>8 DEF SetDone
<1> QED
  BY <1>2, <1>3, <1>4, <1>5, <1>6, <1>7, <1>8 DEF Worker, RunBenchmark

\* No counter goes back.
LEMMA OpsGrow ==
  ASSUME PhaseInv, [Next]_vars
  PROVE  \A e \in Engines : /\ ops[e] \in Nat /\ ops'[e] \in Nat
                            /\ ops[e] <= ops'[e]
<1>1. ops \in [Engines -> Nat] /\ ops' \in [Engines -> Nat]
  BY TypeNext DEF PhaseInv, TypeOK, EngineTypeOK
<1>2. CASE UNCHANGED vars \/ Main
  <2>1. ops' = ops
    BY <1>2, MainCounts DEF vars, engineVars
  <2> QED
    BY <1>1, <2>1
<1>3. ASSUME NEW f \in Engines, Worker(f)
      PROVE  ops' = ops \/ ops' = [ops EXCEPT ![f] = @ + 1]
  BY <1>3 DEF Worker, RunBenchmark, TestDone, ClaimOp, OpRefused, OpPerformed,
              OpFails, EnterPush, LeavePush, SetDone
<1> QED
  BY <1>1, <1>2, <1>3 DEF Next, Ended

\* A loop over threads goes over finitely many.
LEMMA ThreadsFinite ==
  /\ \A w, i, j \in Int : IsFiniteSet({w} \X (i .. j))
  /\ \A w \in Workloads : IsFiniteSet(EnginesOf(w))
<1>1. ASSUME NEW w \in Int, NEW i \in Int, NEW j \in Int
      PROVE  IsFiniteSet({w} \X (i .. j))
  <2>1. IsFiniteSet({w})
    BY FS_Singleton
  <2>2. IsFiniteSet(i .. j)
    BY FS_Interval
  <2> QED
    BY <2>1, <2>2, FS_Product
<1>2. ASSUME NEW w \in Workloads PROVE IsFiniteSet(EnginesOf(w))
  <2>1. w \in Int /\ Config[w].threads \in Int
    BY ConfigFacts
  <2>2. 1 \in Int
    OBVIOUS
  <2>3. IsFiniteSet({w} \X (1 .. Config[w].threads))
    BY <1>1, <2>1, <2>2, Zenon
  <2> QED
    BY <2>3 DEF EnginesOf, Threads
<1> QED
  BY <1>1, <1>2

\* Nor does the sum of those of a workload, or of some of its threads.
LEMMA TotalGrows ==
  ASSUME PhaseInv, [Next]_vars, NEW w \in Workloads
  PROVE  /\ TotalOps(w) \in Nat /\ TotalOps(w)' \in Nat
         /\ TotalOps(w) <= TotalOps(w)'
         /\ \A S \in SUBSET EnginesOf(w) :
              SumOn(ops, S) \in Nat /\ SumOn(ops', S) \in Nat /\ SumOn(ops, S) <= SumOn(ops', S)
<1>1. EnginesOf(w) \subseteq Engines
  BY EngineFacts
<1>2. ASSUME NEW S \in SUBSET EnginesOf(w)
      PROVE  SumOn(ops, S) \in Nat /\ SumOn(ops', S) \in Nat /\ SumOn(ops, S) <= SumOn(ops', S)
  <2>1. IsFiniteSet(S)
    BY ThreadsFinite, FS_Subset
  <2>2. \A e \in S : /\ ops[e] \in Nat /\ ops'[e] \in Nat
                     /\ ops[e] \in Int /\ ops'[e] \in Int /\ ops[e] <= ops'[e]
    BY <1>1, OpsGrow
  <2>3. SumOn(ops, S) \in Nat
    BY <2>1, <2>2, SumNat
  <2>4. SumOn(ops', S) \in Nat
    BY <2>1, <2>2, SumNat
  <2>5. SumOn(ops, S) <= SumOn(ops', S)
    BY <2>1, <2>2, SumMonotone
  <2> QED
    BY <2>3, <2>4, <2>5
<1>3. TotalOps(w) = SumOn(ops, EnginesOf(w)) /\ TotalOps(w)' = SumOn(ops', EnginesOf(w))
  BY DEF TotalOps
<1> QED
  BY <1>2, <1>3

-----------------------------------------------------------------------------
(* The inductive invariant *)

\* A step of perform_op and its count, of one thread at a time.
LEMMA WorkKept ==
  ASSUME PhaseInv, WorkInv, [Next]_vars
  PROVE  WorkInv'
<1> USE DEF WorkInv, Pending
<1>1. /\ pc \in [Engines -> ThreadLabels] /\ res \in [Engines -> {0, 1}]
      /\ ops \in [Engines -> Nat] /\ performed \in [Engines -> Nat]
  BY DEF PhaseInv, TypeOK, EngineTypeOK
<1>2. CASE UNCHANGED vars
  BY <1>2 DEF vars, engineVars
<1>3. CASE Main
  BY <1>1, <1>3, MainCounts
<1>4. ASSUME NEW e \in Engines, Worker(e)
      PROVE  WorkInv'
  <2>1. ASSUME NEW f \in Engines \ {e}
        PROVE  /\ ops'[f] = ops[f] /\ performed'[f] = performed[f]
               /\ res'[f] = res[f] /\ pc'[f] = pc[f]
    BY <1>4, OwnCounts DEF PhaseInv
  <2>2. /\ performed'[e] + (1 - res'[e]) = ops'[e] - (IF pc'[e] = "op" THEN 1 ELSE 0)
        /\ res'[e] = 0 => pc'[e] \in {"lock", "push", "quit", "exited"}
        /\ pc'[e] = "quit" => res'[e] = 0
    <3>1. CASE TestDone(e) \/ SetDone(e) \/ OpFails(e)
      BY <1>1, <3>1 DEF TestDone, SetDone, OpFails, Goto
    <3>2. CASE ClaimOp(e)
      <4>1. /\ ops'[e] = ops[e] + 1 /\ performed' = performed /\ res' = res
            /\ pc[e] = "claim" /\ pc'[e] = "op"
        BY <1>1, <3>2 DEF ClaimOp, Goto
      <4> QED
        BY <1>1, <4>1
    <3>3. CASE OpRefused(e)
      <4>1. /\ ops' = ops /\ performed' = performed /\ res'[e] = 0
            /\ pc[e] = "op" /\ pc'[e] = "lock"
        BY <1>1, <3>3 DEF OpRefused, Goto
      <4> QED
        BY <1>1, <4>1
    <3>4. CASE OpPerformed(e)
      <4>1. /\ ops' = ops /\ performed'[e] = performed[e] + 1 /\ res'[e] = 1
            /\ pc[e] = "op" /\ pc'[e] = "lock"
        BY <1>1, <3>4 DEF OpPerformed, Goto
      <4> QED
        BY <1>1, <4>1
    <3>5. CASE EnterPush(e) \/ LeavePush(e)
      BY <1>1, <3>5 DEF EnterPush, LeavePush, Goto, AfterPush
    <3> QED
      BY <1>4, <3>1, <3>2, <3>3, <3>4, <3>5 DEF Worker, RunBenchmark
  <2> QED
    BY <2>1, <2>2
<1> QED
  BY <1>2, <1>3, <1>4 DEF Next, Ended

\* The count of a thread that holds the mutex is replaced by one more.
LEMMA LatencyKept ==
  ASSUME PhaseInv, LatencyInv, [Next]_vars
  PROVE  LatencyInv'
<1>1. /\ pc \in [Engines -> ThreadLabels] /\ ops \in [Engines -> Nat]
      /\ stat_count \in [Workloads -> Nat]
      /\ latency_mutex \in [Workloads -> Engines \cup {NoEngine}]
      /\ seen \in [Engines -> [latencies : Seq(Nat \X Nat), count : Nat]]
      /\ pc' \in [Engines -> ThreadLabels] /\ ops' \in [Engines -> Nat]
  BY TypeNext DEF PhaseInv, TypeOK, EngineTypeOK
<1>2. \A e \in Engines : e[1] \in Workloads /\ e # NoEngine
  BY EngineFacts, ConfigFacts DEF NoEngine
<1>3. \A w \in Workloads : EnginesOf(w) \subseteq Engines
  BY EngineFacts
<1>4. \A e \in Engines : Timed(e) \in Int /\ Timed(e)' \in Int
  BY <1>1 DEF Timed
\* A workload whose threads have the latencies they had.
<1>5. ASSUME NEW w \in Workloads, \A e \in EnginesOf(w) : Timed(e)' = Timed(e)
      PROVE  SumOn([e \in EnginesOf(w) |-> Timed(e)], EnginesOf(w))'
               = SumOn([e \in EnginesOf(w) |-> Timed(e)], EnginesOf(w))
  <2>1. [e \in EnginesOf(w) |-> Timed(e)]' = [e \in EnginesOf(w) |-> Timed(e)]
    BY <1>5 DEF EnginesOf, Threads
  <2> QED
    BY <2>1
<1>6. ASSUME UNCHANGED <<stat_count, latency_mutex, seen>>,
             \A e \in Engines : Timed(e)' = Timed(e),
             \A e \in Engines : pc'[e] = "push" <=> pc[e] = "push"
      PROVE  LatencyInv'
  <2>1. \A w \in Workloads :
          stat_count'[w] = SumOn([e \in EnginesOf(w) |-> Timed(e)], EnginesOf(w))'
    BY <1>3, <1>5, <1>6 DEF LatencyInv
  <2> QED
    BY <1>6, <2>1 DEF LatencyInv
<1>7. CASE UNCHANGED vars
  BY <1>6, <1>7 DEF vars, engineVars, Timed
<1>8. CASE Main
  <2>1. \A e \in Engines : Timed(e)' = Timed(e)
    BY <1>8, MainCounts DEF Timed
  <2> QED
    BY <1>6, <1>8, <2>1, MainCounts
<1>9. ASSUME NEW e \in Engines, Worker(e)
      PROVE  LatencyInv'
  <2>1. \A f \in Engines \ {e} : /\ ops'[f] = ops[f] /\ pc'[f] = pc[f]
                                 /\ seen'[f] = seen[f]
    BY <1>9, OwnCounts DEF PhaseInv
  <2>2. \A f \in Engines \ {e} : Timed(f)' = Timed(f)
    BY <2>1 DEF Timed
  <2>3. CASE \/ TestDone(e) \/ ClaimOp(e) \/ OpRefused(e) \/ OpPerformed(e)
             \/ OpFails(e) \/ SetDone(e)
    <3>1. UNCHANGED <<stat_count, latency_mutex, seen>>
      BY <2>3 DEF TestDone, ClaimOp, OpRefused, OpPerformed, OpFails, SetDone
    <3>2. Timed(e)' = Timed(e) /\ (pc'[e] = "push" <=> pc[e] = "push")
      <4>1. CASE ClaimOp(e)
        <5>1. ops'[e] = ops[e] + 1 /\ pc[e] = "claim" /\ pc'[e] = "op"
          BY <1>1, <4>1 DEF ClaimOp, Goto
        <5> QED
          BY <1>1, <5>1 DEF Timed
      <4>2. CASE OpFails(e)
        BY <4>2 DEF OpFails, Timed
      <4>3. CASE TestDone(e) \/ OpRefused(e) \/ OpPerformed(e) \/ SetDone(e)
        BY <1>1, <4>3 DEF TestDone, OpRefused, OpPerformed, SetDone, Goto, Timed
      <4> QED
        BY <2>3, <4>1, <4>2, <4>3
    <3> QED
      BY <1>6, <2>1, <2>2, <3>1, <3>2
  <2>4. CASE EnterPush(e)
    <3>1. /\ pc[e] = "lock" /\ pc'[e] = "push" /\ UNCHANGED <<ops, stat_count>>
          /\ latency_mutex[e[1]] = NoEngine
          /\ latency_mutex' = [latency_mutex EXCEPT ![e[1]] = e]
          /\ seen'[e].count = stat_count[e[1]]
      BY <1>1, <2>4 DEF EnterPush, Goto, MutexFree
    <3>2. Timed(e)' = Timed(e)
      BY <3>1 DEF Timed
    <3>3. \A w \in Workloads :
            stat_count'[w] = SumOn([f \in EnginesOf(w) |-> Timed(f)], EnginesOf(w))'
      BY <1>3, <1>5, <2>2, <3>1, <3>2 DEF LatencyInv
    <3>4. \A f \in Engines : pc'[f] = "push" <=> latency_mutex'[f[1]] = f
      BY <1>1, <1>2, <2>1, <3>1 DEF LatencyInv
    <3> QED
      BY <2>1, <3>1, <3>3, <3>4 DEF LatencyInv
  <2>5. CASE LeavePush(e)
    <3>1. /\ pc[e] = "push" /\ pc'[e] \in {"quit", "test"} /\ ops' = ops
          /\ latency_mutex' = [latency_mutex EXCEPT ![e[1]] = NoEngine]
          /\ stat_count' = [stat_count EXCEPT ![e[1]] = seen[e].count + 1]
      BY <1>1, <2>5 DEF LeavePush, Goto, AfterPush, Unlocked
    <3>2. seen[e].count = stat_count[e[1]] /\ latency_mutex[e[1]] = e
      BY <3>1 DEF LatencyInv
    <3>3. Timed(e)' = Timed(e) + 1
      BY <1>1, <3>1 DEF Timed
    <3>4. ASSUME NEW w \in Workloads
          PROVE  stat_count'[w] = SumOn([f \in EnginesOf(w) |-> Timed(f)], EnginesOf(w))'
      <4>1. CASE w # e[1]
        <5>1. stat_count'[w] = stat_count[w] /\ e \notin EnginesOf(w)
          BY <1>1, <3>1, <4>1 DEF EnginesOf
        <5> QED
          BY <1>3, <1>5, <2>2, <5>1 DEF LatencyInv
      <4>2. CASE w = e[1]
        <5> DEFINE f == [g \in EnginesOf(w) |-> Timed(g)]
                   h == [g \in EnginesOf(w) |-> Timed(g)']
                   S == EnginesOf(w)
        <5>1. e \in S /\ IsFiniteSet(S)
          BY <4>2, EngineFacts, ThreadsFinite
        <5>2. /\ \A x \in S : f[x] \in Int /\ h[x] \in Int
              /\ \A x \in S \ {e} : h[x] = f[x]
              /\ h[e] - f[e] = 1 /\ f[e] \in Int
          BY <1>3, <1>4, <2>2, <3>3, <5>1
        <5>3. stat_count[w] = SumOn(f, S) /\ stat_count'[w] = stat_count[w] + 1
          BY <1>1, <3>1, <3>2, <4>2 DEF LatencyInv
        <5>4. SumOn([g \in EnginesOf(w) |-> Timed(g)], EnginesOf(w))' = SumOn(h, S)
          BY DEF EnginesOf, Threads
        <5> HIDE DEF f, h, S
        <5>5. SumOn(h, S) = SumOn(f, S) + (h[e] - f[e])
          BY <5>1, <5>2, SumChange
        <5> QED
          BY <5>2, <5>3, <5>4, <5>5
      <4> QED
        BY <4>1, <4>2
    <3>5. \A g \in Engines : pc'[g] = "push" <=> latency_mutex'[g[1]] = g
      BY <1>1, <1>2, <2>1, <3>1, <3>2 DEF LatencyInv
    <3>6. ASSUME NEW g \in Engines, pc'[g] = "push"
          PROVE  seen'[g].count = stat_count'[g[1]]
      <4>1. g # e /\ pc[g] = "push" /\ seen'[g] = seen[g]
        BY <2>1, <3>1, <3>6
      <4>2. g[1] # e[1]
        BY <1>2, <3>2, <4>1 DEF LatencyInv
      <4> QED
        BY <1>1, <1>2, <3>1, <4>1, <4>2 DEF LatencyInv
    <3> QED
      BY <3>4, <3>5, <3>6 DEF LatencyInv
  <2> QED
    BY <1>9, <2>3, <2>4, <2>5 DEF Worker, RunBenchmark
<1> QED
  BY <1>7, <1>8, <1>9 DEF Next, Ended

\* Only main writes the loop variables and what it has summed.
LEMMA LoopKept ==
  ASSUME PhaseInv, LoopInv, [Next]_vars
  PROVE  LoopInv'
<1>1. CASE UNCHANGED mainVars
  BY <1>1 DEF LoopInv, mainVars
<1>2. CASE Spawn \/ Report
  BY <1>2 DEF Spawn, Report, At, LoopInv
<1>3. CASE SysCallFails \/ CollectCrashes \/ JoinFails
  BY <1>3 DEF SysCallFails, CollectCrashes, JoinFails, LoopInv, mainVars
<1>4. CASE Look \/ Wait \/ Quota
  <2>1. mpc \in {"look", "wait", "quota"} /\ idx' = idx /\ mpc' # "close"
    BY <1>4 DEF Look, LookDone, LookSpace, LookTime, LookInteractive, Wait,
                Quota, At
  <2> QED
    BY <2>1 DEF LoopInv
<1>5. ASSUME NEW label \in {"sum_quota", "sum_sample", "sum_total"},
             NEW after \in {"quota", "sample", "report"},
             ComputeTotalOps(label, after)
      PROVE  LoopInv'
  BY <1>5 DEF ComputeTotalOps, NextThread, At, LoopInv
<1>6. CASE ChooseStats \/ Sample \/ Collect \/ CollectEnds \/ Clear
  BY <1>6 DEF ChooseStats, Sample, Collect, CollectEnds, Clear, At, LoopInv
<1>7. CASE Reap \/ Join
  <2>1. mpc' \in {"join"} \/ NextWorkload
    BY <1>7 DEF Reap, Join, At
  <2> QED
    BY <2>1 DEF NextWorkload, LoopInv
<1>8. CASE CloseLocal
  BY <1>8 DEF CloseLocal, NextThread, At, LoopInv
<1> QED
  BY <1>1, <1>2, <1>3, <1>4, <1>5, <1>6, <1>7, <1>8
     DEF Next, Main, Worker, Ended, vars

-----------------------------------------------------------------------------
(* The loops over the threads *)

\* While main reads the counters, the threads of the workload are those it
\* has read, the one it reads and those ahead.
LEMMA PassedAhead ==
  ASSUME PhaseInv, mpc # "collect"
  PROVE  /\ cur \in Workloads /\ self \in EnginesOf(cur)
         /\ self \notin Passed /\ Passed \cup {self} \subseteq EnginesOf(cur)
         /\ Ahead \subseteq EnginesOf(cur) /\ self \in Ahead
         /\ Passed \cup {self} = {cur} \X (1 .. (idx + 1) - 1)
         /\ Ahead \ {self} = {cur} \X (idx + 1 .. Config[cur].threads)
         /\ ~ (idx < Config[cur].threads) =>
              Passed \cup {self} = EnginesOf(cur) /\ Ahead \ {self} = {}
         /\ idx = 1 => Passed = {} /\ Ahead = EnginesOf(cur)
<1>1. /\ cur \in Workloads /\ Config[cur].threads \in Nat /\ idx \in Nat
      /\ 1 <= idx /\ idx <= Config[cur].threads
  <2>1. /\ cur \in Workloads /\ idx \in Threads(cur)
        /\ Config[cur].threads \in Nat
    BY ConfigFacts DEF PhaseInv, TypeOK
  <2> QED
    BY <2>1 DEF Threads
<1> QED
  BY <1>1 DEF Passed, Ahead, self, EnginesOf, Threads

\* One iteration of compute_total_ops: the counter of one more thread, which
\* leaves the threads ahead; or the last one.
LEMMA CountStep ==
  ASSUME PhaseInv,
         NEW label \in {"sum_quota", "sum_sample", "sum_total"},
         NEW after \in {"quota", "sample", "report"},
         ComputeTotalOps(label, after)
  PROVE  /\ mpc = label /\ ops_so_far' = ops_so_far + ops[self]
         /\ UNCHANGED <<engineVars, cur, last_ops_so_far, reported, open, fd, output_fd>>
         /\ ops[self] \in Nat /\ SumOn(ops, Passed) \in Nat
         /\ SumOn(ops, Ahead) \in Nat
         /\ \/ /\ mpc' = label
               /\ SumOn(ops, Passed)' = SumOn(ops, Passed) + ops[self]
               /\ SumOn(ops, Ahead) = SumOn(ops, Ahead)' + ops[self]
               /\ SumOn(ops, Ahead)' \in Nat
            \/ /\ mpc' = after
               /\ TotalOps(cur)' = SumOn(ops, Passed) + ops[self]
               /\ SumOn(ops, Ahead) = ops[self]
<1>1. /\ mpc = label /\ mpc # "collect" /\ ops_so_far' = ops_so_far + ops[self]
      /\ UNCHANGED <<engineVars, cur, last_ops_so_far, reported, open, fd, output_fd>>
      /\ ops' = ops /\ NextThread(after)
  BY DEF ComputeTotalOps, At, engineVars
<1>2. /\ cur \in Workloads /\ EnginesOf(cur) \subseteq Engines
      /\ self \notin Passed /\ self \in Ahead /\ self \in EnginesOf(cur)
      /\ Passed \subseteq EnginesOf(cur) /\ Ahead \subseteq EnginesOf(cur)
      /\ Passed \cup {self} \subseteq EnginesOf(cur)
  BY <1>1, PassedAhead, EngineFacts
<1>3. \A e \in EnginesOf(cur) : ops[e] \in Nat /\ ops[e] \in Int
  BY <1>2 DEF PhaseInv, TypeOK, EngineTypeOK
<1>4. IsFiniteSet(Passed) /\ IsFiniteSet(Ahead) /\ IsFiniteSet(Ahead \ {self})
  BY <1>2, ThreadsFinite, FS_Subset
<1>5. SumOn(ops, Passed) \in Nat
  BY <1>2, <1>3, <1>4, SumNat
<1>6. SumOn(ops, Ahead) \in Nat
  BY <1>2, <1>3, <1>4, SumNat
<1>7. SumOn(ops, Ahead \ {self}) \in Nat
  BY <1>2, <1>3, <1>4, SumNat
<1>8. SumOn(ops, Passed \cup {self}) = ops[self] + SumOn(ops, Passed)
  BY <1>2, <1>3, <1>4, SumAdd
<1>9. SumOn(ops, Ahead) = ops[self] + SumOn(ops, Ahead \ {self})
  BY <1>2, <1>3, <1>4, SumRemove
<1>10. CASE idx < Config[cur].threads
  <2>1. mpc' = label /\ idx' = idx + 1 /\ cur' = cur
    BY <1>1, <1>10 DEF NextThread
  <2>2. Passed' = Passed \cup {self} /\ Ahead' = Ahead \ {self}
    BY <1>1, <2>1, PassedAhead DEF Passed, Ahead
  <2>3. /\ SumOn(ops, Passed)' = SumOn(ops, Passed \cup {self})
        /\ SumOn(ops, Ahead)' = SumOn(ops, Ahead \ {self})
    BY <1>1, <2>2
  <2> QED
    BY <1>1, <1>2, <1>3, <1>5, <1>6, <1>7, <1>8, <1>9, <2>1, <2>3
<1>11. CASE ~ (idx < Config[cur].threads)
  <2>1. mpc' = after
    BY <1>1, <1>11 DEF NextThread
  <2>2. Passed \cup {self} = EnginesOf(cur) /\ Ahead \ {self} = {}
    BY <1>1, <1>11, PassedAhead
  <2>3. TotalOps(cur)' = SumOn(ops, Passed \cup {self})
    BY <1>1, <2>2 DEF TotalOps
  <2>4. SumOn(ops, Ahead \ {self}) = 0
    BY <2>2, SumEmpty
  <2> QED
    BY <1>1, <1>2, <1>3, <1>5, <1>6, <1>8, <1>9, <2>1, <2>3, <2>4
<1> QED
  BY <1>10, <1>11

\* At the start of a loop nothing has been counted.
LEMMA LoopStarts ==
  ASSUME PhaseInv, mpc # "collect", idx = 1
  PROVE  SumOn(ops, Passed) = 0 /\ SumOn(ops, Ahead) = TotalOps(cur)
  BY PassedAhead, SumEmpty DEF TotalOps

\* Main reads the counters one after the other while the threads add to them.
LEMMA SampleKept ==
  ASSUME PhaseInv, LoopInv, SampleInv, [Next]_vars
  PROVE  SampleInv'
<1>1. /\ last_ops_so_far \in [Workloads -> Nat \cup {-1}]
      /\ ops_so_far \in Nat \cup {-1} /\ cur \in Workloads /\ PhaseInv'
  BY PhaseNext DEF PhaseInv, TypeOK
<1>2. \A w \in Workloads : /\ TotalOps(w) \in Nat /\ TotalOps(w)' \in Nat
                           /\ TotalOps(w) <= TotalOps(w)'
  BY TotalGrows
<1>3. \A w \in Workloads : last_ops_so_far[w] <= TotalOps(w)'
  BY <1>1, <1>2 DEF SampleInv
\* A step that leaves main where it is, while the threads go on.
<1>4. ASSUME UNCHANGED <<mpc, cur, idx, ops_so_far, last_ops_so_far>>
      PROVE  SampleInv'
  <2>1. CASE mpc = "collect"
    BY <1>3, <1>4, <2>1 DEF SampleInv
  <2>2. CASE mpc # "collect"
    <3>1. Passed \subseteq EnginesOf(cur) /\ Ahead \subseteq EnginesOf(cur)
      BY <2>2, PassedAhead
    <3>2. /\ SumOn(ops, Passed) \in Nat /\ SumOn(ops', Passed) \in Nat
          /\ SumOn(ops, Passed) <= SumOn(ops', Passed)
      BY <1>1, <3>1, TotalGrows
    <3>3. /\ SumOn(ops, Ahead) \in Nat /\ SumOn(ops', Ahead) \in Nat
          /\ SumOn(ops, Ahead) <= SumOn(ops', Ahead)
      BY <1>1, <3>1, TotalGrows
    <3>4. /\ SumOn(ops, Passed)' = SumOn(ops', Passed)
          /\ SumOn(ops, Ahead)' = SumOn(ops', Ahead)
      BY <1>4 DEF Passed, Ahead
    <3>5. mpc \in {"sum_quota", "sum_sample"} =>
            /\ ops_so_far \in Nat
            /\ ops_so_far <= SumOn(ops, Passed)'
            /\ last_ops_so_far[cur] <= ops_so_far + SumOn(ops, Ahead)'
      BY <1>1, <3>2, <3>3, <3>4 DEF SampleInv
    <3>6. mpc \in {"quota", "stats", "sample"} /\ ops_so_far # -1 =>
            last_ops_so_far[cur] <= ops_so_far /\ ops_so_far <= TotalOps(cur)'
      BY <1>1, <1>2, <1>4 DEF SampleInv, TotalOps
    <3> QED
      BY <1>3, <1>4, <3>5, <3>6 DEF SampleInv
  <2> QED
    BY <2>1, <2>2
<1>5. CASE UNCHANGED mainVars
  BY <1>4, <1>5 DEF mainVars
<1>6. CASE SysCallFails \/ CollectCrashes \/ JoinFails
  BY <1>4, <1>6 DEF SysCallFails, CollectCrashes, JoinFails, mainVars
\* Where nothing is said of the count.
<1>7. ASSUME UNCHANGED last_ops_so_far,
             mpc' \notin {"sum_quota", "sum_sample", "quota", "stats", "sample"},
             mpc' \in {"spawn", "look", "wait"} => ops_so_far' = -1
      PROVE  SampleInv'
  BY <1>3, <1>7 DEF SampleInv
<1>8. CASE Spawn
  <2>1. /\ mpc = "spawn" /\ mpc' \in {"spawn", "look"}
        /\ UNCHANGED <<ops_so_far, last_ops_so_far>>
    BY <1>8 DEF Spawn, At
  <2> QED
    BY <1>7, <2>1 DEF SampleInv
<1>9. CASE Look
  <2>1. /\ mpc = "look" /\ idx = 1 /\ ops_so_far = -1
        /\ UNCHANGED <<cur, idx, last_ops_so_far, ops>>
        /\ \/ mpc' \in {"stats", "wait"} /\ ops_so_far' = -1
           \/ mpc' = "sum_quota" /\ ops_so_far' = 0
    BY <1>9 DEF Look, LookDone, LookSpace, LookTime, LookInteractive, At,
                LoopInv, SampleInv
  <2>2. CASE mpc' = "sum_quota" /\ ops_so_far' = 0
    <3>1. SumOn(ops, Passed)' = 0 /\ SumOn(ops, Ahead)' = TotalOps(cur)'
      <4>1. SumOn(ops, Passed) = 0 /\ SumOn(ops, Ahead) = TotalOps(cur)
        BY <2>1, LoopStarts
      <4> QED
        BY <2>1, <4>1 DEF Passed, Ahead, TotalOps
    <3> QED
      BY <1>1, <1>2, <1>3, <2>1, <2>2, <3>1 DEF SampleInv
  <2> QED
    BY <1>3, <2>1, <2>2 DEF SampleInv
<1>10. CASE Wait
  BY <1>3, <1>10 DEF Wait, At, SampleInv
<1>11. CASE Quota
  <2>1. /\ mpc = "quota" /\ mpc' = "stats"
        /\ UNCHANGED <<cur, ops_so_far, last_ops_so_far, ops>>
    BY <1>11 DEF Quota, At
  <2> QED
    BY <1>1, <1>2, <1>3, <2>1 DEF SampleInv, TotalOps
<1>12. ASSUME NEW label \in {"sum_quota", "sum_sample"},
              NEW after \in {"quota", "sample"},
              ComputeTotalOps(label, after)
       PROVE  SampleInv'
  <2>1. /\ ops_so_far \in Nat /\ ops_so_far <= SumOn(ops, Passed)
        /\ last_ops_so_far[cur] <= ops_so_far + SumOn(ops, Ahead)
    BY <1>12, CountStep DEF SampleInv
  <2>2. /\ ops_so_far' = ops_so_far + ops[self] /\ ops[self] \in Nat
        /\ UNCHANGED <<cur, last_ops_so_far>> /\ SumOn(ops, Passed) \in Nat
        /\ SumOn(ops, Ahead) \in Nat
    BY <1>12, CountStep
  <2>3. last_ops_so_far[cur] \in Int
    BY <1>1
  <2>4. CASE /\ mpc' = label
             /\ SumOn(ops, Passed)' = SumOn(ops, Passed) + ops[self]
             /\ SumOn(ops, Ahead) = SumOn(ops, Ahead)' + ops[self]
             /\ SumOn(ops, Ahead)' \in Nat
    <3>1. /\ ops_so_far' \in Nat /\ ops_so_far' <= SumOn(ops, Passed)'
          /\ last_ops_so_far[cur] <= ops_so_far' + SumOn(ops, Ahead)'
      BY <2>1, <2>2, <2>3, <2>4
    <3> QED
      BY <1>3, <2>2, <2>4, <3>1 DEF SampleInv
  <2>5. CASE /\ mpc' = after
             /\ TotalOps(cur)' = SumOn(ops, Passed) + ops[self]
             /\ SumOn(ops, Ahead) = ops[self]
    <3>1. /\ ops_so_far' \in Nat /\ ops_so_far' <= TotalOps(cur)'
          /\ last_ops_so_far[cur] <= ops_so_far'
      BY <2>1, <2>2, <2>3, <2>5
    <3> QED
      BY <1>3, <2>2, <2>5, <3>1 DEF SampleInv
  <2> QED
    BY <1>12, <2>4, <2>5, CountStep
<1>13. CASE ComputeTotalOps("sum_total", "report")
  BY <1>7, <1>13, CountStep
<1>14. CASE ChooseStats
  <2>1. /\ mpc = "stats" /\ idx = 1 /\ UNCHANGED <<cur, idx, last_ops_so_far, ops>>
        /\ \/ mpc' \in {"collect", "reap"}
           \/ mpc' = "sum_sample" /\ ops_so_far' = 0
           \/ mpc' = "sample" /\ ops_so_far # -1 /\ ops_so_far' = ops_so_far
    BY <1>14 DEF ChooseStats, At, LoopInv, engineVars
  <2>2. CASE mpc' \in {"collect", "reap"}
    BY <1>7, <2>1, <2>2
  <2>3. CASE mpc' = "sum_sample" /\ ops_so_far' = 0
    <3>1. SumOn(ops, Passed)' = 0 /\ SumOn(ops, Ahead)' = TotalOps(cur)'
      <4>1. SumOn(ops, Passed) = 0 /\ SumOn(ops, Ahead) = TotalOps(cur)
        BY <2>1, LoopStarts
      <4> QED
        BY <2>1, <4>1 DEF Passed, Ahead, TotalOps
    <3> QED
      BY <1>1, <1>2, <1>3, <2>1, <2>3, <3>1 DEF SampleInv
  <2>4. CASE mpc' = "sample" /\ ops_so_far # -1 /\ ops_so_far' = ops_so_far
    BY <1>1, <1>2, <1>3, <2>1, <2>4 DEF SampleInv, TotalOps
  <2> QED
    BY <2>1, <2>2, <2>3, <2>4
<1>15. CASE Sample
  <2>1. /\ mpc = "sample" /\ mpc' = "reap" /\ ops_so_far \in Nat
        /\ last_ops_so_far' = [last_ops_so_far EXCEPT ![cur] = ops_so_far]
    BY <1>15 DEF Sample, At, SampleInv
  <2>2. ops_so_far <= TotalOps(cur)
    BY <2>1 DEF SampleInv
  <2>3. \A w \in Workloads : last_ops_so_far'[w] <= TotalOps(w)'
    BY <1>1, <1>2, <1>3, <2>1, <2>2
  <2> QED
    BY <2>1, <2>3 DEF SampleInv
<1>16. CASE Collect \/ CollectEnds \/ Clear \/ CloseLocal
  BY <1>7, <1>16 DEF Collect, CollectEnds, Clear, CloseLocal, NextThread, At
<1>17. CASE Reap \/ Join
  <2>1. UNCHANGED last_ops_so_far /\ (mpc' = "join" \/ NextWorkload)
    BY <1>17 DEF Reap, Join, At
  <2> QED
    BY <1>7, <2>1 DEF NextWorkload, NoCount
<1>18. CASE Report
  BY <1>7, <1>18 DEF Report, At
<1> QED
  BY <1>5, <1>6, <1>8, <1>9, <1>10, <1>11, <1>12, <1>13, <1>14, <1>15, <1>16,
     <1>17, <1>18 DEF Next, Main, Worker, Ended, vars

\* A volume that has been reached stays so as the count grows.
LEMMA ProductGrows ==
  ASSUME NEW b \in Nat, NEW x \in Nat, NEW y \in Nat, x <= y
  PROVE  b * x <= b * y
<1>1. PICK d \in Nat : y = x + d
  <2>1. y - x \in Nat /\ y = x + (y - x)
    OBVIOUS
  <2> QED
    BY <2>1
<1>2. b * y = b * x + b * d
  BY <1>1
<1>3. b * x \in Nat /\ b * d \in Nat
  OBVIOUS
<1> QED
  BY <1>2, <1>3

\* A thread that was refused an operation has not begun another one.
LEMMA RefusedStays ==
  ASSUME PhaseInv, WorkInv, [Next]_vars, NEW e \in Engines, res[e] = 0
  PROVE  res'[e] = 0
<1>1. res \in [Engines -> {0, 1}] /\ pc[e] \in {"lock", "push", "quit", "exited"}
  BY DEF PhaseInv, TypeOK, EngineTypeOK, WorkInv
<1>2. CASE UNCHANGED vars \/ Main
  BY <1>2, MainCounts DEF vars, engineVars
<1>3. ASSUME NEW f \in Engines, Worker(f) PROVE res'[e] = 0
  <2>1. CASE f # e
    BY <1>3, <2>1, OwnCounts DEF PhaseInv
  <2>2. CASE f = e
    BY <1>1, <1>3, <2>2
       DEF Worker, RunBenchmark, TestDone, ClaimOp, OpRefused, OpPerformed,
           OpFails, EnterPush, LeavePush, SetDone, Goto
  <2> QED
    BY <2>1, <2>2
<1> QED
  BY <1>2, <1>3 DEF Next, Ended

\* Main stops a workload for its volume only when its sum has reached it.
LEMMA StopKept ==
  ASSUME PhaseInv, WorkInv, SampleInv, StopInv, [Next]_vars
  PROVE  StopInv'
<1>1. /\ pc \in [Engines -> ThreadLabels] /\ is_done \in [Workloads -> BOOLEAN]
      /\ res \in [Engines -> {0, 1}] /\ cur \in Workloads
      /\ ops_so_far \in Nat \cup {-1}
  BY DEF PhaseInv, TypeOK, EngineTypeOK
<1>2. \A e \in Engines : e[1] \in Workloads /\ e \in EnginesOf(e[1])
  BY EngineFacts
<1>3. \A w \in Workloads : EnginesOf(w) \subseteq Engines
  BY EngineFacts
<1>4. \A w \in Workloads : Config[w].block_size \in Nat /\ Config[w].duration \in Nat
  BY ConfigFacts DEF ConfigType
<1>5. \A w \in Workloads : is_done[w] => is_done'[w]
  <2>1. CASE UNCHANGED vars
    BY <2>1 DEF vars, engineVars
  <2>2. CASE Spawn
    BY <2>2 DEF Spawn
  <2> QED
    BY <2>1, <2>2, MainFrame, WorkerFrame DEF PhaseInv, Next, Ended
\* What has stopped a workload still does.
<1>6. ASSUME NEW w \in Workloads,
             \/ \E e \in EnginesOf(w) : res[e] = 0
             \/ Config[w].block_size * TotalOps(w) >= Config[w].duration
      PROVE  \/ \E e \in EnginesOf(w) : res'[e] = 0
             \/ Config[w].block_size * TotalOps(w)' >= Config[w].duration
  <2>1. CASE \E e \in EnginesOf(w) : res[e] = 0
    BY <1>3, <2>1, RefusedStays
  <2>2. CASE Config[w].block_size * TotalOps(w) >= Config[w].duration
    <3>1. /\ TotalOps(w) \in Nat /\ TotalOps(w)' \in Nat
          /\ TotalOps(w) <= TotalOps(w)'
      BY TotalGrows
    <3>2. Config[w].block_size * TotalOps(w) <= Config[w].block_size * TotalOps(w)'
      BY <1>4, <3>1, ProductGrows
    <3>3. /\ Config[w].block_size * TotalOps(w) \in Int
          /\ Config[w].block_size * TotalOps(w)' \in Int
      BY <1>4, <3>1
    <3> QED
      BY <1>4, <2>2, <3>2, <3>3
  <2> QED
    BY <1>6, <2>1, <2>2
\* Each workload was done before the step, or is told to stop by it.
<1>7. ASSUME \A e \in Engines : pc'[e] = "exited" => pc[e] = "exited" \/ is_done'[e[1]],
             \A w \in Workloads :
               is_done'[w] /\ ~ is_done[w] /\ Config[w].duration_unit = "space" =>
                 \/ \E e \in EnginesOf(w) : res[e] = 0
                 \/ Config[w].block_size * TotalOps(w) >= Config[w].duration
      PROVE  StopInv'
  <2>1. \A e \in Engines : pc'[e] = "exited" => is_done'[e[1]]
    BY <1>2, <1>5, <1>7 DEF StopInv
  <2>2. \A w \in Workloads :
          is_done'[w] /\ Config[w].duration_unit = "space" =>
            \/ \E e \in EnginesOf(w) : res'[e] = 0
            \/ Config[w].block_size * TotalOps(w)' >= Config[w].duration
    BY <1>6, <1>7 DEF StopInv
  <2> QED
    BY <2>1, <2>2 DEF StopInv, EnginesOf, Threads
<1>8. CASE UNCHANGED vars
  BY <1>7, <1>8 DEF vars, engineVars
<1>9. CASE Main
  <2>1. \A e \in Engines : pc'[e] = "exited" => pc[e] = "exited"
    BY <1>9, MainCounts
  <2>2. CASE Look
    <3>1. \/ is_done' = is_done
          \/ /\ is_done' = [is_done EXCEPT ![cur] = TRUE]
             /\ Config[cur].duration_unit = "time"
      BY <2>2 DEF Look, LookDone, LookSpace, LookTime, LookInteractive, StopIf
    <3> QED
      BY <1>1, <1>7, <2>1, <3>1
  <2>3. CASE Quota
    <3>1. mpc = "quota" /\ ops_so_far \in Nat /\ ops_so_far <= TotalOps(cur)
      BY <1>1, <2>3 DEF Quota, At, SampleInv
    <3>2. \/ is_done' = is_done
          \/ is_done' = [is_done EXCEPT ![cur] = TRUE] /\ QuotaReached
      BY <2>3 DEF Quota, StopIf
    <3>3. QuotaReached => Config[cur].block_size * TotalOps(cur) >= Config[cur].duration
      <4>1. TotalOps(cur) \in Nat
        BY <1>1, TotalGrows
      <4>2. Config[cur].block_size * ops_so_far <= Config[cur].block_size * TotalOps(cur)
        BY <1>1, <1>4, <3>1, <4>1, ProductGrows
      <4>3. /\ Config[cur].block_size * TotalOps(cur) \in Int
            /\ Config[cur].block_size * ops_so_far \in Int
            /\ ops_so_far * Config[cur].block_size = Config[cur].block_size * ops_so_far
        BY <1>1, <1>4, <3>1, <4>1
      <4> QED
        BY <1>1, <1>4, <4>2, <4>3 DEF QuotaReached
    <3> QED
      BY <1>1, <1>7, <2>1, <3>2, <3>3
  <2>4. CASE ~ Look /\ ~ Quota
    <3>1. is_done' = is_done
      BY <1>9, <2>4 DEF Main, Spawn, SysCallFails, Wait, ComputeTotalOps,
         ChooseStats, Sample, Collect, CollectCrashes, CollectEnds, Clear,
         Reap, Join, JoinFails, CloseLocal, Report, engineVars
    <3> QED
      BY <1>7, <2>1, <3>1
  <2> QED
    BY <2>2, <2>3, <2>4
<1>10. ASSUME NEW e \in Engines, Worker(e)
       PROVE  StopInv'
  <2>1. \A f \in Engines \ {e} : pc'[f] = pc[f]
    BY <1>10, OwnCounts DEF PhaseInv
  <2>2. CASE SetDone(e)
    <3>1. /\ is_done' = [is_done EXCEPT ![e[1]] = TRUE] /\ pc[e] = "quit"
      BY <2>2 DEF SetDone, Goto
    <3>2. res[e] = 0
      BY <3>1 DEF WorkInv
    <3>3. is_done'[e[1]] /\ \A w \in Workloads \ {e[1]} : is_done'[w] = is_done[w]
      BY <1>1, <1>2, <3>1
    <3> QED
      BY <1>2, <1>7, <2>1, <3>2, <3>3
  <2>3. CASE ~ SetDone(e)
    <3>1. is_done' = is_done /\ (pc'[e] = "exited" => pc[e] = "exited" \/ is_done[e[1]])
      BY <1>1, <1>10, <2>3
         DEF Worker, RunBenchmark, TestDone, ClaimOp, OpRefused, OpPerformed,
             OpFails, EnterPush, LeavePush, AfterPush, Goto
    <3> QED
      BY <1>7, <2>1, <3>1
  <2> QED
    BY <2>2, <2>3
<1> QED
  BY <1>8, <1>9, <1>10 DEF Next, Ended

-----------------------------------------------------------------------------
(* The end of the program *)

\* Before the results main prints nothing and closes nothing; it comes to
\* them at the end of a pass.
LEMMA BeforeClosing ==
  ASSUME PhaseInv, Main, mpc \notin Closing
  PROVE  /\ reported' = reported /\ status' # "ok"
         /\ mpc' \in Closing => cur' = 1 /\ idx' = 1 /\ mpc' = "close"
         /\ ~ Spawn => UNCHANGED <<open, output_fd, fd>>
<1>1. CASE \/ Spawn \/ Look \/ Wait \/ Quota \/ ChooseStats \/ Sample
           \/ Collect \/ CollectEnds \/ Clear
  BY <1>1 DEF Spawn, Look, LookDone, LookSpace, LookTime, LookInteractive, Wait,
              Quota, ChooseStats, Sample, Collect, CollectEnds, Clear, At,
              Running, Closing, engineVars
<1>2. CASE SysCallFails \/ CollectCrashes \/ JoinFails
  BY <1>2 DEF SysCallFails, CollectCrashes, JoinFails, mainVars
<1>3. CASE \/ ComputeTotalOps("sum_quota", "quota")
           \/ ComputeTotalOps("sum_sample", "sample")
  BY <1>3 DEF ComputeTotalOps, NextThread, At, Running, Closing, engineVars
<1>4. CASE Reap \/ Join
  <2>1. /\ UNCHANGED <<reported, status, open, output_fd, fd>>
        /\ status = "running" /\ (mpc' = "join" \/ NextWorkload)
    BY <1>4 DEF Reap, Join, At, Running, engineVars
  <2>2. NextWorkload /\ mpc' \in Closing => cur' = 1 /\ idx' = 1 /\ mpc' = "close"
    BY DEF NextWorkload, Closing
  <2> QED
    BY <2>1, <2>2 DEF Closing
<1>5. ~ (CloseLocal \/ ComputeTotalOps("sum_total", "report") \/ Report)
  BY DEF CloseLocal, ComputeTotalOps, Report, At, Closing
<1> QED
  BY <1>1, <1>2, <1>3, <1>4, <1>5 DEF Main

\* After that no thread moves.
LEMMA NoWorkerCloses ==
  ASSUME PhaseInv, NEW e \in Engines, Worker(e)
  PROVE  mpc \notin Closing /\ UNCHANGED mainVars /\ status' # "ok"
<1>1. pc[e] # "exited" /\ UNCHANGED mainVars
  BY WorkerFrame DEF PhaseInv
<1>2. status' # "ok"
  BY DEF Worker, RunBenchmark, TestDone, ClaimOp, OpRefused, OpPerformed,
         OpFails, EnterPush, LeavePush, SetDone, Goto, Running
<1> QED
  BY <1>1, <1>2 DEF PhaseInv, ClosingInv

\* Results are of threads that have been joined.
LEMMA ResultKept ==
  ASSUME PhaseInv, LoopInv, ResultInv, [Next]_vars
  PROVE  ResultInv'
<1>1. /\ cur \in 1 .. NW /\ NW \in Nat /\ Workloads = 1 .. NW
      /\ reported \in [Workloads -> Nat \cup {-1}]
  BY ConfigFacts DEF PhaseInv, TypeOK
<1>2. CASE UNCHANGED vars
  BY <1>2 DEF vars, engineVars, mainVars, ResultInv, Printed, TotalOps, Passed
\* Nothing has been printed, nor will it be by this step.
<1>3. ASSUME mpc \notin Closing, reported' = reported, status' # "ok",
             mpc' \in Closing => cur' = 1 /\ mpc' = "close"
      PROVE  ResultInv'
  <2>1. \A w \in Workloads : ~ Printed(w) /\ ~ Printed(w)'
    BY <1>1, <1>3 DEF Printed
  <2> QED
    BY <1>3, <2>1 DEF ResultInv, Closing
<1>4. ASSUME NEW e \in Engines, Worker(e)
      PROVE  ResultInv'
  BY <1>3, <1>4, NoWorkerCloses DEF mainVars
<1>5. CASE Main /\ mpc \notin Closing
  BY <1>3, <1>5, BeforeClosing
<1>6. CASE SysCallFails /\ mpc \in Closing
  <2>1. /\ UNCHANGED <<ops, mpc, cur, idx, ops_so_far, reported>>
        /\ status = "running" /\ status' = "exit"
    BY <1>6 DEF SysCallFails, Running, mainVars
  <2> QED
    BY <2>1 DEF ResultInv, Printed, TotalOps, Passed
<1>7. CASE CloseLocal
  <2>1. /\ mpc = "close" /\ mpc' \in {"close", "sum_total"}
        /\ UNCHANGED <<ops, cur, reported>> /\ ops_so_far' = 0
        /\ status = "running" /\ status' # "ok"
        /\ mpc' = "sum_total" => idx' = 1
    BY <1>7 DEF CloseLocal, CleanupIo, NextThread, At, Running, FreshTotal, LoopInv
  <2>2. \A w \in Workloads : Printed(w)' <=> Printed(w)
    BY <2>1 DEF Printed, Closing
  <2>3. mpc' = "sum_total" => SumOn(ops, Passed)' = 0
    <3>1. mpc' = "sum_total" => Passed' = {}
      BY <1>1, <2>1 DEF Passed
    <3> QED
      BY <3>1, SumEmpty
  <2> QED
    BY <2>1, <2>2, <2>3 DEF ResultInv, TotalOps
<1>8. CASE ComputeTotalOps("sum_total", "report")
  <2>1. /\ mpc = "sum_total" /\ mpc' \in {"sum_total", "report"}
        /\ UNCHANGED <<ops, cur, reported, status>> /\ status = "running"
        /\ ops_so_far' = ops_so_far + ops[self]
    BY <1>8 DEF ComputeTotalOps, NextThread, At, Running, engineVars
  <2>2. \A w \in Workloads : Printed(w)' <=> Printed(w)
    BY <2>1 DEF Printed, Closing
  <2>3. /\ mpc' = "sum_total" => SumOn(ops, Passed)' = SumOn(ops, Passed) + ops[self]
        /\ mpc' = "report" => TotalOps(cur)' = SumOn(ops, Passed) + ops[self]
    BY <1>8, CountStep
  <2> QED
    BY <2>1, <2>2, <2>3 DEF ResultInv, TotalOps
<1>9. CASE Report
  <2>1. /\ mpc = "report" /\ status = "running" /\ ops' = ops
        /\ ops_so_far' = ops_so_far /\ ops_so_far = TotalOps(cur)
    BY <1>9 DEF Report, At, Running, ResultInv
  <2>2. CASE status' \in {"exit", "crash"} /\ UNCHANGED <<mpc, cur, reported>>
    BY <2>1, <2>2 DEF ResultInv, Printed, TotalOps
  <2>3. CASE /\ reported' = [reported EXCEPT ![cur] = ops_so_far]
             /\ \/ cur < NW /\ cur' = cur + 1 /\ mpc' = "close" /\ status' = status
                \/ ~ (cur < NW) /\ status' = "ok" /\ UNCHANGED <<mpc, cur>>
    <3>1. \A w \in Workloads : Printed(w)' <=> Printed(w) \/ w = cur
      BY <1>1, <2>1, <2>3 DEF Printed, Closing
    <3>2. \A w \in Workloads : TotalOps(w)' = TotalOps(w)
      BY <2>1 DEF TotalOps
    <3>3. \A w \in Workloads : reported'[w] = IF Printed(w)' THEN TotalOps(w)' ELSE -1
      BY <1>1, <2>1, <2>3, <3>1, <3>2 DEF ResultInv
    <3>4. /\ mpc' = "report" => ops_so_far' = TotalOps(cur)' /\ cur' = NW
          /\ mpc' # "sum_total" /\ (status' = "ok" => mpc' = "report")
      BY <1>1, <2>1, <2>3 DEF TotalOps
    <3> QED
      BY <3>3, <3>4 DEF ResultInv
  <2>4. \/ status' \in {"exit", "crash"} /\ UNCHANGED <<mpc, cur, reported>>
        \/ /\ reported' = [reported EXCEPT ![cur] = ops_so_far]
           /\ \/ cur < NW /\ cur' = cur + 1 /\ mpc' = "close" /\ status' = status
              \/ ~ (cur < NW) /\ status' = "ok" /\ UNCHANGED <<mpc, cur>>
    BY <1>9 DEF Report
  <2> QED
    BY <2>2, <2>3, <2>4
<1>10. CASE Main /\ mpc \in Closing
  <2>1. SysCallFails \/ CloseLocal \/ ComputeTotalOps("sum_total", "report") \/ Report
    BY <1>10 DEF Main, Spawn, Look, Wait, ComputeTotalOps, Quota, ChooseStats,
                 Sample, Collect, CollectCrashes, CollectEnds, Clear, Reap,
                 Join, JoinFails, At, Closing
  <2> QED
    BY <1>6, <1>7, <1>8, <1>9, <1>10, <2>1
<1> QED
  BY <1>2, <1>4, <1>5, <1>10 DEF Next, Ended

-----------------------------------------------------------------------------
(* Descriptors *)

\* Descriptors open and close with the steps of main and of their thread.
LEMMA OpenKept ==
  ASSUME PhaseInv, OpenInv, [Next]_vars
  PROVE  OpenInv'
<1>1. /\ pc \in [Engines -> ThreadLabels]
      /\ fd \in [Engines -> Engines \cup {NoEngine}]
      /\ output_fd \in [Workloads -> Nat]
      /\ cur \in Workloads
  BY DEF PhaseInv, TypeOK, EngineTypeOK
<1>2. \A e \in Engines : e[1] \in Workloads
  BY EngineFacts
\* Descriptors are not opened, and the threads that have one keep it.
<1>3. ASSUME UNCHANGED <<fd, output_fd>>, open' \subseteq open,
             \A e \in Engines : pc'[e] # "unborn" => pc[e] # "unborn"
      PROVE  OpenInv'
  BY <1>3 DEF OpenInv, Opener, Cfg
<1>4. CASE UNCHANGED vars
  BY <1>3, <1>4 DEF vars, engineVars, mainVars
<1>5. ASSUME NEW e \in Engines, Worker(e)
      PROVE  OpenInv'
  <2>1. \A f \in Engines : pc'[f] # "unborn" => pc[f] # "unborn"
    BY <1>1, <1>5, WorkerFrame DEF PhaseInv
  <2> QED
    BY <1>3, <1>5, <2>1, NoWorkerCloses DEF mainVars
<1>6. CASE Main /\ ~ Spawn
  <2>1. UNCHANGED <<pc, fd>>
    BY <1>6, MainFrame DEF PhaseInv
  <2>2. output_fd' = output_fd /\ open' \subseteq open
    BY <1>6 DEF Main, SysCallFails, Look, Wait, ComputeTotalOps, Quota,
         ChooseStats, Sample, Collect, CollectCrashes, CollectEnds, Clear,
         Reap, Join, JoinFails, CloseLocal, CleanupIo, Report, mainVars
  <2> QED
    BY <1>3, <2>1, <2>2
<1>7. CASE Spawn
  <2>1. /\ mpc = "spawn" /\ self \in Engines /\ self = <<cur, idx>>
        /\ idx \in Threads(cur) /\ idx # 0 /\ Cfg(self) = Config[cur]
        /\ pc' = [pc EXCEPT ![self] = "test"]
        /\ Config[cur].local_fd \in BOOLEAN
    BY <1>7, ConfigFacts, EngineFacts
       DEF PhaseInv, TypeOK, Spawn, At, self, Cfg, Threads
  <2>2. \A e \in Engines \ {self} : pc'[e] = pc[e]
    BY <1>1, <2>1
  <2>3. CASE Config[cur].local_fd \/ idx = 1
    <3>1. SetupIo(self) /\ Opener(self) = self
      BY <1>7, <2>1, <2>3 DEF Spawn, Opener
    <3>2. \A e \in Engines : pc'[e] # "unborn" => fd'[e] = Opener(e)
      BY <1>1, <2>1, <2>2, <3>1 DEF SetupIo, OpenInv
    <3>3. /\ open' \subseteq open \cup {<<"device", self>>, <<"output", self>>}
          /\ <<"output", self>> \in open' => <<"output", self>> \in open \/ Config[cur].output
          /\ output_fd' = [output_fd EXCEPT ![cur] = IF Config[cur].output THEN idx ELSE @]
      BY <2>1, <3>1 DEF SetupIo
    <3>4. \A w \in Workloads : output_fd[w] # 0 => output_fd'[w] # 0
      BY <1>1, <2>1, <3>3
    <3>5. ASSUME NEW e \in Engines
          PROVE  /\ <<"device", e>> \in open' => Opener(e) = e
                 /\ <<"output", e>> \in open' => Opener(e) = e /\ output_fd'[e[1]] # 0
      <4>1. CASE e = self
        <5>1. <<"output", e>> \in open => output_fd'[e[1]] # 0
          BY <1>2, <3>4 DEF OpenInv
        <5>2. Config[cur].output => output_fd'[e[1]] # 0
          BY <1>1, <2>1, <3>3, <4>1
        <5> QED
          BY <3>1, <3>3, <4>1, <5>1, <5>2
      <4>2. CASE e # self
        BY <1>2, <3>3, <3>4, <4>2 DEF OpenInv
      <4> QED
        BY <4>1, <4>2
    <3>6. ASSUME NEW w \in Workloads, output_fd'[w] # 0
          PROVE  /\ output_fd'[w] \in Threads(w)
                 /\ Opener(<<w, output_fd'[w]>>) = <<w, output_fd'[w]>>
      <4>1. \/ output_fd'[w] = output_fd[w]
            \/ w = cur /\ output_fd'[w] = idx
        BY <1>1, <3>3
      <4> QED
        BY <2>1, <3>1, <3>6, <4>1 DEF OpenInv
    <3> QED
      BY <3>2, <3>5, <3>6 DEF OpenInv, Opener, Cfg, Threads
  <2>4. CASE ~ (Config[cur].local_fd \/ idx = 1)
    <3>1. /\ fd' = [fd EXCEPT ![self] = fd[<<cur, 1>>]]
          /\ UNCHANGED <<open, output_fd>>
      BY <1>7, <2>4 DEF Spawn, CopyIoState
    <3>2. fd[<<cur, 1>>] = <<cur, 1>> /\ Opener(self) = <<cur, 1>>
      <4>1. <<cur, 1>> \in Engines /\ 1 < idx
        BY <2>1, <2>4, <1>1, ConfigFacts, EngineFacts DEF Threads
      <4>2. pc[<<cur, 1>>] # "unborn"
        BY <2>1, <4>1 DEF PhaseInv, BornInv, Spawned
      <4> QED
        BY <2>1, <2>4, <4>1, <4>2 DEF OpenInv, Opener, Cfg
    <3>3. \A e \in Engines : pc'[e] # "unborn" => fd'[e] = Opener(e)
      BY <1>1, <2>1, <2>2, <3>1, <3>2 DEF OpenInv
    <3> QED
      BY <3>1, <3>3 DEF OpenInv, Opener, Cfg
  <2> QED
    BY <2>3, <2>4
<1> QED
  BY <1>4, <1>5, <1>6, <1>7 DEF Next, Ended

\* The results of a workload are printed when everything of it is closed: the
\* clean-up has gone through all its openers, and its one output file.
LEMMA CleanKept ==
  ASSUME PhaseInv, LoopInv, OpenInv, CleanInv, [Next]_vars
  PROVE  CleanInv'
<1>1. /\ cur \in 1 .. NW /\ NW \in Nat /\ Workloads = 1 .. NW
      /\ open \subseteq Descriptor /\ idx \in Nat
      /\ Config[cur].threads \in Nat /\ Config[cur].local_fd \in BOOLEAN
      /\ output_fd \in [Workloads -> Nat]
  BY ConfigFacts DEF PhaseInv, TypeOK
<1>2. CASE UNCHANGED vars
  BY <1>2 DEF vars, engineVars, mainVars, CleanInv, Cleaned, Passed
<1>3. ASSUME mpc' \notin Closing \/ status' \notin {"running", "ok"}
      PROVE  CleanInv'
  BY <1>3 DEF CleanInv
<1>4. ASSUME NEW e \in Engines, Worker(e)
      PROVE  CleanInv'
  BY <1>3, <1>4, NoWorkerCloses DEF mainVars
<1>5. CASE Main /\ mpc \notin Closing
  <2>1. mpc' \in Closing => cur' = 1 /\ idx' = 1 /\ mpc' = "close" /\ status' # "ok"
    BY <1>5, BeforeClosing
  <2>2. CASE mpc' \in Closing
    <3>1. \A e \in Engines : ~ Cleaned(e[1])'
      BY <1>1, <2>1, <2>2, EngineFacts DEF Cleaned
    <3>2. Passed' = {}
      BY <2>1, <2>2 DEF Passed
    <3> QED
      BY <2>1, <2>2, <3>1, <3>2 DEF CleanInv
  <2> QED
    BY <1>3, <2>2
<1>6. CASE SysCallFails
  BY <1>3, <1>6 DEF SysCallFails
<1>7. CASE CloseLocal
  <2>1. /\ mpc = "close" /\ status = "running" /\ cur' = cur
        /\ UNCHANGED <<fd, output_fd>> /\ self \in EnginesOf(cur)
        /\ self \in Engines /\ Cfg(self) = Config[cur] /\ self[1] = cur
        /\ \A e \in Engines : e[1] = cur <=> e \in EnginesOf(cur)
    BY <1>7, PassedAhead, EngineFacts
       DEF CloseLocal, At, Running, self, Cfg, EnginesOf
  <2>2. \A e \in Engines : e[1] < cur =>
          <<"device", e>> \notin open /\ <<"output", e>> \notin open
    BY <2>1 DEF CleanInv, Closing, Cleaned
  <2>3. CASE ~ Config[cur].local_fd
    <3>1. mpc' = "sum_total" /\ UNCHANGED <<open, status>>
      BY <1>7, <2>3 DEF CloseLocal
    <3>2. \A e \in Engines : Cleaned(e[1])' => e[1] < cur
      BY <2>1, <2>3, <3>1 DEF Cleaned
    <3> QED
      BY <2>2, <3>1, <3>2 DEF CleanInv
  <2>4. CASE Config[cur].local_fd /\ status' \in {"running", "ok"}
    <3>1. /\ open' = open \ ToClose(self) /\ ToClose(self) \subseteq open
          /\ status' = "running" /\ NextThread("sum_total")
      BY <1>7, <2>1, <2>4 DEF CloseLocal, CleanupIo
    <3>2. fd[self] = self
      <4>1. pc[self] # "unborn"
        BY <2>1 DEF PhaseInv, ClosingInv, Closing
      <4> QED
        BY <2>1, <2>4, <4>1 DEF OpenInv, Opener
    <3>3. /\ <<"device", self>> \notin open'
          /\ output_fd[cur] # 0 =>
               /\ <<"output", <<cur, output_fd[cur]>>>> \in open
               /\ <<"output", <<cur, output_fd[cur]>>>> \notin open'
      BY <2>1, <3>1, <3>2 DEF ToClose
    <3>4. \A e \in Passed \cup {self} : <<"device", e>> \notin open'
      BY <2>1, <3>1, <3>3 DEF CleanInv, Closing
    <3>5. CASE idx < Config[cur].threads
      <4>1. mpc' = "close" /\ idx' = idx + 1
        BY <2>1, <3>1, <3>5 DEF NextThread
      <4>2. Passed' = Passed \cup {self}
        BY <2>1, <4>1, PassedAhead DEF Passed
      <4>3. <<"output", <<cur, output_fd[cur]>>>> \notin open'
        <5>1. output_fd[cur] = 0 => <<"output", <<cur, output_fd[cur]>>>> \notin Descriptor
          BY <1>1, EngineFacts DEF Descriptor, Threads
        <5> QED
          BY <1>1, <3>1, <3>3, <5>1
      <4>4. \A e \in Engines : Cleaned(e[1])' => e[1] < cur
        BY <2>1, <3>1, <4>1 DEF Cleaned
      <4> QED
        BY <2>1, <2>2, <3>1, <3>4, <4>1, <4>2, <4>3, <4>4 DEF CleanInv
    <3>6. CASE ~ (idx < Config[cur].threads)
      <4>1. mpc' = "sum_total" /\ Passed \cup {self} = EnginesOf(cur)
        BY <2>1, <3>1, <3>6, PassedAhead DEF NextThread
      <4>2. \A e \in EnginesOf(cur) : <<"device", e>> \notin open'
        BY <3>4, <4>1
      <4>3. \A e \in EnginesOf(cur) : <<"output", e>> \notin open'
        <5> SUFFICES ASSUME NEW e \in EnginesOf(cur), <<"output", e>> \in open'
                     PROVE  FALSE
          OBVIOUS
        <5>1. output_fd[cur] # 0 /\ output_fd[cur] \in Threads(cur)
          <6>1. e \in Engines /\ e[1] = cur /\ <<"output", e>> \in open
            BY <1>1, <3>1, EngineFacts DEF EnginesOf
          <6> QED
            BY <1>1, <6>1 DEF OpenInv
        <5>2. CASE idx > 1
          BY <2>1, <3>3, <5>1, <5>2 DEF CleanInv, Closing
        <5>3. CASE ~ (idx > 1)
          <6>1. Config[cur].threads <= 1
            BY <1>1, <3>6, <5>3
          <6>2. output_fd[cur] = 1 /\ e = <<cur, 1>>
            BY <1>1, <5>1, <6>1 DEF Threads, EnginesOf
          <6> QED
            BY <3>3, <5>1, <6>2
        <5> QED
          BY <5>2, <5>3
      <4>4. \A e \in Engines : Cleaned(e[1])' => e[1] < cur \/ e \in EnginesOf(cur)
        BY <2>1, <3>1, <4>1 DEF Cleaned
      <4> QED
        BY <2>2, <3>1, <4>1, <4>2, <4>3, <4>4 DEF CleanInv
    <3> QED
      BY <3>5, <3>6
  <2> QED
    BY <1>3, <2>3, <2>4
<1>8. CASE ComputeTotalOps("sum_total", "report")
  <2>1. /\ mpc = "sum_total" /\ mpc' \in {"sum_total", "report"}
        /\ UNCHANGED <<cur, status, open>>
    BY <1>8 DEF ComputeTotalOps, NextThread, At, engineVars
  <2>2. \A e \in Engines : Cleaned(e[1])' => Cleaned(e[1])
    BY <2>1 DEF Cleaned
  <2> QED
    BY <2>1, <2>2 DEF CleanInv, Closing
<1>9. CASE Report
  <2>1. /\ mpc = "report" /\ status = "running" /\ idx' = 1
        /\ \A e \in Engines : e[1] \in 1 .. NW
    BY <1>1, <1>9, EngineFacts DEF Report, At, Running
  <2>2. CASE status' \in {"running", "ok"}
    <3>1. /\ \/ cur < NW /\ cur' = cur + 1 /\ mpc' = "close" /\ status' = "running"
             \/ ~ (cur < NW) /\ status' = "ok" /\ UNCHANGED <<mpc, cur>>
          /\ open' = IF Config[cur].local_fd THEN open ELSE open \ ToClose(<<cur, 1>>)
      BY <1>9, <2>1, <2>2 DEF Report
    <3>2. \A e \in Engines : e[1] < cur \/ (e[1] = cur /\ Config[cur].local_fd) =>
            <<"device", e>> \notin open /\ <<"output", e>> \notin open
      BY <2>1 DEF CleanInv, Closing, Cleaned
    <3>3. ASSUME NEW e \in Engines, e[1] = cur, ~ Config[cur].local_fd
          PROVE  <<"device", e>> \notin open' /\ <<"output", e>> \notin open'
      <4>1. <<cur, 1>> \in Engines /\ pc[<<cur, 1>>] # "unborn"
        <5>1. <<cur, 1>> \in Engines
          BY <1>1, ConfigFacts, EngineFacts DEF Threads
        <5> QED
          BY <2>1, <5>1 DEF PhaseInv, ClosingInv, Closing
      <4>2. fd[<<cur, 1>>] = <<cur, 1>> /\ Opener(e) = <<cur, 1>>
        BY <3>3, <4>1 DEF OpenInv, Opener, Cfg
      <4>3. output_fd[cur] # 0 => output_fd[cur] = 1
        BY <1>1, <3>3 DEF OpenInv, Opener, Cfg
      <4>4. /\ <<"device", <<cur, 1>>>> \notin open'
            /\ output_fd[cur] # 0 => <<"output", <<cur, 1>>>> \notin open'
        BY <3>1, <3>3, <4>2, <4>3 DEF ToClose
      <4>5. /\ <<"device", e>> \in open' => e = <<cur, 1>>
            /\ <<"output", e>> \in open' => e = <<cur, 1>> /\ output_fd[cur] # 0
        BY <3>1, <3>3, <4>2 DEF OpenInv
      <4> QED
        BY <4>4, <4>5
    <3>4. \A e \in Engines : Cleaned(e[1])' => e[1] <= cur
      BY <1>1, <2>1, <3>1 DEF Cleaned
    <3>5. \A e \in Engines : e[1] <= cur =>
            <<"device", e>> \notin open' /\ <<"output", e>> \notin open'
      <4> SUFFICES ASSUME NEW e \in Engines, e[1] <= cur
                   PROVE  <<"device", e>> \notin open' /\ <<"output", e>> \notin open'
        OBVIOUS
      <4>1. e[1] < cur \/ e[1] = cur
        BY <1>1, <2>1
      <4>2. open' \subseteq open
        BY <3>1
      <4> QED
        BY <1>1, <3>2, <3>3, <4>1, <4>2
    <3>6. mpc' = "close" => Passed' = {} /\ ~ (idx' > 1)
      BY <2>1 DEF Passed
    <3> QED
      BY <3>4, <3>5, <3>6 DEF CleanInv
  <2> QED
    BY <1>3, <2>2
<1>10. CASE Main /\ mpc \in Closing
  <2>1. SysCallFails \/ CloseLocal \/ ComputeTotalOps("sum_total", "report") \/ Report
    BY <1>10 DEF Main, Spawn, Look, Wait, ComputeTotalOps, Quota, ChooseStats,
                 Sample, Collect, CollectCrashes, CollectEnds, Clear, Reap,
                 Join, JoinFails, At, Closing
  <2> QED
    BY <1>6, <1>7, <1>8, <1>9, <2>1
<1> QED
  BY <1>2, <1>4, <1>5, <1>10 DEF Next, Ended

-----------------------------------------------------------------------------
(* The inductive invariant *)

\* A sum of zeros.
LEMMA ZeroSum ==
  ASSUME NEW w \in Workloads, NEW f, \A e \in EnginesOf(w) : f[e] = 0
  PROVE  SumOn(f, EnginesOf(w)) = 0
<1> DEFINE S == EnginesOf(w)
           h == [s \in SUBSET S |-> 0]
<1>1. IsFiniteSet(S) /\ \A e \in S : f[e] \in Int
  BY ThreadsFinite
<1>2. Additive(h, f, S) /\ h[S] = 0
  BY DEF Additive
<1> HIDE DEF S, h
<1>3. SumOn(f, S) = h[S]
  BY <1>1, <1>2, SumOnIs
<1> QED
  BY <1>2, <1>3 DEF S

\* The parts of the invariant at the start, ...
LEMMA IInvInit == Init => IInv
<1> SUFFICES ASSUME Init PROVE IInv
  OBVIOUS
<1>1. PhaseInv
  BY PhaseInit
<1>2. \A e \in Engines : e[1] \in Workloads /\ e # NoEngine
  BY EngineFacts, ConfigFacts DEF NoEngine
<1>3. \A w \in Workloads : EnginesOf(w) \subseteq Engines
  BY EngineFacts
<1>4. WorkInv
  BY DEF Init, EngineInit, WorkInv, Pending
<1>5. \A w \in Workloads : TotalOps(w) = 0
  BY <1>3, ZeroSum DEF Init, EngineInit, TotalOps
<1>6. LatencyInv
  <2>1. ASSUME NEW w \in Workloads
        PROVE  SumOn([e \in EnginesOf(w) |-> Timed(e)], EnginesOf(w)) = 0
    <3>1. \A e \in EnginesOf(w) : Timed(e) = 0
      BY <1>3 DEF Init, EngineInit, Timed
    <3> QED
      BY <3>1, ZeroSum
  <2> QED
    BY <1>2, <2>1 DEF Init, EngineInit, LatencyInv
<1>7. LoopInv
  BY DEF Init, LoopInv
<1>8. SampleInv
  BY <1>5 DEF Init, SampleInv
<1>9. StopInv
  BY <1>2 DEF Init, EngineInit, StopInv
<1>10. ResultInv
  BY DEF Init, EngineInit, ResultInv, Printed, Closing
<1>11. OpenInv
  BY DEF Init, EngineInit, OpenInv
<1>12. CleanInv
  BY DEF Init, CleanInv, Closing
<1> QED
  BY <1>1, <1>4, <1>6, <1>7, <1>8, <1>9, <1>10, <1>11, <1>12 DEF IInv

\* ... and by the steps, each part from those before it.
LEMMA IInvNext == IInv /\ [Next]_vars => IInv'
  BY PhaseNext, WorkKept, LatencyKept, LoopKept, SampleKept, StopKept,
     ResultKept, OpenKept, CleanKept DEF IInv

\* The inductive invariant holds of every run.
THEOREM Inductive == Spec => []IInv
  BY IInvInit, IInvNext, PTL DEF Spec

-----------------------------------------------------------------------------
(* What is printed *)

\* A workload has results only when its threads have exited, and they are its
\* total.
LEMMA Final ==
  ASSUME IInv, NEW w \in Workloads, reported[w] # -1
  PROVE  /\ \A e \in EnginesOf(w) : /\ e \in Engines /\ pc[e] = "exited"
                                    /\ is_done[w]
         /\ reported[w] = TotalOps(w)
<1>1. Printed(w) /\ reported[w] = TotalOps(w)
  BY DEF IInv, ResultInv
<1>2. \A e \in Engines : pc[e] = "exited" /\ is_done[e[1]]
  BY <1>1 DEF IInv, PhaseInv, ClosingInv, StopInv, Printed
<1>3. \A e \in EnginesOf(w) : e \in Engines /\ e[1] = w
  BY EngineFacts DEF EnginesOf
<1> QED
  BY <1>1, <1>2, <1>3

\* Whatever the interleaving of the threads and of the loops that read their
\* counters: the printed total is the number of operations, and the
\* statistics hold one latency for each of them.
THEOREM ResultsAreExact == Spec => []ReportExact
<1>1. IInv => ReportExact
  <2> SUFFICES ASSUME IInv, NEW w \in Workloads, reported[w] # -1
               PROVE  /\ \A e \in EnginesOf(w) : pc[e] = "exited"
                      /\ reported[w] = TotalOps(w)
                      /\ stat_count[w] = TotalOps(w)
    BY DEF ReportExact
  <2>1. /\ \A e \in EnginesOf(w) : e \in Engines /\ pc[e] = "exited"
        /\ reported[w] = TotalOps(w)
    BY Final
  <2>2. \A e \in EnginesOf(w) : ops[e] \in Int /\ Timed(e) = ops[e]
    BY <2>1 DEF IInv, PhaseInv, TypeOK, EngineTypeOK, Timed
  <2> DEFINE f == [e \in EnginesOf(w) |-> Timed(e)]
  <2>3. stat_count[w] = SumOn(f, EnginesOf(w))
    BY DEF IInv, LatencyInv
  <2>4. \A e \in EnginesOf(w) : f[e] = ops[e]
    BY <2>2
  <2> HIDE DEF f
  <2>5. SumOn(f, EnginesOf(w)) = SumOn(ops, EnginesOf(w))
    BY <2>2, <2>4, ThreadsFinite, SumAgree
  <2> QED
    BY <2>1, <2>3, <2>5 DEF TotalOps
<1> QED
  BY <1>1, Inductive, PTL

\* The printed total exceeds the I/O done by the number of threads that met
\* the end of their region, and by no more.
THEOREM ResultsAreWork == Spec => []ReportedWork
<1>1. IInv => ReportedWork
  <2> SUFFICES ASSUME IInv, NEW w \in Workloads, reported[w] # -1
               PROVE  reported[w] = SumOn([e \in EnginesOf(w) |-> performed[e] + 1 - res[e]],
                                          EnginesOf(w))
    BY DEF ReportedWork
  <2> DEFINE f == [e \in EnginesOf(w) |-> performed[e] + 1 - res[e]]
  <2>1. /\ \A e \in EnginesOf(w) : e \in Engines /\ pc[e] = "exited"
        /\ reported[w] = SumOn(ops, EnginesOf(w))
    BY Final DEF TotalOps
  <2>2. \A e \in EnginesOf(w) : /\ ops[e] \in Int /\ performed[e] \in Int
                                /\ res[e] \in Int
                                /\ performed[e] + (1 - res[e]) = ops[e]
    <3> SUFFICES ASSUME NEW e \in EnginesOf(w)
                 PROVE  /\ ops[e] \in Int /\ performed[e] \in Int
                        /\ res[e] \in Int
                        /\ performed[e] + (1 - res[e]) = ops[e]
      OBVIOUS
    <3>1. e \in Engines /\ pc[e] = "exited"
      BY <2>1
    <3>2. ops[e] \in Int /\ performed[e] \in Int /\ res[e] \in Int
      BY <3>1 DEF IInv, PhaseInv, TypeOK, EngineTypeOK
    <3>3. performed[e] + (1 - res[e]) = ops[e] - 0
      BY <3>1 DEF IInv, WorkInv, Pending
    <3> QED
      BY <3>2, <3>3
  <2>3. \A e \in EnginesOf(w) : f[e] = ops[e]
    BY <2>2
  <2> HIDE DEF f
  <2>4. SumOn(f, EnginesOf(w)) = SumOn(ops, EnginesOf(w))
    BY <2>2, <2>3, ThreadsFinite, SumAgree
  <2> QED
    BY <2>1, <2>4 DEF f
<1> QED
  BY <1>1, Inductive, PTL

\* A volume is transferred in full before its results are printed, or a
\* thread came to the end of its region: for any block size and number of
\* threads, though main tests sums that are not snapshots.
THEOREM VolumesAreMet == Spec => []QuotaMet
<1>1. IInv => QuotaMet
  <2> SUFFICES ASSUME IInv, NEW w \in Workloads, reported[w] # -1,
                      Config[w].duration_unit = "space",
                      \A e \in EnginesOf(w) : res[e] # 0
               PROVE  Config[w].block_size * SumOn(performed, EnginesOf(w))
                        >= Config[w].duration
    BY DEF QuotaMet
  <2>1. \A e \in EnginesOf(w) : e \in Engines /\ pc[e] = "exited" /\ is_done[w]
    BY Final
  <2>2. <<w, 1>> \in EnginesOf(w)
    BY ConfigFacts DEF EnginesOf, Threads
  <2>3. Config[w].block_size * TotalOps(w) >= Config[w].duration
    BY <2>1, <2>2 DEF IInv, StopInv
  <2>4. \A e \in EnginesOf(w) : ops[e] \in Int /\ performed[e] = ops[e]
    <3> SUFFICES ASSUME NEW e \in EnginesOf(w)
                 PROVE  ops[e] \in Int /\ performed[e] = ops[e]
      OBVIOUS
    <3>1. e \in Engines /\ pc[e] = "exited"
      BY <2>1
    <3>2. ops[e] \in Int /\ performed[e] \in Int /\ res[e] = 1
      BY <3>1 DEF IInv, PhaseInv, TypeOK, EngineTypeOK
    <3>3. performed[e] + (1 - res[e]) = ops[e] - 0
      BY <3>1 DEF IInv, WorkInv, Pending
    <3> QED
      BY <3>2, <3>3
  <2>5. SumOn(performed, EnginesOf(w)) = SumOn(ops, EnginesOf(w))
    BY <2>4, ThreadsFinite, SumAgree
  <2> QED
    BY <2>3, <2>5 DEF TotalOps
<1> QED
  BY <1>1, Inductive, PTL

\* The unsigned difference of two counts never wraps.
THEOREM SamplesGoForward == Spec => SamplesForward
<1>1. IInv /\ [Next]_vars =>
        [\A w \in Workloads : last_ops_so_far'[w] >= last_ops_so_far[w]]_vars
  <2> SUFFICES ASSUME IInv, [Next]_vars, NEW w \in Workloads
               PROVE  last_ops_so_far'[w] >= last_ops_so_far[w]
    OBVIOUS
  <2>1. /\ last_ops_so_far \in [Workloads -> Nat \cup {-1}]
        /\ ops_so_far \in Nat \cup {-1}
    BY DEF IInv, PhaseInv, TypeOK
  <2>2. CASE Sample
    <3>1. /\ last_ops_so_far' = [last_ops_so_far EXCEPT ![cur] = ops_so_far]
          /\ mpc = "sample"
      BY <2>2 DEF Sample, At
    <3>2. last_ops_so_far[cur] <= ops_so_far
      BY <3>1 DEF IInv, SampleInv
    <3> QED
      BY <2>1, <3>1, <3>2
  <2>3. CASE ~ Sample
    <3>1. last_ops_so_far' = last_ops_so_far
      BY <2>3 DEF Next, Main, Spawn, SysCallFails, Look, Wait, ComputeTotalOps,
         Quota, ChooseStats, Collect, CollectCrashes, CollectEnds, Clear,
         Reap, Join, JoinFails, CloseLocal, Report, Worker, Ended, vars, mainVars
    <3> QED
      BY <2>1, <3>1
  <2> QED
    BY <2>2, <2>3
<1> QED
  BY <1>1, Inductive, PTL DEF Spec, SamplesForward

\* When main returns, everything it opened is closed.
THEOREM NothingLeaks == Spec => []NoLeak
<1>1. IInv => NoLeak
  <2> SUFFICES ASSUME IInv, status = "ok" PROVE open = {}
    BY DEF NoLeak
  <2>1. mpc = "report" /\ cur = NW /\ open \subseteq Descriptor
    BY DEF IInv, PhaseInv, TypeOK, ResultInv
  <2>2. \A e \in Engines : Cleaned(e[1])
    BY <2>1, EngineFacts, ConfigFacts DEF Cleaned
  <2>3. \A e \in Engines : <<"device", e>> \notin open /\ <<"output", e>> \notin open
    BY <2>1, <2>2 DEF IInv, CleanInv, Closing
  <2>4. ASSUME NEW d \in open PROVE FALSE
    <3>1. PICK kind \in {"device", "output"}, e \in Engines : d = <<kind, e>>
      BY <2>1 DEF Descriptor
    <3> QED
      BY <2>3, <3>1
  <2> QED
    BY <2>4
<1> QED
  BY <1>1, Inductive, PTL

\* One random workload bound by a volume and sampled does not crash: it joins
\* each thread once, and has a first operation when it divides by their count.
THEOREM VolumesDoNotCrash == LoneVolume => (Spec => []NoCrash)
<1> SUFFICES ASSUME LoneVolume PROVE Spec => []NoCrash
  OBVIOUS
<1>1. LoneRandom /\ NW = 1 /\ Config[1].duration_unit = "space"
      /\ Config[1].duration > 0 /\ Config[1].sample_step # 0
  BY DEF LoneVolume, LoneRandom
<1>2. Init => LoneInv
  BY <1>1, LoneInit
<1>3. PhaseInv /\ LoneInv /\ [Next]_vars => LoneInv'
  BY <1>1, LoneNext
<1>4. Init => NoCrash /\ mpc # "collect"
  BY DEF Init, EngineInit, NoCrash
<1>5. IInv /\ LoneInv /\ NoCrash /\ mpc # "collect" /\ [Next]_vars =>
        (NoCrash /\ mpc # "collect")'
  <2> SUFFICES ASSUME IInv, LoneInv, NoCrash, mpc # "collect", [Next]_vars
               PROVE  status' # "crash" /\ mpc' # "collect"
    BY DEF NoCrash
  <2>1. /\ cur = 1 /\ status # "crash" /\ idx \in Nat
        /\ joins \in [Engines -> 0 .. 2] /\ self \in Engines
    BY <1>1, ConfigFacts, EngineFacts
       DEF IInv, PhaseInv, TypeOK, NoCrash, self
  <2>2. CASE UNCHANGED vars
    BY <2>1, <2>2 DEF vars, engineVars, mainVars
  <2>3. ASSUME NEW e \in Engines, Worker(e)
        PROVE  status' # "crash" /\ mpc' # "collect"
    <3>1. status' \in {status, "exit"}
      BY <2>3 DEF Worker, RunBenchmark, TestDone, ClaimOp, OpRefused,
                  OpPerformed, OpFails, EnterPush, LeavePush, SetDone
    <3> QED
      BY <2>1, <2>3, <3>1 DEF Worker, mainVars
  <2>4. ~ JoinFails
    <3>1. mpc = "join" => joins[self] = 0
      BY <2>1 DEF LoneInv, Closing, self
    <3> QED
      BY <3>1 DEF JoinFails, At
  <2>5. CASE Report
    <3>1. mpc = "report" /\ \A e \in Engines : pc[e] = "exited" /\ is_done[e[1]]
      BY <2>5 DEF Report, At, IInv, PhaseInv, ClosingInv, Closing, StopInv
    <3>2. 1 \in Workloads /\ <<1, 1>> \in EnginesOf(1) /\ <<1, 1>> \in Engines
      BY <1>1, ConfigFacts, EngineFacts DEF EnginesOf, Threads
    <3>3. \A e \in EnginesOf(1) : res[e] = 1
      BY <3>2, EngineFacts DEF LoneInv
    <3>4. Config[1].block_size * TotalOps(1) >= Config[1].duration
      BY <1>1, <3>1, <3>2, <3>3 DEF IInv, StopInv
    <3>5. TotalOps(1) # 0
      <4>1. Config[1].block_size \in Nat /\ Config[1].duration \in Nat
        BY <3>2, ConfigFacts DEF ConfigType
      <4> QED
        BY <1>1, <3>4, <4>1
    <3>6. ~ PrintCrashes
      BY <2>1, <3>1, <3>5 DEF PrintCrashes, IInv, ResultInv
    <3> QED
      BY <2>1, <2>5, <3>1, <3>6 DEF Report
  <2>6. CASE Main /\ ~ Report
    <3>1. status' \in {status, "exit"}
      BY <2>1, <2>4, <2>6
         DEF Main, Spawn, SysCallFails, Look, Wait, ComputeTotalOps, Quota,
             ChooseStats, Sample, Collect, CollectCrashes, CollectEnds, Clear,
             Reap, Join, CloseLocal, CleanupIo, At, engineVars
    <3>2. mpc' # "collect"
      <4>1. CASE SysCallFails \/ CollectCrashes
        BY <4>1 DEF SysCallFails, CollectCrashes, mainVars
      <4>2. CASE Reap \/ Join
        BY <4>2 DEF Reap, Join, NextWorkload, At
      <4>3. CASE \/ Spawn \/ Look \/ Wait \/ Quota \/ ChooseStats \/ Sample
                 \/ Collect \/ CollectEnds \/ Clear \/ CloseLocal
        BY <1>1, <2>1, <4>3
           DEF Spawn, Look, LookDone, LookSpace, LookTime, LookInteractive,
               Wait, Quota, ChooseStats, Sample, Collect, CollectEnds, Clear,
               CloseLocal, NextThread, At
      <4>4. CASE \/ ComputeTotalOps("sum_quota", "quota")
                 \/ ComputeTotalOps("sum_sample", "sample")
                 \/ ComputeTotalOps("sum_total", "report")
        BY <4>4 DEF ComputeTotalOps, NextThread, At
      <4> QED
        BY <2>4, <2>6, <4>1, <4>2, <4>3, <4>4 DEF Main
    <3> QED
      BY <2>1, <3>1, <3>2
  <2> QED
    BY <2>2, <2>3, <2>5, <2>6 DEF Next, Ended
<1>6. Spec => []LoneInv
  BY <1>2, <1>3, Phases, PTL DEF Spec
<1>7. Spec => [](NoCrash /\ mpc # "collect")
  BY <1>4, <1>5, <1>6, Inductive, PTL DEF Spec
<1> QED
  BY <1>7, PTL

-----------------------------------------------------------------------------
(* The simulation implements the benchmark *)

\* The threads and the workloads are the same in both.
LEMMA SameThreads ==
  /\ B!Workload = Workloads
  /\ B!Thread = Engines
  /\ \A w \in Workloads : [v \in Workloads |-> EnginesOf(v)][w] = EnginesOf(w)
<1>1. B!Workload = Workloads
  BY ConfigFacts DEF B!Workload
<1>2. B!Thread = UNION {EnginesOf(w) : w \in Workloads}
  BY <1>1 DEF B!Thread
<1> QED
  BY <1>1, <1>2 DEF Engines, EnginesOf

\* The program starts where the benchmark does.
LEMMA SameStart == Init => B!BInit
<1> SUFFICES ASSUME Init PROVE B!BInit
  OBVIOUS
<1>1. /\ \A e \in Engines : Stage(pc[e]) = "new"
      /\ ops = [e \in Engines |-> 0]
      /\ is_done = [w \in Workloads |-> FALSE]
      /\ reported = [w \in Workloads |-> -1]
      /\ status = "running"
  BY DEF Init, EngineInit, Stage
<1> QED
  BY <1>1, SameThreads DEF B!BInit

\* A step that moves no thread between its stages, and changes no counter,
\* is_done, result or status, is none of the benchmark's.
LEMMA Stutters ==
  ASSUME UNCHANGED <<ops, is_done, reported, status>>,
         \A e \in Engines : Stage(pc'[e]) = Stage(pc[e])
  PROVE  UNCHANGED B!bvars
<1>1. [e \in Engines |-> Stage(pc[e])]' = [e \in Engines |-> Stage(pc[e])]
  BY DEF Engines, Threads, Workloads
<1> QED
  BY <1>1 DEF B!bvars

\* The process ends otherwise than by returning from main.
LEMMA Aborts ==
  ASSUME UNCHANGED <<ops, is_done, reported, pc>>, Running,
         status' \in {"exit", "crash"}
  PROVE  B!BNext
<1>1. [e \in Engines |-> Stage(pc[e])]' = [e \in Engines |-> Stage(pc[e])]
  BY DEF Engines, Threads, Workloads
<1>2. B!Abort
  BY <1>1 DEF B!Abort, Running
<1> QED
  BY <1>2 DEF B!BNext

\* A step of a thread issues an operation, leaves, aborts or is hidden.
LEMMA WorkerImplements ==
  ASSUME IInv, NEW e \in Engines, Worker(e)
  PROVE  B!BNext \/ UNCHANGED B!bvars
<1>1. /\ pc \in [Engines -> ThreadLabels] /\ is_done \in [Workloads -> BOOLEAN]
      /\ ops \in [Engines -> Nat] /\ e[1] \in Workloads /\ e \in B!Thread
      /\ Engines = UNION {{w} \X (1 .. Config[w].threads) : w \in Workloads}
      /\ UNCHANGED mainVars
  BY SameThreads, EngineFacts
     DEF IInv, PhaseInv, TypeOK, EngineTypeOK, Engines, Threads, Worker
<1>2. CASE OpFails(e)
  <2>1. UNCHANGED <<ops, is_done, reported, pc>> /\ Running /\ status' = "exit"
    BY <1>1, <1>2 DEF OpFails, mainVars
  <2> QED
    BY <2>1, Aborts
<1>3. CASE ClaimOp(e)
  <2>1. /\ Running /\ pc[e] = "claim" /\ pc' = [pc EXCEPT ![e] = "op"]
        /\ ops' = [ops EXCEPT ![e] = @ + 1]
        /\ UNCHANGED <<is_done, reported, status>>
    BY <1>1, <1>3 DEF ClaimOp, Goto, mainVars
  <2>2. [f \in Engines |-> Stage(pc[f])]' = [f \in Engines |-> Stage(pc[f])]
    BY <1>1, <2>1 DEF Stage
  <2>3. [f \in Engines |-> Stage(pc[f])][e] = "live"
    BY <2>1 DEF Stage
  <2>4. B!Issue(e)
    BY <2>1, <2>2, <2>3 DEF B!Issue, Running
  <2> QED
    BY <1>1, <2>4 DEF B!BNext
<1>4. ASSUME Running, pc[e] \in {"test", "quit"}, pc' = [pc EXCEPT ![e] = "exited"],
             is_done' = [is_done EXCEPT ![e[1]] = TRUE],
             UNCHANGED <<ops, status>>
      PROVE  B!BNext
  <2>1. [f \in Engines |-> Stage(pc[f])]'
          = [[f \in Engines |-> Stage(pc[f])] EXCEPT ![e] = "gone"]
    <3>1. \A f \in Engines : pc'[f] = IF f = e THEN "exited" ELSE pc[f]
      BY <1>1, <1>4
    <3> QED
      BY <3>1 DEF Stage, Engines, Threads, Workloads
  <2>2. [f \in Engines |-> Stage(pc[f])][e] = "live"
    BY <1>4 DEF Stage
  <2>3. B!Leave(e)
    BY <1>1, <1>4, <2>1, <2>2 DEF B!Leave, Running, mainVars
  <2> QED
    BY <1>1, <2>3 DEF B!BNext
<1>5. CASE SetDone(e)
  BY <1>4, <1>5 DEF SetDone, Goto
<1>6. CASE TestDone(e) /\ is_done[e[1]]
  <2>1. /\ Running /\ pc[e] = "test" /\ pc' = [pc EXCEPT ![e] = "exited"]
        /\ UNCHANGED <<is_done, ops, status>>
    BY <1>6 DEF TestDone, Goto
  <2>2. is_done = [is_done EXCEPT ![e[1]] = TRUE]
    BY <1>1, <1>6
  <2> QED
    BY <1>4, <2>1, <2>2
<1>7. CASE \/ TestDone(e) /\ ~ is_done[e[1]]
           \/ OpRefused(e) \/ OpPerformed(e) \/ EnterPush(e) \/ LeavePush(e)
  <2>1. /\ UNCHANGED <<ops, is_done, status>>
        /\ \E from, to \in ThreadLabels \ {"unborn", "exited"} : Goto(e, from, to)
    BY <1>7 DEF TestDone, OpRefused, OpPerformed, EnterPush, LeavePush,
                AfterPush, ThreadLabels
  <2>2. \A f \in Engines : Stage(pc'[f]) = Stage(pc[f])
    BY <1>1, <2>1 DEF Goto, Stage
  <2> QED
    BY <1>1, <2>1, <2>2, Stutters DEF mainVars
<1> QED
  BY <1>2, <1>3, <1>5, <1>6, <1>7 DEF Worker, RunBenchmark

\* A step of main starts a thread, stops a workload, publishes, aborts or is
\* hidden.
LEMMA MainImplements ==
  ASSUME IInv, Main
  PROVE  B!BNext \/ UNCHANGED B!bvars
<1>1. /\ pc \in [Engines -> ThreadLabels] /\ is_done \in [Workloads -> BOOLEAN]
      /\ reported \in [Workloads -> Nat \cup {-1}]
      /\ cur \in Workloads /\ cur \in B!Workload /\ B!Thread = Engines
      /\ Workloads = 1 .. NW /\ NW \in Nat
      /\ ops' = ops
  BY SameThreads, ConfigFacts, MainCounts
     DEF IInv, PhaseInv, TypeOK, EngineTypeOK
<1>2. ASSUME UNCHANGED <<pc, is_done, reported, status>>
      PROVE  UNCHANGED B!bvars
  BY <1>1, <1>2, Stutters
<1>3. CASE Spawn
  <2>1. /\ self \in Engines /\ pc' = [pc EXCEPT ![self] = "test"] /\ Running
        /\ UNCHANGED <<is_done, reported, status>>
    BY <1>3, EngineFacts DEF IInv, PhaseInv, TypeOK, Spawn, At, self
  <2>2. pc[self] = "unborn"
    <3>1. pc'[self] # pc[self] => pc[self] = "unborn"
      BY <1>3, <2>1, MainCounts DEF IInv, Main
    <3>2. ~ Spawned(self)
      <4>1. cur \in Nat /\ idx \in Nat /\ mpc = "spawn"
        BY <1>1, <1>3 DEF IInv, PhaseInv, TypeOK, Spawn, At
      <4> QED
        BY <4>1 DEF Spawned, self
    <3> QED
      BY <2>1, <3>2 DEF IInv, PhaseInv, BornInv
  <2>3. [e \in Engines |-> Stage(pc[e])]'
          = [[e \in Engines |-> Stage(pc[e])] EXCEPT ![self] = "live"]
    <3>1. \A e \in Engines : pc'[e] = IF e = self THEN "test" ELSE pc[e]
      BY <1>1, <2>1
    <3> QED
      BY <3>1 DEF Stage, Engines, Threads, Workloads
  <2>4. [e \in Engines |-> Stage(pc[e])][self] = "new"
    BY <2>1, <2>2 DEF Stage
  <2>5. B!Start(self)
    BY <1>1, <2>1, <2>3, <2>4 DEF B!Start, Running
  <2> QED
    BY <1>1, <2>1, <2>5 DEF B!BNext
<1>4. CASE SysCallFails \/ CollectCrashes \/ JoinFails
  <2>1. /\ UNCHANGED <<ops, is_done, reported, pc>> /\ Running
        /\ status' \in {"exit", "crash"}
    BY <1>4 DEF SysCallFails, CollectCrashes, JoinFails, At, mainVars
  <2> QED
    BY <2>1, Aborts
<1>5. CASE Look \/ Quota
  <2>1. /\ UNCHANGED <<pc, reported, status>> /\ Running
        /\ is_done' = is_done \/ is_done' = [is_done EXCEPT ![cur] = TRUE]
    BY <1>5 DEF Look, LookDone, LookSpace, LookTime, LookInteractive, Quota,
                StopIf, At
  <2>2. CASE is_done' = [is_done EXCEPT ![cur] = TRUE]
    <3>1. [e \in Engines |-> Stage(pc[e])]' = [e \in Engines |-> Stage(pc[e])]
      BY <2>1 DEF Engines, Threads, Workloads
    <3>2. B!Stop(cur)
      BY <1>1, <2>1, <2>2, <3>1 DEF B!Stop, Running
    <3> QED
      BY <1>1, <3>2 DEF B!BNext
  <2> QED
    BY <1>2, <2>1, <2>2
<1>6. CASE CloseLocal
  <2>1. /\ UNCHANGED <<pc, is_done, reported>> /\ Running
        /\ status' \in {status, "exit"}
    BY <1>6 DEF CloseLocal, CleanupIo, At
  <2> QED
    BY <1>1, <1>2, <2>1, Aborts
<1>7. CASE Report
  <2>1. /\ UNCHANGED <<pc, is_done>> /\ Running /\ mpc = "report"
        /\ ops_so_far = TotalOps(cur)
    BY <1>7 DEF Report, At, IInv, ResultInv
  <2>2. CASE status' \in {"exit", "crash"} /\ reported' = reported
    BY <1>1, <2>1, <2>2, Aborts
  <2>3. CASE /\ reported' = [reported EXCEPT ![cur] = ops_so_far]
             /\ status' = IF cur < NW THEN status ELSE "ok"
    <3>1. [e \in Engines |-> Stage(pc[e])]' = [e \in Engines |-> Stage(pc[e])]
      BY <2>1 DEF Engines, Threads, Workloads
    <3>2. /\ \A v \in 1 .. cur - 1 : reported[v] # -1
          /\ reported[cur] = -1
      <4>1. \A v \in Workloads : v < cur => reported[v] = TotalOps(v) /\ TotalOps(v) # -1
        <5>1. \A v \in Workloads : TotalOps(v) \in Nat
          <6>1. [Next]_vars
            BY DEF Next
          <6> QED
            BY <6>1, TotalGrows DEF IInv
        <5> QED
          BY <2>1, <5>1 DEF IInv, ResultInv, Printed, Closing
      <4>2. reported[cur] = -1
        BY <1>1, <2>1 DEF IInv, ResultInv, Printed, Running
      <4> QED
        BY <1>1, <4>1, <4>2
    <3>3. /\ is_done[cur]
          /\ \A e \in EnginesOf(cur) : [f \in Engines |-> Stage(pc[f])][e] = "gone"
      <4>1. \A e \in EnginesOf(cur) : e \in Engines /\ e[1] = cur
        BY <1>1, EngineFacts
      <4>2. <<cur, 1>> \in EnginesOf(cur)
        BY <1>1, ConfigFacts DEF EnginesOf, Threads
      <4>3. \A e \in EnginesOf(cur) : pc[e] = "exited" /\ is_done[e[1]]
        BY <2>1, <4>1 DEF IInv, PhaseInv, ClosingInv, Closing, StopInv
      <4> QED
        BY <4>1, <4>2, <4>3 DEF Stage
    <3>4. reported' = [reported EXCEPT ![cur] =
                         B!MapThenSumSet(LAMBDA t : ops[t],
                                         [v \in Workloads |-> EnginesOf(v)][cur])]
      BY <1>1, <2>1, <2>3
         DEF TotalOps, SumOn, MapThenSumSet, MapThenFoldSet, B!MapThenSumSet,
             B!MapThenFoldSet
    <3>5. /\ (IF status \in {"exit", "crash"} THEN "aborted" ELSE status) = "running"
          /\ (IF status' \in {"exit", "crash"} THEN "aborted" ELSE status')
               = IF cur = NW THEN "ok" ELSE "running"
      BY <1>1, <2>1, <2>3 DEF Running
    <3>6. B!Publish(cur)
      BY <1>1, <2>1, <3>1, <3>2, <3>3, <3>4, <3>5 DEF B!Publish
    <3> QED
      BY <1>1, <3>6 DEF B!BNext
  <2>4. \/ status' \in {"exit", "crash"} /\ reported' = reported
        \/ /\ reported' = [reported EXCEPT ![cur] = ops_so_far]
           /\ status' = IF cur < NW THEN status ELSE "ok"
    BY <1>7 DEF Report
  <2> QED
    BY <2>2, <2>3, <2>4
<1>8. CASE \/ Wait \/ ChooseStats \/ Sample \/ Collect \/ CollectEnds \/ Clear
           \/ Reap \/ Join \/ ComputeTotalOps("sum_quota", "quota")
           \/ ComputeTotalOps("sum_sample", "sample")
           \/ ComputeTotalOps("sum_total", "report")
  <2>1. UNCHANGED <<pc, is_done, reported, status>>
    BY <1>8 DEF Wait, ChooseStats, Sample, Collect, CollectEnds, Clear, Reap,
                Join, ComputeTotalOps, engineVars
  <2> QED
    BY <1>2, <2>1
<1> QED
  BY <1>3, <1>4, <1>5, <1>6, <1>7, <1>8 DEF Main

\* The simulation does what a benchmark promises: its results come in order,
\* once each, when the threads of the workload have left, and are exact.
THEOREM Implements == Spec => ImplementsBenchmark
<1>1. IInv /\ [Next]_vars => [B!BNext]_(B!bvars)
  <2> SUFFICES ASSUME IInv, [Next]_vars PROVE B!BNext \/ UNCHANGED B!bvars
    OBVIOUS
  <2>1. CASE UNCHANGED vars
    BY <2>1, Stutters DEF vars, engineVars, mainVars
  <2> QED
    BY <2>1, MainImplements, WorkerImplements DEF Next, Ended
<1> QED
  BY <1>1, SameStart, Inductive, PTL DEF Spec, ImplementsBenchmark, B!BSpec

=============================================================================
