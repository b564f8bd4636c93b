------------------------------- MODULE Engine -------------------------------
(***************************************************************************)
(* The synchronous engine threads: io_engine_t::run_benchmark, perform_op  *)
(* and push_latency of io_engine.cc, for every thread of every workload.   *)
(* An engine is a pair <<w, i>>: thread i of workload w.  The threads of a *)
(* workload share is_done, the latency mutex, the vector of latencies and  *)
(* the stream statistics; each has an operation counter of its own, which  *)
(* the main thread reads at any moment.                                    *)
(***************************************************************************)
EXTENDS Workload, Sequences

CONSTANTS
  Config,   \* the configurations of the workloads, in command order
  MaxOps,   \* BOUND: operations a thread starts; then it waits for is_done
  Faults    \* whether a system call may fail

ASSUME ConfigAssumption ==
  /\ Config \in Seq(ConfigType)
  /\ Config # << >>
  /\ \A w \in DOMAIN Config : Accepted(Config[w]) /\ Synchronous(Config[w])

ASSUME BoundAssumption == MaxOps \in Nat \ {0} /\ Faults \in BOOLEAN

Workloads  == 1 .. Len(Config)
Threads(w) == 1 .. Config[w].threads
Engines    == UNION {{w} \X Threads(w) : w \in Workloads}

EnginesOf(w) == {w} \X Threads(w)
Cfg(e)       == Config[e[1]]

NoEngine == <<0, 0>>     \* nobody holds the mutex; no descriptor yet

VARIABLES
  is_done,        \* ws->is_done, per workload
  ops,            \* engine->ops: operations started, per engine
  performed,      \* history: I/O calls completed, per engine
  pc,             \* where each thread stands in run_benchmark
  res,            \* the local res: what the last perform_op returned
  latency_mutex,  \* the engine that holds ws->latency_mutex
  latencies,      \* ws->latencies: a latency is named by its operation
  stat_count,     \* count of the stream statistics' global counters
  seen,           \* what a push_latency in progress has loaded
  status          \* of the process: check() ends it for all threads

engineVars == <<is_done, ops, performed, pc, res, latency_mutex, latencies,
                stat_count, seen, status>>

Running == status = "running"

\* Nothing loaded: the value of seen outside push_latency.
NotSeen == [latencies |-> << >>, count |-> 0]

EngineInit ==
  /\ is_done       = [w \in Workloads |-> FALSE]
  /\ ops           = [e \in Engines |-> 0]
  /\ performed     = [e \in Engines |-> 0]
  /\ pc            = [e \in Engines |-> "unborn"]
  /\ res           = [e \in Engines |-> 1]
  /\ latency_mutex = [w \in Workloads |-> NoEngine]
  /\ latencies     = [w \in Workloads |-> << >>]
  /\ stat_count    = [w \in Workloads |-> 0]
  /\ seen          = [e \in Engines |-> NotSeen]
  /\ status        = "running"

Goto(e, from, to) ==
  /\ Running
  /\ pc[e] = from
  /\ pc' = [pc EXCEPT ![e] = to]

-----------------------------------------------------------------------------
\* Before its first test the thread allocates its buffer, and checks that.
Allocated(e) == ops[e] = 0 => Alignable(Cfg(e))

\* while(!(*is_done)): leave the loop, or go for another operation.
TestDone(e) ==
  /\ Allocated(e)
  /\ \/ is_done[e[1]] /\ Goto(e, "test", "exited")
     \/ ~ is_done[e[1]] /\ ops[e] < MaxOps /\ Goto(e, "test", "claim")
  /\ UNCHANGED <<is_done, ops, performed, res, latency_mutex, latencies,
                 stat_count, seen, status>>

\* _ops = __sync_fetch_and_add(&ops, 1)
ClaimOp(e) ==
  /\ Goto(e, "claim", "op")
  /\ ops' = [ops EXCEPT ![e] = @ + 1]
  /\ UNCHANGED <<is_done, performed, res, latency_mutex, latencies,
                 stat_count, seen, status>>

\* Only the stateful engine implements trim; the others fail a check.
CanPerform(c) == c.operation = "trim" => c.io_type = "stateful"

\* Mutant: the region is tested after the I/O.
OpRefusedLate(e) ==
  /\ Goto(e, "op", "lock")
  /\ \E r \in Draws(Cfg(e)) :
       \/ IsDone(PrepareOffset(ops[e] - 1, r, Cfg(e)), Cfg(e))
       \/ Cfg(e).duration_unit = "interactive"
  /\ performed' = [performed EXCEPT ![e] = @ + 1]
  /\ res' = [res EXCEPT ![e] = 0]
  /\ UNCHANGED <<is_done, ops, latency_mutex, latencies, stat_count, seen,
                 status>>

\* perform_op returns 0: past the region, or the user quits.
OpRefused(e) ==
  /\ Goto(e, "op", "lock")
  /\ \E r \in Draws(Cfg(e)) :
       \/ IsDone(PrepareOffset(ops[e] - 1, r, Cfg(e)), Cfg(e))
       \/ Cfg(e).duration_unit = "interactive"
  /\ res' = [res EXCEPT ![e] = 0]
  /\ UNCHANGED <<is_done, ops, performed, latency_mutex, latencies,
                 stat_count, seen, status>>

\* perform_op does the I/O and returns 1.
OpPerformed(e) ==
  /\ Goto(e, "op", "lock")
  /\ CanPerform(Cfg(e))
  /\ \E r \in Draws(Cfg(e)) :
       ~ IsDone(PrepareOffset(ops[e] - 1, r, Cfg(e)), Cfg(e))
  /\ performed' = [performed EXCEPT ![e] = @ + 1]
  /\ res' = [res EXCEPT ![e] = 1]
  /\ UNCHANGED <<is_done, ops, latency_mutex, latencies, stat_count, seen,
                 status>>

\* The buffer or the random generator is not allocated; the I/O fails a check,
\* or faults on a mapping: each ends the process.
OpFails(e) ==
  /\ Running
  /\ \/ pc[e] = "test" /\ ops[e] = 0 /\ (Faults \/ ~ Allocated(e))
     \/ /\ pc[e] = "op"
        /\ Faults \/ ~ CanPerform(Cfg(e))
        /\ \E r \in Draws(Cfg(e)) :
             ~ IsDone(PrepareOffset(ops[e] - 1, r, Cfg(e)), Cfg(e))
  /\ status' = "exit"
  /\ UNCHANGED <<is_done, ops, performed, pc, res, latency_mutex, latencies,
                 stat_count, seen>>

\* pthread_mutex_lock returns.  Mutant: push_latency takes no lock.
MutexIgnored(w) == TRUE
MutexFree(w)    == latency_mutex[w] = NoEngine

\* pthread_mutex_unlock.  Mutant: push_latency returns with the lock held.
StillLocked(w) == latency_mutex
Unlocked(w)    == [latency_mutex EXCEPT ![w] = NoEngine]

\* Where run_benchmark goes after push_latency: it tests what perform_op
\* returned, then is_done.  Mutant: it starts another operation first.
ThenAnother(e) == IF res[e] = 0 THEN "quit" ELSE "claim"
AfterPush(e)   == IF res[e] = 0 THEN "quit" ELSE "test"

\* push_latency: lock the mutex, then push_back and add begin by loading the
\* end of the vector and the count.
EnterPush(e) ==
  /\ Goto(e, "lock", "push")
  /\ MutexFree(e[1])
  /\ latency_mutex' = [latency_mutex EXCEPT ![e[1]] = e]
  /\ seen' = [seen EXCEPT ![e] =
                [latencies |-> IF Cfg(e).sample_step = 0
                                 THEN latencies[e[1]] ELSE << >>,
                 count     |-> stat_count[e[1]]]]
  /\ UNCHANGED <<is_done, ops, performed, res, latencies, stat_count, status>>

\* ... and end by storing them; unlock.  A clear() of the vector since
\* EnterPush is undone.
LeavePush(e) ==
  /\ Goto(e, "push", AfterPush(e))
  /\ latencies' = [latencies EXCEPT ![e[1]] =
                     IF Cfg(e).sample_step = 0
                       THEN Append(seen[e].latencies, <<e[2], ops[e]>>)
                       ELSE @]
  /\ stat_count' = [stat_count EXCEPT ![e[1]] = seen[e].count + 1]
  /\ latency_mutex' = Unlocked(e[1])
  /\ seen' = [seen EXCEPT ![e] = NotSeen]
  /\ UNCHANGED <<is_done, ops, performed, res, status>>

\* *is_done = 1; goto done: the thread ends the workload for all of them.
SetDone(e) ==
  /\ Goto(e, "quit", "exited")
  /\ is_done' = [is_done EXCEPT ![e[1]] = TRUE]
  /\ UNCHANGED <<ops, performed, res, latency_mutex, latencies, stat_count,
                 seen, status>>

RunBenchmark(e) ==
  \/ TestDone(e)
  \/ ClaimOp(e)
  \/ OpRefused(e)
  \/ OpPerformed(e)
  \/ OpFails(e)
  \/ EnterPush(e)
  \/ LeavePush(e)
  \/ SetDone(e)

-----------------------------------------------------------------------------
ThreadLabels == {"unborn", "test", "claim", "op", "lock", "push", "quit",
                 "exited"}

EngineTypeOK ==
  /\ is_done       \in [Workloads -> BOOLEAN]
  /\ ops           \in [Engines -> Nat]
  /\ performed     \in [Engines -> Nat]
  /\ pc            \in [Engines -> ThreadLabels]
  /\ res           \in [Engines -> {0, 1}]
  /\ latency_mutex \in [Workloads -> Engines \cup {NoEngine}]
  /\ latencies     \in [Workloads -> Seq(Nat \X Nat)]
  /\ stat_count    \in [Workloads -> Nat]
  /\ seen          \in [Engines -> [latencies : Seq(Nat \X Nat), count : Nat]]
  /\ status        \in {"running", "ok", "exit", "crash"}
=============================================================================
