----------------------------- MODULE Simulation -----------------------------
(***************************************************************************)
(* The main thread over the engine threads: start_simulations,             *)
(* stop_simulations and compute_stats of rebench.cc, with setup_io and     *)
(* cleanup_io of simulation.cc.  Main walks the workloads in order, again  *)
(* and again, until in one whole pass it found each of them done; cur and  *)
(* idx are its loop variables.  Clock readings are left out: whether a     *)
(* sample is due is a free choice, and a duration in seconds is counted in *)
(* polls of the loop, as the code counts it.                               *)
(***************************************************************************)
EXTENDS Engine, Sums

CONSTANT PollsPerSec     \* the 200 of total_slept / 200.0f

ASSUME PollsAssumption == PollsPerSec \in Nat \ {0}

VARIABLES
  mpc,           \* where the main thread stands
  cur, idx,      \* the workload and the thread its loops are at
  all_done,      \* local of stop_simulations: this pass found no one running
  total_slept,   \* polls so far, saturated at the longest duration
  ops_so_far,    \* -1, or what compute_total_ops counted in this visit
  last_ops_so_far,  \* ws->last_ops_so_far: the count at the last sample
  collected,     \* history: the latencies added to sum_latency, in order
  fd,            \* engine->fd, named by the engine whose setup_io opened it
  output_fd,     \* ws->output_fd, named likewise; 0 is the code's -1
  open,          \* the descriptors that are open
  joins,         \* history: pthread_joins of each thread, saturated at 2
  reported       \* what print_stats was given as ops; -1 before

mainVars == <<mpc, cur, idx, all_done, total_slept, ops_so_far,
              last_ops_so_far, collected, fd, output_fd, open, joins, reported>>
vars == <<engineVars, mainVars>>

NW == Len(Config)
LongestTime ==
  LET Polls(w) == IF Config[w].duration_unit = "time"
                    THEN Config[w].duration * PollsPerSec ELSE 0
      longest  == CHOOSE w \in Workloads :
                    \A v \in Workloads : Polls(v) <= Polls(w)
  IN  Polls(longest)

Descriptor == {"device", "output"} \X Engines

\* The latency main reads from a vector whose storage a push_back frees.
Garbage == <<0, 0>>

Init ==
  /\ EngineInit
  /\ mpc = "spawn" /\ cur = 1 /\ idx = 1
  /\ all_done = TRUE
  /\ total_slept = 0
  /\ ops_so_far = -1
  /\ last_ops_so_far = [w \in Workloads |-> 0]
  /\ collected = [w \in Workloads |-> << >>]
  /\ fd = [e \in Engines |-> NoEngine]
  /\ output_fd = [w \in Workloads |-> 0]
  /\ open = {}
  /\ joins = [e \in Engines |-> 0]
  /\ reported = [w \in Workloads |-> -1]

\* Main is at a label and the process runs.
At(label) == Running /\ mpc = label

\* Mutant: the loop runs up to i = threads.
NextThreadLate(after) ==
  IF idx <= Config[cur].threads
    THEN idx' = idx + 1 /\ UNCHANGED mpc
    ELSE idx' = 1 /\ mpc' = after

\* The loop `for i in 0 .. threads - 1` over the threads of cur: the next
\* iteration, or on to `after` from the last one.
NextThread(after) ==
  IF idx < Config[cur].threads
    THEN idx' = idx + 1 /\ UNCHANGED mpc
    ELSE idx' = 1 /\ mpc' = after

self == <<cur, idx>>     \* the engine main's loop is at

-----------------------------------------------------------------------------
(* start_simulations *)

\* setup_io: open the device and, if one is named, the output file.
SetupIo(e) ==
  /\ fd' = [fd EXCEPT ![e] = e]
  /\ open' = open \cup {<<"device", e>>} \cup
       (IF Cfg(e).output THEN {<<"output", e>>} ELSE {})
  /\ output_fd' = [output_fd EXCEPT ![e[1]] = IF Cfg(e).output THEN e[2] ELSE @]

CopyIoState(e, first) ==
  /\ fd' = [fd EXCEPT ![e] = fd[first]]
  /\ UNCHANGED <<open, output_fd>>

\* One iteration: setup_io, or copy_io_state from the first engine; then
\* pthread_create.  The threads run from here on, while main goes on.
Spawn ==
  /\ At("spawn")
  /\ IF Config[cur].local_fd \/ idx = 1 THEN SetupIo(self)
                                       ELSE CopyIoState(self, <<cur, 1>>)
  /\ pc' = [pc EXCEPT ![self] = "test"]
  /\ IF idx < Config[cur].threads
       THEN idx' = idx + 1 /\ UNCHANGED <<mpc, cur>>
       ELSE /\ idx' = 1
            /\ IF cur < NW THEN cur' = cur + 1 /\ UNCHANGED mpc
                           ELSE cur' = 1 /\ mpc' = "look"
  /\ UNCHANGED <<is_done, ops, performed, res, latency_mutex, latencies,
                 stat_count, seen, status, all_done, total_slept, ops_so_far,
                 last_ops_so_far, collected, joins, reported>>

-----------------------------------------------------------------------------
(* stop_simulations *)

\* total_slept / 200.0f >= ws->config.duration
TimeIsUp(c) == total_slept >= c.duration * PollsPerSec

\* Mutant: a workload that is not told to stop leaves the pass as it was.
StopIfOnly(reached) ==
  /\ is_done' = [is_done EXCEPT ![cur] = @ \/ reached]
  /\ UNCHANGED all_done

\* ws->is_done = true, or else all_done = false
StopIf(reached) ==
  IF reached
    THEN is_done' = [is_done EXCEPT ![cur] = TRUE] /\ UNCHANGED all_done
    ELSE all_done' = FALSE /\ UNCHANGED is_done

\* if(!ws->is_done), and then the unit of the duration.
LookDone ==
  /\ is_done[cur]
  /\ mpc' = "stats" /\ UNCHANGED <<is_done, all_done, ops_so_far>>

LookSpace ==
  /\ ~ is_done[cur] /\ Config[cur].duration_unit = "space"
  /\ mpc' = "sum_quota" /\ ops_so_far' = 0
  /\ UNCHANGED <<is_done, all_done>>

LookTime ==
  /\ ~ is_done[cur] /\ Config[cur].duration_unit = "time"
  /\ mpc' = "stats"
  /\ StopIf(TimeIsUp(Config[cur]))
  /\ UNCHANGED ops_so_far

\* Mutant: all_done = false before the wait, as for the other units.
LookInteractiveAgain ==
  /\ ~ is_done[cur] /\ Config[cur].duration_unit = "interactive"
  /\ mpc' = "wait" /\ all_done' = FALSE /\ UNCHANGED <<is_done, ops_so_far>>

LookInteractive ==
  /\ ~ is_done[cur] /\ Config[cur].duration_unit = "interactive"
  /\ mpc' = "wait" /\ UNCHANGED <<is_done, all_done, ops_so_far>>

Look ==
  /\ At("look")
  /\ LookDone \/ LookSpace \/ LookTime \/ LookInteractive
  /\ UNCHANGED <<ops, performed, pc, res, latency_mutex, latencies, stat_count,
                 seen, status, cur, idx, total_slept, last_ops_so_far,
                 collected, fd, output_fd, open, joins, reported>>

\* Interactive: while(!ws->is_done) usleep(5000).
Wait ==
  /\ At("wait")
  /\ is_done[cur]
  /\ mpc' = "stats"
  /\ UNCHANGED <<engineVars, cur, idx, all_done, total_slept, ops_so_far,
                 last_ops_so_far, collected, fd, output_fd, open, joins,
                 reported>>

\* compute_total_ops: the counters are read one by one as the threads run.
ComputeTotalOps(label, after) ==
  /\ At(label)
  /\ ops_so_far' = ops_so_far + ops[self]
  /\ NextThread(after)
  /\ UNCHANGED <<engineVars, cur, all_done, total_slept, last_ops_so_far,
                 collected, fd, output_fd, open, joins, reported>>

\* total_bytes >= ws->config.duration.  Mutants: the operation in progress
\* is counted as well; the comparison the wrong way; equality.
QuotaNear    == (ops_so_far + 1) * Config[cur].block_size >= Config[cur].duration
QuotaBelow   == ops_so_far * Config[cur].block_size <= Config[cur].duration
QuotaExactly == ops_so_far * Config[cur].block_size = Config[cur].duration
QuotaReached == ops_so_far * Config[cur].block_size >= Config[cur].duration

Quota ==
  /\ At("quota")
  /\ StopIf(QuotaReached)
  /\ mpc' = "stats"
  /\ UNCHANGED <<ops, performed, pc, res, latency_mutex, latencies, stat_count,
                 seen, status, cur, idx, total_slept, ops_so_far,
                 last_ops_so_far, collected, fd, output_fd, open, joins,
                 reported>>

\* Latencies if the sample step is zero; otherwise a sample, if one is due
\* and with a count of the operations if none was made in this visit.
ChooseStats ==
  /\ At("stats")
  /\ \/ /\ Config[cur].sample_step = 0
        /\ mpc' = "collect" /\ UNCHANGED ops_so_far
     \/ /\ Config[cur].sample_step # 0
        /\ \/ mpc' = "reap" /\ UNCHANGED ops_so_far
           \/ /\ ops_so_far = -1
              /\ mpc' = "sum_sample" /\ ops_so_far' = 0
           \/ /\ ops_so_far # -1
              /\ mpc' = "sample" /\ UNCHANGED ops_so_far
  /\ UNCHANGED <<engineVars, cur, idx, all_done, total_slept, last_ops_so_far,
                 collected, fd, output_fd, open, joins, reported>>

\* ws->last_ops_so_far = ops_so_far
Sample ==
  /\ At("sample")
  /\ last_ops_so_far' = [last_ops_so_far EXCEPT ![cur] = ops_so_far]
  /\ mpc' = "reap"
  /\ UNCHANGED <<engineVars, cur, idx, all_done, total_slept, ops_so_far,
                 collected, fd, output_fd, open, joins, reported>>

\* One latency: main takes no lock, so that a push_back in progress may have
\* moved the storage under it.  idx is the loop's i, plus 1.
Collect ==
  /\ At("collect")
  /\ idx <= Len(latencies[cur])
  /\ \E x \in {latencies[cur][idx]} \cup
              (IF latency_mutex[cur] # NoEngine THEN {Garbage} ELSE {}) :
       collected' = [collected EXCEPT ![cur] = Append(@, x)]
  /\ idx' = idx + 1
  /\ UNCHANGED <<engineVars, mpc, cur, all_done, total_slept, ops_so_far,
                 last_ops_so_far, fd, output_fd, open, joins, reported>>

\* The moved storage is unmapped: the read faults.
CollectCrashes ==
  /\ At("collect")
  /\ latency_mutex[cur] # NoEngine
  /\ status' = "crash"
  /\ UNCHANGED <<is_done, ops, performed, pc, res, latency_mutex, latencies,
                 stat_count, seen, mainVars>>

\* i reached latencies.size()
CollectEnds ==
  /\ At("collect")
  /\ idx > Len(latencies[cur])
  /\ mpc' = "clear"
  /\ idx' = 1
  /\ UNCHANGED <<engineVars, cur, all_done, total_slept, ops_so_far,
                 last_ops_so_far, collected, fd, output_fd, open, joins,
                 reported>>

\* ws->latencies.clear()
Clear ==
  /\ At("clear")
  /\ latencies' = [latencies EXCEPT ![cur] = << >>]
  /\ mpc' = "reap"
  /\ UNCHANGED <<is_done, ops, performed, pc, res, latency_mutex, stat_count,
                 seen, status, cur, idx, all_done, total_slept, ops_so_far,
                 last_ops_so_far, collected, fd, output_fd, open, joins,
                 reported>>

\* while(!all_done).  Mutant: the loop looks at the last workload alone.
LastIsDone == is_done[cur]
PassEnds   == all_done

\* total_slept += 5000.  Mutant: it is not.
SleptUncounted == total_slept
Slept == IF total_slept < LongestTime THEN total_slept + 1 ELSE total_slept

\* A visit starts without a count, ops_so_far = -1.  Mutant: with the count
\* of the visit before it.
OldCount == ops_so_far
NoCount  == -1

\* The end of a visit: the next workload; or the end of the pass, which ends
\* the loop or sleeps before another pass.
NextWorkload ==
  /\ idx' = 1
  /\ ops_so_far' = NoCount
  /\ IF cur < NW
       THEN /\ cur' = cur + 1 /\ mpc' = "look"
            /\ UNCHANGED <<all_done, total_slept>>
       ELSE /\ cur' = 1
            /\ all_done' = TRUE
            /\ IF PassEnds
                 THEN mpc' = "close" /\ UNCHANGED total_slept
                 ELSE mpc' = "look"  /\ total_slept' = Slept

\* if(ws->is_done), read again: join the threads, or end the visit.
Reap ==
  /\ At("reap")
  /\ IF is_done[cur]
       THEN /\ mpc' = "join" /\ idx' = 1
            /\ UNCHANGED <<cur, all_done, total_slept, ops_so_far>>
       ELSE NextWorkload
  /\ UNCHANGED <<engineVars, last_ops_so_far, collected, fd, output_fd, open,
                 joins, reported>>

\* pthread_join returns 0: it waited for the thread; or the thread was joined
\* before, which is undefined and may go unnoticed.
Join ==
  /\ At("join")
  /\ pc[self] = "exited"
  /\ joins' = [joins EXCEPT ![self] = IF @ < 2 THEN @ + 1 ELSE @]
  /\ IF idx < Config[cur].threads
       THEN /\ idx' = idx + 1
            /\ UNCHANGED <<mpc, cur, all_done, total_slept, ops_so_far>>
       ELSE NextWorkload
  /\ UNCHANGED <<engineVars, last_ops_so_far, collected, fd, output_fd, open,
                 reported>>

\* pthread_join of a thread joined before reports an error, which a check
\* turns into the end of the process, or reads a stack that is unmapped.
JoinFails ==
  /\ At("join")
  /\ joins[self] > 0
  /\ joins' = [joins EXCEPT ![self] = 2]
  /\ status' \in {"exit", "crash"}
  /\ UNCHANGED <<is_done, ops, performed, pc, res, latency_mutex, latencies,
                 stat_count, seen, mpc, cur, idx, all_done, total_slept,
                 ops_so_far, last_ops_so_far, collected, fd, output_fd, open,
                 reported>>

-----------------------------------------------------------------------------
(* compute_stats *)

\* Mutant: cleanup_io forgets the output file.
ToCloseDevice(e) == {<<"device", fd[e]>>}

\* cleanup_io: close the engine's descriptor and the output file, each close
\* checked.
ToClose(e) ==
  {<<"device", fd[e]>>} \cup
  (IF output_fd[e[1]] = 0 THEN {} ELSE {<<"output", <<e[1], output_fd[e[1]]>>>>})

CleanupIo(e) ==
  /\ open' = open \ ToClose(e)
  /\ status' = IF ToClose(e) \subseteq open THEN status ELSE "exit"

\* compute_total_ops: total_ops = 0.  Mutant: the total runs on from one
\* workload to the next.
RunningTotal == IF cur = 1 THEN 0 ELSE ops_so_far
FreshTotal   == 0

\* The loop that cleans up local descriptors; then compute_total_ops again.
CloseLocal ==
  /\ At("close")
  /\ IF Config[cur].local_fd
       THEN CleanupIo(self) /\ NextThread("sum_total")
       ELSE mpc' = "sum_total" /\ UNCHANGED <<open, status, idx>>
  /\ ops_so_far' = FreshTotal
  /\ UNCHANGED <<is_done, ops, performed, pc, res, latency_mutex, latencies,
                 stat_count, seen, cur, all_done, total_slept,
                 last_ops_so_far, collected, fd, output_fd, joins, reported>>

\* print_stats, unless interactive, divides the latency by the operations.
PrintCrashes == ops_so_far = 0 /\ Config[cur].duration_unit # "interactive"

\* A shared descriptor's clean-up, the results; then the next workload or the
\* end of main.
Report ==
  /\ At("report")
  /\ IF Config[cur].local_fd
       THEN UNCHANGED open
       ELSE open' = open \ ToClose(<<cur, 1>>)
  /\ IF ~ Config[cur].local_fd /\ ~ ToClose(<<cur, 1>>) \subseteq open
       THEN status' = "exit" /\ UNCHANGED <<mpc, cur, reported>>
       ELSE IF PrintCrashes
         THEN status' = "crash" /\ UNCHANGED <<mpc, cur, reported>>
         ELSE /\ reported' = [reported EXCEPT ![cur] = ops_so_far]
              /\ IF cur < NW
                   THEN cur' = cur + 1 /\ mpc' = "close" /\ UNCHANGED status
                   ELSE status' = "ok" /\ UNCHANGED <<mpc, cur>>
  /\ idx' = 1
  /\ UNCHANGED <<is_done, ops, performed, pc, res, latency_mutex, latencies,
                 stat_count, seen, all_done, total_slept, ops_so_far,
                 last_ops_so_far, collected, fd, output_fd, joins>>

-----------------------------------------------------------------------------
\* The system calls main checks: open and pthread_create, the writes to the
\* output file, close.  One that fails ends the process.
MayFail ==
  \/ mpc = "spawn"
  \/ mpc \in {"collect", "clear", "sample"} /\ Config[cur].output
  \/ mpc = "close"  /\ Config[cur].local_fd
  \/ mpc = "report" /\ ~ Config[cur].local_fd

SysCallFails ==
  /\ Running /\ Faults /\ MayFail
  /\ status' = "exit"
  /\ UNCHANGED <<is_done, ops, performed, pc, res, latency_mutex, latencies,
                 stat_count, seen, mainVars>>

-----------------------------------------------------------------------------
Main ==
  \/ Spawn \/ SysCallFails
  \/ Look \/ Wait
  \/ ComputeTotalOps("sum_quota", "quota") \/ Quota
  \/ ChooseStats
  \/ ComputeTotalOps("sum_sample", "sample") \/ Sample
  \/ Collect \/ CollectCrashes \/ CollectEnds \/ Clear
  \/ Reap \/ Join \/ JoinFails
  \/ CloseLocal \/ ComputeTotalOps("sum_total", "report") \/ Report

Worker(e) == RunBenchmark(e) /\ UNCHANGED mainVars

\* The process is gone.
Ended == ~ Running /\ UNCHANGED vars

Next == Main \/ (\E e \in Engines : Worker(e)) \/ Ended

\* The kernel schedules every thread, and no user or device is needed for the
\* steps of a thread: perform_op returns.
Fairness == WF_vars(Main) /\ \A e \in Engines : WF_vars(Worker(e))

Spec == Init /\ [][Next]_vars
FairSpec == Spec /\ Fairness

-----------------------------------------------------------------------------
(* Properties *)

MainLabels ==
  {"spawn", "look", "wait", "sum_quota", "quota", "stats", "sum_sample",
   "sample", "collect", "clear", "reap", "join", "close", "sum_total",
   "report"}

\* Every variable holds a value the C++ variable it stands for can hold; the
\* loop variables stay inside the workloads and their threads (collect's idx
\* runs over a vector instead).
TypeOK ==
  /\ EngineTypeOK
  /\ mpc \in MainLabels
  /\ cur \in Workloads
  /\ idx \in Nat \ {0}
  /\ mpc # "collect" => idx \in Threads(cur)
  /\ all_done \in BOOLEAN
  /\ total_slept \in Nat
  /\ ops_so_far \in Nat \cup {-1}
  /\ last_ops_so_far \in [Workloads -> Nat \cup {-1}]
  /\ collected \in [Workloads -> Seq(Nat \X Nat)]
  /\ fd \in [Engines -> Engines \cup {NoEngine}]
  /\ output_fd \in [Workloads -> Nat]
  /\ open \in SUBSET Descriptor
  /\ joins \in [Engines -> 0 .. 2]
  /\ reported \in [Workloads -> Nat \cup {-1}]

\* A thread inside perform_op has its descriptor open: main closes descriptors
\* (compute_stats) only after no thread can be doing I/O on them, whether
\* they are shared or local (io_engine.cc:55, simulation.cc:44).
FdOpenInUse ==
  \A e \in Engines : Running /\ pc[e] = "op" => <<"device", fd[e]>> \in open

\* The operations that the threads of w have counted.
TotalOps(w) == SumOn(ops, EnginesOf(w))

\* The results of a workload are final: once they are printed its threads
\* have exited, the printed total is still the sum of the counters, and the
\* statistics have counted exactly one latency per operation, none lost
\* between threads that push at the same time (io_engine.cc:115).
ReportExact ==
  \A w \in Workloads : reported[w] # -1 =>
    /\ \A e \in EnginesOf(w) : pc[e] = "exited"
    /\ reported[w] = TotalOps(w)
    /\ stat_count[w] = TotalOps(w)

\* The printed total is the I/O really done, plus one for each thread that
\* stopped at the end of its region: run_benchmark counts the operation that
\* perform_op refused (io_engine.cc:48-64).
ReportedWork ==
  \A w \in Workloads : reported[w] # -1 =>
    reported[w] = SumOn([e \in EnginesOf(w) |-> performed[e] + 1 - res[e]],
                        EnginesOf(w))

\* A workload with a duration in bytes has transferred that many when its
\* results are printed, unless a thread came to the end of the region, though
\* main compares the duration with operations started, not completed, and
\* reads the counters one by one (rebench.cc:128-135).
QuotaMet ==
  \A w \in Workloads :
    reported[w] # -1 /\ Config[w].duration_unit = "space" =>
      \/ Config[w].block_size * SumOn(performed, EnginesOf(w))
           >= Config[w].duration
      \/ \E e \in EnginesOf(w) : res[e] = 0

\* The difference ops_so_far - last_ops_so_far, computed without sign at
\* rebench.cc:195, never wraps: though the counts it subtracts are not
\* snapshots, each is at least the one before it.
SamplesForward ==
  [][\A w \in Workloads : last_ops_so_far'[w] >= last_ops_so_far[w]]_vars

\* is_done is final, and stops each thread before its next operation: a
\* thread that has not passed the loop's test by then starts none
\* (io_engine.cc:47-48).
StopsPromptly ==
  [][\A e \in Engines : is_done[e[1]] /\ pc[e] # "claim" =>
       is_done'[e[1]] /\ pc'[e] # "claim" /\ ops'[e] = ops[e]]_vars

\* Each thread is joined once (rebench.cc:222-226).
JoinOnce == \A e \in Engines : joins[e] <= 1

\* No division by a count of zero in print_stats (simulation.cc:71), no read
\* of storage that a push_back has freed, no second join.
NoCrash == status # "crash"

\* When no system call fails, none of the checks main makes of its own calls
\* ends the process: above all, cleanup_io closes what is open
\* (simulation.cc:45-50).
ChecksHold == status # "exit"

\* Every descriptor main opened is closed when it returns from main.
NoLeak == status = "ok" => open = {}

\* With a zero sample step every operation's latency enters the statistics
\* (README.md:99, "reports latency of every operation").
LatencyOfEveryOp ==
  \A w \in Workloads :
    reported[w] # -1 /\ Config[w].sample_step = 0 =>
      \A e \in EnginesOf(w) : \A n \in 1 .. ops[e] :
        \E k \in DOMAIN collected[w] : collected[w][k] = <<e[2], n>>

\* A stopped workload's threads all exit: no thread is left waiting for the
\* latency mutex, unless the process ends first.
StopsAll ==
  \A w \in Workloads :
    is_done[w] ~> (\A e \in EnginesOf(w) : pc[e] = "exited") \/ ~ Running

\* The program ends, and when every workload is bound by its volume, with its
\* results printed.
Terminates == <>(~ Running)
ReturnsOk  == <>(status = "ok")

-----------------------------------------------------------------------------
(***************************************************************************)
(* Why FdOpenInUse holds: main closes nothing before the pass that found   *)
(* all the workloads done, and when it passes a workload by with all_done  *)
(* still set it has joined all its threads.                                *)
(***************************************************************************)
Closing  == {"close", "sum_total", "report"}
Deciding == {"look", "wait", "sum_quota", "quota"}
Visiting == {"stats", "sum_sample", "sample", "collect", "clear", "reap", "join"}

\* start_simulations has come to e.
Spawned(e) == mpc = "spawn" => e[1] < cur \/ (e[1] = cur /\ e[2] < idx)

\* The threads that run are the ones main has created.
BornInv == \A e \in Engines : pc[e] # "unborn" <=> Spawned(e)

\* A thread's descriptor is open from its creation until the cleaning up.
DescriptorInv ==
  mpc \notin Closing =>
    \A e \in Engines : pc[e] # "unborn" => <<"device", fd[e]>> \in open

\* all_done stands for what main has found in this pass: the workload it is
\* at is done once it has been looked at, ...
FoundInv == mpc \in Visiting /\ all_done => is_done[cur]

\* ... the threads before idx have been joined, ...
JoinInv ==
  mpc = "join" => \A e \in EnginesOf(cur) : e[2] < idx => pc[e] = "exited"

\* ... and so have those of the workloads before it.
PassInv ==
  mpc \in Deciding \cup Visiting /\ all_done =>
    \A e \in Engines : e[1] < cur => pc[e] = "exited"

ClosingInv == mpc \in Closing => \A e \in Engines : pc[e] = "exited"

PhaseInv == /\ TypeOK
            /\ BornInv
            /\ DescriptorInv
            /\ FoundInv
            /\ JoinInv
            /\ PassInv
            /\ ClosingInv

(***************************************************************************)
(* Why the numbers are right.  A count that main adds up is between the    *)
(* counters as they were and as they are, and exact once they rest.        *)
(***************************************************************************)
Pending(e) == IF pc[e] = "op" THEN 1 ELSE 0

\* An operation is counted, then performed or refused; a thread that was
\* refused one begins no other.
WorkInv ==
  \A e \in Engines :
    /\ performed[e] + (1 - res[e]) = ops[e] - Pending(e)
    /\ res[e] = 0 => pc[e] \in {"lock", "push", "quit", "exited"}
    /\ pc[e] = "quit" => res[e] = 0

\* The operations of e whose latency is in the statistics.
Timed(e) == ops[e] - (IF pc[e] \in {"op", "lock", "push"} THEN 1 ELSE 0)

\* The statistics hold one latency per operation: the thread that adds one
\* has the mutex, and the count it has loaded is the one it will replace.
LatencyInv ==
  /\ \A w \in Workloads :
       stat_count[w] = SumOn([e \in EnginesOf(w) |-> Timed(e)], EnginesOf(w))
  /\ \A e \in Engines :
       /\ pc[e] = "push" <=> latency_mutex[e[1]] = e
       /\ pc[e] = "push" => seen[e].count = stat_count[e[1]]

\* A loop over the threads of cur starts at the first one.
LoopInv ==
  (\/ mpc \in {"look", "wait", "quota", "stats"}
   \/ mpc = "close" /\ ~ Config[cur].local_fd) => idx = 1

\* The threads of cur that main's loop has passed, and those ahead of it.
Passed == {cur} \X (1 .. idx - 1)
Ahead  == {cur} \X (idx .. Config[cur].threads)

\* What a visit has counted is no more than the threads have done, and no
\* less than the count at the last sample.
SampleInv ==
  /\ \A w \in Workloads : last_ops_so_far[w] <= TotalOps(w)
  /\ mpc \in {"spawn", "look", "wait"} => ops_so_far = -1
  /\ mpc \in {"sum_quota", "sum_sample"} =>
       /\ ops_so_far \in Nat
       /\ ops_so_far <= SumOn(ops, Passed)
       /\ last_ops_so_far[cur] <= ops_so_far + SumOn(ops, Ahead)
  /\ mpc \in {"quota", "sample"} => ops_so_far \in Nat
  /\ mpc \in {"quota", "stats", "sample"} /\ ops_so_far # -1 =>
       last_ops_so_far[cur] <= ops_so_far /\ ops_so_far <= TotalOps(cur)

\* A workload stops for one of its reasons: the volume it was given has been
\* started, or a thread came to the end.  No thread leaves before.
StopInv ==
  /\ \A e \in Engines : pc[e] = "exited" => is_done[e[1]]
  /\ \A w \in Workloads :
       is_done[w] /\ Config[w].duration_unit = "space" =>
         \/ \E e \in EnginesOf(w) : res[e] = 0
         \/ Config[w].block_size * TotalOps(w) >= Config[w].duration

\* The results up to cur have been printed, and are the totals.
Printed(w) == mpc \in Closing /\ (w < cur \/ (w = cur /\ status = "ok"))

ResultInv ==
  /\ mpc = "sum_total" => ops_so_far = SumOn(ops, Passed)
  /\ mpc = "report" => ops_so_far = TotalOps(cur)
  /\ \A w \in Workloads : reported[w] = IF Printed(w) THEN TotalOps(w) ELSE -1
  /\ status = "ok" => mpc = "report" /\ cur = NW

(***************************************************************************)
(* Why nothing leaks.  setup_io opens the descriptors of one thread, whose *)
(* fd the others copy if it is shared.                                     *)
(***************************************************************************)
Opener(e) == IF Cfg(e).local_fd THEN e ELSE <<e[1], 1>>

\* What is open was opened by an opener; a file by the last one or before it.
OpenInv ==
  /\ \A e \in Engines : pc[e] # "unborn" => fd[e] = Opener(e)
  /\ \A e \in Engines :
       /\ <<"device", e>> \in open => Opener(e) = e
       /\ <<"output", e>> \in open => Opener(e) = e /\ output_fd[e[1]] # 0
  /\ \A w \in Workloads : output_fd[w] # 0 =>
       output_fd[w] \in Threads(w) /\ Opener(<<w, output_fd[w]>>) = <<w, output_fd[w]>>

\* compute_stats has cleaned up w, or the thread e of cur.
Cleaned(w) ==
  \/ w < cur
  \/ w = cur /\ mpc \in {"sum_total", "report"} /\ Config[w].local_fd
  \/ w = cur /\ status = "ok"

CleanInv ==
  mpc \in Closing /\ status \in {"running", "ok"} =>
    /\ \A e \in Engines : Cleaned(e[1]) =>
         <<"device", e>> \notin open /\ <<"output", e>> \notin open
    /\ mpc = "close" =>
         /\ \A e \in Passed : <<"device", e>> \notin open
         /\ idx > 1 => <<"output", <<cur, output_fd[cur]>>>> \notin open

IInv == /\ PhaseInv
        /\ WorkInv
        /\ LatencyInv
        /\ LoopInv
        /\ SampleInv
        /\ StopInv
        /\ ResultInv
        /\ OpenInv
        /\ CleanInv

\* One workload that only main can stop: then no thread is joined twice.
LoneRandom ==
  /\ NW = 1
  /\ Config[1].workload = "rnd"
  /\ Config[1].duration_unit # "interactive"

\* Such a workload that is bound by a volume of at least a byte, and sampled.
LoneVolume ==
  /\ LoneRandom
  /\ Config[1].duration_unit = "space"
  /\ Config[1].duration > 0
  /\ Config[1].sample_step # 0

\* Main itself sets is_done, and goes from there to the joins with all_done
\* still set, so that no second pass follows.
LoneInv ==
  /\ \A e \in Engines : res[e] = 1 /\ pc[e] # "quit"
  /\ mpc \in {"spawn"} \cup Deciding => all_done /\ ~ is_done[1]
  /\ mpc \in Visiting => (is_done[1] <=> all_done)
  /\ mpc = "join" => is_done[1]
  /\ \A e \in Engines :
       joins[e] = IF mpc \in Closing \/ (mpc = "join" /\ e[2] < idx) THEN 1 ELSE 0

\* Workloads that their threads stop, of which parse_workloads takes no more
\* than one (rebench.cc:34): main waits for each of them in turn, ...
OnlyInteractive ==
  \A w \in Workloads : Config[w].duration_unit = "interactive"

\* ... in a single pass.
PassedBy(e) ==
  \/ mpc \in Closing
  \/ mpc \in Deciding \cup Visiting /\ e[1] < cur
  \/ mpc = "join" /\ e[1] = cur /\ e[2] < idx

OnePassInv ==
  /\ all_done
  /\ mpc \notin {"sum_quota", "quota"}
  /\ mpc \in Visiting => is_done[cur]
  /\ \A e \in Engines : joins[e] = IF PassedBy(e) THEN 1 ELSE 0

-----------------------------------------------------------------------------
(***************************************************************************)
(* The simulation implements the benchmark: a thread is live from          *)
(* pthread_create until run_benchmark returns.                             *)
(***************************************************************************)
Stage(label) == CASE label = "unborn" -> "new"
                  [] label = "exited" -> "gone"
                  [] OTHER            -> "live"

B == INSTANCE Benchmark WITH
       NumWorkloads <- NW,
       Members <- [w \in Workloads |-> EnginesOf(w)],
       stage   <- [e \in Engines |-> Stage(pc[e])],
       issued  <- ops,
       stopped <- is_done,
       result  <- reported,
       outcome <- IF status \in {"exit", "crash"} THEN "aborted" ELSE status

\* Every behaviour of the threads and of main keeps the promise of Benchmark:
\* above all, results are printed after the last operation, and once.
ImplementsBenchmark == B!BSpec
=============================================================================
