-------------------------------- MODULE Aio ---------------------------------
(***************************************************************************)
(* One thread of an asynchronous engine: run_benchmark, perform_op and     *)
(* the submissions of io_engine_paio_t (POSIX) and io_engine_naio_t        *)
(* (native, with or without an eventfd) of io_engines.cc, over a device    *)
(* that completes requests in any order, with main stopping it.  A slot is *)
(* a request together with its buffer and the time stamp it carries.  The  *)
(* workload's other threads are the sum of their counters, which main adds *)
(* to this thread's, and what they do to is_done and to the process.       *)
(***************************************************************************)
EXTENDS Workload, FiniteSets

CONSTANTS
  Configs,    \* the configurations a run considers
  MaxOps,     \* BOUND: at this many a thread waits for is_done
  Faults      \* whether a system call may fail or be interrupted

ASSUME AioConfigsAssumption ==
  /\ Configs \subseteq ConfigType
  /\ \A c \in Configs : Accepted(c) /\ Asynchronous(c) /\ c.queue_depth \in Nat

ASSUME AioBoundsAssumption == MaxOps \in Nat /\ Faults \in BOOLEAN

VARIABLES
  cfg,        \* config, fixed
  status,     \* of the process: "running", or how it ended
  is_done,    \* *is_done: set by the threads and by main
  ops,        \* engine->ops
  pushed,     \* history: calls of push_latency
  refused,    \* history: perform_op returned 0
  pc,         \* where the thread stands in run_benchmark
  i,          \* the slot its loops are at
  filled,     \* the queue has been filled: the second loop runs
  slot,       \* of each request: nobody's, or where it is
  owed,       \* completions the kernel has not yet added to the counter
  signalled,  \* the counter of notification_fd is not zero
  edge,       \* epoll has an event to deliver
  others,     \* the sum of ops of the workload's other threads
  elsewhere   \* history: perform_op returned 0 to one of them

aioVars == <<cfg, status, is_done, ops, pushed, refused, pc, i, filled, slot,
             owed, signalled, edge, others, elsewhere>>
around == <<others, elsewhere>>
kept == <<cfg, status, around>>
wakeup == <<owed, signalled, edge>>

Depth == cfg.queue_depth
Slots == 0 .. Depth - 1
Paio  == cfg.io_type = "paio"

\* "free": nobody's; "flight": the kernel's; "complete": its result waits;
\* "batch": in the array of events; "void": submitted nowhere, but the thread
\* goes on as if it were.
SlotState == {"free", "flight", "complete", "batch", "void"}

AioInit ==
  /\ cfg \in Configs
  /\ status = "running"
  /\ is_done = FALSE
  /\ ops = 0 /\ pushed = 0 /\ refused = FALSE
  /\ pc = "setup" /\ i = 0 /\ filled = FALSE
  /\ slot = [s \in Slots |-> "free"]
  /\ owed = 0 /\ signalled = FALSE /\ edge = FALSE
  /\ others = 0 /\ elsewhere = FALSE

Step(from, to) == status = "running" /\ pc = from /\ pc' = to

\* A check fails: the process ends.
Exits == status' = "exit" /\ UNCHANGED <<cfg, is_done, ops, pushed, refused, pc,
                                         i, filled, slot, wakeup, around>>

-----------------------------------------------------------------------------
\* io_setup refuses a depth of zero, posix_memalign an alignment that is no
\* power of two; otherwise on to the first loop.
CanSetUp == (Paio \/ Depth > 0) /\ Alignable(cfg)

Setup ==
  /\ CanSetUp
  /\ Step("setup", "fill")
  /\ UNCHANGED <<kept, is_done, ops, pushed, refused, i, filled, slot, wakeup>>

SetupRefused ==
  /\ status = "running" /\ pc = "setup"
  /\ ~ CanSetUp
  /\ Exits

SetupFails ==
  /\ status = "running" /\ pc = "setup"
  /\ Faults
  /\ Exits

\* i < config->queue_depth.  Mutants: one more, one less.
MoreToFillLate  == i <= Depth
MoreToFillShort == i < Depth - 1
MoreToFill      == i < Depth

Fill ==
  /\ IF MoreToFill THEN Step("fill", "claim") /\ UNCHANGED filled
                   ELSE Step("fill", "test") /\ filled' = TRUE
  /\ UNCHANGED <<kept, is_done, ops, pushed, refused, i, slot, wakeup>>

\* _ops = __sync_fetch_and_add(&ops, 1)
ClaimOp ==
  /\ Step("claim", "op")
  /\ ops' = ops + 1
  /\ UNCHANGED <<kept, is_done, pushed, refused, i, filled, slot, wakeup>>

\* perform_op finds the end of the region, or the user quits.
OpRefused ==
  /\ Step("op", "exited")
  /\ \E r \in Draws(cfg) :
       \/ IsDone(PrepareOffset(ops - 1, r, cfg), cfg)
       \/ cfg.duration_unit = "interactive"
  /\ is_done' = TRUE /\ refused' = TRUE
  /\ UNCHANGED <<kept, ops, pushed, i, filled, slot, wakeup>>

\* perform_op submits the request of slot i; a trim it submits nowhere.
Submitted == IF cfg.operation = "trim" THEN "void" ELSE "flight"

Submit ==
  /\ Step("op", IF filled THEN "look" ELSE "fill")
  /\ \E r \in Draws(cfg) : ~ IsDone(PrepareOffset(ops - 1, r, cfg), cfg)
  /\ slot' = [slot EXCEPT ![i] = Submitted]
  /\ i' = IF filled /\ ~ Paio THEN i ELSE i + 1
  /\ UNCHANGED <<kept, is_done, ops, pushed, refused, filled, wakeup>>

SubmitFails ==
  /\ status = "running" /\ pc = "op"
  /\ Faults /\ cfg.operation # "trim"
  /\ \E r \in Draws(cfg) : ~ IsDone(PrepareOffset(ops - 1, r, cfg), cfg)
  /\ Exits

\* while(!(*is_done))
Test ==
  /\ \/ is_done /\ Step("test", "exited")
     \/ ~ is_done /\ ops + Depth <= MaxOps /\ Step("test", "wait")
  /\ UNCHANGED <<kept, is_done, ops, pushed, refused, i, filled, slot, wakeup>>

-----------------------------------------------------------------------------
\* aio_suspend returns as soon as a request of the list is not in progress,
\* or when the list is empty.
AioSuspend ==
  /\ Paio
  /\ Slots = {} \/ \E s \in Slots : slot[s] = "complete"
  /\ Step("wait", "look")
  /\ i' = 0
  /\ UNCHANGED <<kept, is_done, ops, pushed, refused, filled, slot, wakeup>>

\* epoll_wait delivers an edge if the counter is still readable ...
EpollWait ==
  /\ ~ Paio /\ cfg.use_eventfd
  /\ edge /\ signalled
  /\ Step("wait", "read")
  /\ edge' = FALSE
  /\ UNCHANGED <<kept, is_done, ops, pushed, refused, i, filled, slot, owed,
                 signalled>>

\* ... or returns with EINTR: continue.
EpollInterrupted ==
  /\ ~ Paio /\ cfg.use_eventfd /\ Faults
  /\ Step("wait", "test")
  /\ UNCHANGED <<kept, is_done, ops, pushed, refused, i, filled, slot, wakeup>>

\* eventfd_read, of a descriptor that does not block, and its check.
EventfdRead ==
  /\ Step("read", "get")
  /\ signalled' = FALSE
  /\ status' = IF signalled THEN status ELSE "exit"
  /\ UNCHANGED <<cfg, is_done, ops, pushed, refused, i, filled, slot, owed, edge,
                 around>>

\* io_getevents: waits for one completion, takes all there are.
GetEvents ==
  /\ \/ ~ Paio /\ ~ cfg.use_eventfd /\ Step("wait", "look")
     \/ Step("get", "look")
  /\ \E s \in Slots : slot[s] = "complete"
  /\ slot' = [s \in Slots |-> IF slot[s] = "complete" THEN "batch" ELSE slot[s]]
  /\ UNCHANGED <<kept, is_done, ops, pushed, refused, i, filled, wakeup>>

\* A signal interrupts aio_suspend or io_getevents: these are checked.
WaitFails ==
  /\ status = "running" /\ Faults
  /\ pc = "get" \/ (pc = "wait" /\ ~ cfg.use_eventfd)
  /\ Exits

-----------------------------------------------------------------------------
\* paio looks at its slots in order, naio at its batch: the order of events
\* in it is the kernel's.
Ready(s) == IF Paio THEN s = i /\ slot[s] = "complete" ELSE slot[s] = "batch"

\* The slot of an event is the slot of its request.  Mutant: the first one.
ToFirstSlot(s) == 0
ToSlot(s)      == s

\* Mutants: the slot is still taken for complete; is_done is tested before the
\* next submission.
StaysComplete(s) == slot
Freed(s)         == [slot EXCEPT ![s] = "free"]
AfterReapTest == IF is_done THEN "exited" ELSE "claim"
AfterReap     == "claim"

\* The result is good: push_latency, free(timestamp).
Reap(s) ==
  /\ Ready(s)
  /\ Step("look", AfterReap)
  /\ pushed' = pushed + 1
  /\ slot' = Freed(s)
  /\ i' = ToSlot(s)
  /\ UNCHANGED <<kept, is_done, ops, refused, filled, wakeup>>

\* The result is an error.
ReapFails ==
  /\ status = "running" /\ pc = "look" /\ Faults
  /\ \E s \in Slots : Ready(s)
  /\ Exits

\* aio_error says EINPROGRESS.
Skip ==
  /\ Paio /\ i < Depth /\ slot[i] = "flight"
  /\ status = "running" /\ pc = "look"
  /\ i' = i + 1
  /\ UNCHANGED <<kept, is_done, ops, pushed, refused, pc, filled, slot, wakeup>>

LookEnds ==
  /\ IF Paio THEN i = Depth ELSE \A s \in Slots : slot[s] # "batch"
  /\ Step("look", "test")
  /\ UNCHANGED <<kept, is_done, ops, pushed, refused, i, filled, slot, wakeup>>

\* paio asks about a request that was never filled in, memory from malloc:
\* an error, a result with a stamp that is no pointer, or no answer.
VoidRead ==
  /\ status = "running" /\ pc = "wait"
  /\ Paio /\ \E s \in Slots : slot[s] = "void"
  /\ status' \in {"exit", "crash"}
  /\ UNCHANGED <<cfg, is_done, ops, pushed, refused, pc, i, filled, slot, wakeup,
                 around>>

Thread ==
  \/ Setup \/ SetupRefused \/ Fill \/ ClaimOp \/ OpRefused \/ Submit
  \/ Test \/ AioSuspend \/ EpollWait \/ EventfdRead \/ GetEvents
  \/ (\E s \in Slots : Reap(s)) \/ Skip \/ LookEnds

Fault ==
  \/ SetupFails \/ SubmitFails \/ EpollInterrupted \/ WaitFails \/ ReapFails
  \/ VoidRead

\* io_set_eventfd at each submission.  Mutant: only as the queue is filled.
NotifiesAtFill == cfg.use_eventfd /\ ~ filled
Notifies       == cfg.use_eventfd

\* The kernel completes a request, whether or not the thread is still there,
\* and then, in a step of its own, adds to the counter of the eventfd.
Complete(s) ==
  /\ status = "running" /\ slot[s] = "flight"
  /\ slot' = [slot EXCEPT ![s] = "complete"]
  /\ owed' = IF ~ Paio /\ Notifies THEN owed + 1 ELSE owed
  /\ UNCHANGED <<kept, is_done, ops, pushed, refused, pc, i, filled, signalled,
                 edge>>

Notify ==
  /\ status = "running" /\ owed > 0
  /\ owed' = owed - 1 /\ signalled' = TRUE /\ edge' = TRUE
  /\ UNCHANGED <<kept, is_done, ops, pushed, refused, pc, i, filled, slot>>

Device == \E s \in Slots : Complete(s)

\* Another thread counts an operation, ...
OthersCount ==
  /\ status = "running" /\ cfg.threads > 1 /\ others < MaxOps
  /\ others' = others + 1
  /\ UNCHANGED <<cfg, status, is_done, ops, pushed, refused, pc, i, filled, slot,
                 wakeup, elsewhere>>

\* ... is refused one it has counted, ...
OthersRefused ==
  /\ status = "running" /\ cfg.threads > 1
  /\ \E k \in 0 .. others - 1 : \E r \in Draws(cfg) :
       IsDone(PrepareOffset(k, r, cfg), cfg)
  /\ is_done' = TRUE /\ elsewhere' = TRUE
  /\ UNCHANGED <<cfg, status, ops, pushed, refused, pc, i, filled, slot, wakeup,
                 others>>

\* ... or ends the process, by a check or by asking about a trim.
OthersEnd ==
  /\ status = "running" /\ cfg.threads > 1
  /\ \/ (Faults \/ ~ CanSetUp) /\ status' = "exit"
     \/ Paio /\ cfg.operation = "trim" /\ status' \in {"exit", "crash"}
  /\ UNCHANGED <<cfg, is_done, ops, pushed, refused, pc, i, filled, slot, wakeup,
                 around>>

Others == OthersCount \/ OthersRefused \/ OthersEnd

\* total_bytes >= ws->config.duration: compute_total_ops adds the counters of
\* all threads.  (It reads them one after another; a sum that is too low by
\* then only makes main stop later.)  Mutant: one operation early.
VolumeNear    == (ops + others + 1) * cfg.block_size >= cfg.duration
VolumeReached == (ops + others) * cfg.block_size >= cfg.duration

\* Main sets is_done: the volume is reached, or it is time.
MainStops ==
  /\ status = "running" /\ ~ is_done
  /\ \/ cfg.duration_unit = "time"
     \/ cfg.duration_unit = "space" /\ VolumeReached
  /\ is_done' = TRUE
  /\ UNCHANGED <<kept, ops, pushed, refused, pc, i, filled, slot, wakeup>>

AioNext == Thread \/ Fault \/ Device \/ Notify \/ Others \/ MainStops

AioSpec == AioInit /\ [][AioNext]_aioVars

\* The thread and main are scheduled, the device completes one request after
\* the other, in the order it likes, and the kernel says so.  No fault is
\* relied upon, and nothing that another thread does.
FairAio == AioSpec /\ WF_aioVars(Thread) /\ WF_aioVars(Device)
                   /\ WF_aioVars(Notify) /\ WF_aioVars(MainStops)

-----------------------------------------------------------------------------
(* Properties *)

Waiting == {"test", "wait", "read", "get"}

\* The slots that the thread takes for submitted, those of trims included; and
\* those that are AIO calls, with the device or answered.
Outstanding == {s \in Slots : slot[s] # "free"}
Calls       == {s \in Slots : slot[s] \in {"flight", "complete"}}

\* Every variable has its type, and the loops stay inside the arrays.
AioTypeOK ==
  /\ cfg \in Configs
  /\ status \in {"running", "exit", "crash"}
  /\ is_done \in BOOLEAN /\ refused \in BOOLEAN /\ filled \in BOOLEAN
  /\ ops \in Nat /\ pushed \in Nat
  /\ pc \in Waiting \cup {"setup", "fill", "claim", "op", "look", "exited"}
  /\ i \in 0 .. Depth
  /\ pc \in {"claim", "op"} => i < Depth
  /\ slot \in [Slots -> SlotState]
  /\ owed \in Nat /\ signalled \in BOOLEAN /\ edge \in BOOLEAN
  /\ others \in Nat /\ elsewhere \in BOOLEAN

\* The thread's count is the operations whose latency is known, those the
\* device still has or has answered unheard (or, of a trim, was never given),
\* and the one that was refused or is just being made (io_engines.cc:189, 217,
\* 292, 332).
Accounting ==
  ops = pushed + Cardinality(Outstanding)
          + (IF refused \/ pc = "op" THEN 1 ELSE 0)

\* The queue is kept full: when the thread waits, queue_depth calls are with
\* the device or answered (README.md:43, io_engines.cc:186, 216).  Trims are
\* submitted nowhere (io_engines.cc:162-165).
KeepsFull == cfg.operation # "trim" /\ pc \in Waiting => Calls = Slots

\* A submission never takes a request, a buffer or a stamp that an operation
\* in flight still uses (io_engines.cc:218, 333).
OwnSlot == pc \in {"claim", "op"} => slot[i] = "free"

\* The thread leaves with its queue as it is, and frees the memory of it: of
\* the operations counted exactly queue_depth are in no latency when it was
\* told to stop, at most that many when perform_op refused (io_engines.cc:226).
AtExit ==
  pc = "exited" =>
    IF refused THEN ops - pushed \in 1 .. Depth ELSE ops - pushed = Depth

\* README.md:19 says the benchmark stops when the volume has been processed;
\* main compares it with the submissions of all threads.  What this thread has
\* processed is short of its submissions by a queue at most, and so by AtExit is
\* what each of the others has: the workload is short by a queue for each thread
\* (rebench.cc:129-130, io_engines.cc:226).
VolumeNearlyMet ==
  pc = "exited" /\ ~ refused /\ ~ elsewhere /\ cfg.duration_unit = "space" =>
    (pushed + Depth + others) * cfg.block_size >= cfg.duration

\* A thread that is told to stop leaves: no completion and no wakeup of the
\* edge-triggered eventfd is lost on it (io_engines.cc:303-316).  A trim is
\* never submitted and the thread waits for it for ever.
Leaves ==
  is_done /\ cfg.operation # "trim" ~> pc = "exited" \/ status # "running"
=============================================================================
