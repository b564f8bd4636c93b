# A TLA+ model of RebenchR

RebenchR is an I/O benchmark: a main thread starts the threads of one or more
*workloads*, polls them until each workload has run for its duration (seconds,
bytes, or until the user quits), joins them and prints statistics. This
directory holds a model of that program, the TLC runs that check it on small
instances, and proofs, checked by TLAPS, for instances of any size. Paths such
as `rebench.cc:222` are relative to `src/`.

## 1. The system

### Components, their state and operations

| Component | State | Operations | Correct when |
|---|---|---|---|
| Options (`opts.cc`) | `workload_config_t` | `parse_options`: defaults, options, checks, units, clamping | a configuration that passes can be run |
| Placement (`workload.cc`, `get_random` of `utils.cc`) | none | `prepare_offset`, `is_done` | operations stay in the region and cover it; scans end |
| Engine threads (`io_engine.cc`) | per thread `ops`; per workload `is_done`, `latency_mutex`, `latencies`, statistics | `run_benchmark`, `perform_op`, `push_latency` | a thread stops promptly; nothing counted is lost |
| Synchronous engines (`io_engines.cc:19-84`, `404-446`) | descriptor, mapping | `perform_read_op`, `perform_write_op`, `perform_trim_op` | an operation touches its block, and succeeds |
| Asynchronous engines (`io_engines.cc:86-402`) | requests in flight, completion queue, eventfd | `run_benchmark` of their own | no request is used twice; no lost completion; every operation accounted for |
| Stream statistics (`stream_stat.cc`) | three sets of counters with a histogram | `add`, `snapshot_and_reset`, `get_stat` | nothing freed is used; percentiles within the stated error |
| Main loop (`rebench.cc`) | `all_done`, `total_slept`, `last_ticks_now`; per workload `last_ops_so_far`, minima, maxima | `start_simulations`, `stop_simulations`, `compute_stats` | each thread is joined once; nothing is freed under a thread; rates are over the time they took; it ends |
| Set-up and clean-up (`simulation.cc:14-52`) | `fd` of an engine, `output_fd` of a workload | `setup_io`, `copy_io_state`, `cleanup_io` | what is closed is open, once; nothing leaks |
| Results (`simulation.cc:60-146`) | none | `compute_total_ops`, `print_stats` | the numbers are those of the run |
| Utilities (`utils.cc`) | none | clocks, `check`, device length, deviations | |
| `analysis/describe.R`, `examples/` | none | plotting | |

### How they interact

Everything is shared memory. The threads of a workload share one `int is_done`,
written without a lock by main (`rebench.cc:132`, `138`) and by any thread whose
`perform_op` returned 0 (`io_engine.cc:62`). A thread's counter is read by main
at any moment, one thread after another (`simulation.cc:140`). The vector of
latencies and the statistics are updated by the threads under `latency_mutex`,
and read, cleared, swapped and freed by main *without* it (`rebench.cc:158-186`,
`208`). An asynchronous engine shares its requests and buffers with the kernel.
`check` ends the process, all threads at once. Nothing survives the process, so
there is no recovery to model.

### What is hard

- `all_done` is the only thing between the polling loop and the code that closes
  descriptors and deletes engines, mutex and statistics.
- Main tests `is_done` twice in a visit, and threads set it in between; a
  workload that is done is visited again while another one is not.
- Sums of counters that are not snapshots decide when to stop and what to print.
- An operation is counted before it is known whether it is done; with an
  asynchronous engine, before it is done at all.
- The vector of latencies is cleared and indexed, and the statistics are freed,
  while threads add to them.
- Completions come in any order, one wakeup stands for several of them, and the
  thread leaves while requests are in flight.
- One reading of the clock serves the samples of all workloads.
- `output_fd` is one per workload, `setup_io` runs once per thread.
- Offsets, strides, blocks, sectors, pages and regions need not divide one
  another, and the option parser checks before it knows their values.

`PROJECT.json` lists each of these as a hazard at its line, with the
properties that would catch it.

## 2. The modules

| Module | Models | Lines of source |
|---|---|---|
| `Workload` | configuration record, the checks on it, `get_random`, `prepare_offset`, `is_done` | `workload.cc`, `utils.cc:59-93`, `opts.cc:386-484` |
| `Options` | `parse_options`, extends `Workload` | `opts.cc:16-44`, `144-485` |
| `Scan` | the bytes one thread of a synchronous engine touches, extends `Workload` | `io_engines.cc:22-84`, `414-441`, `io_engine.cc:46-105` |
| `Command` | `Options`, then `Scan` | `rebench.cc:40-44`, `280-289` |
| `Engine` | threads of the synchronous engines, extends `Workload` | `io_engine.cc`, `io_engines.cc:22-84` |
| `Simulation` | the main thread over `Engine` | `rebench.cc:60-289`, `simulation.cc` |
| `Sums` | the sum of a function over a finite set | `simulation.cc:140-146`, `stream_stat.cc:110` |
| `Benchmark` | abstract: what a run of the program promises | |
| `Aio` | a thread of an asynchronous engine, the kernel and main, extends `Workload` | `io_engines.cc:86-402` |
| `StreamStat` | the statistics under the threads and main | `stream_stat.cc`, `io_engine.cc:115-125`, `rebench.cc:205-217` |
| `Sampler` | the interval of the samples of all workloads | `rebench.cc:113-120`, `187-203`, `231-242` |
| `SimulationProofs`, `ScanProofs`, `OptionsProofs`, `CommandProofs`, `AioProofs`, `StatProofs`, `SamplerProofs` | theorems | |
| `SumTheorems` | lemmas about `Sums`, for `SimulationProofs` and `StatProofs` | |
| `MCSimulation`, `MCCommand`, `MCAio`, `MCStat`, `MCMeasure` | instances for TLC | |

**Options.** A command line is what is left of it after `getopt_long`: the fields
that options write at once (`given`), the sizes kept as strings until the end
(`sizes`), and whether a device is named. `TakeOptions` is the option loop, `Refuse`
and `PassChecks` the checks before the question, in their order, `Confirm` the
answer to "Are you sure", `ParseSizes` all that follows: units, the conversion
of `block_size` and `stride` to `int`, the length clamped to the device, the
duration. `conf` is a configuration from the first step on, but need not be in
`ConfigType` before the end; that it is then is `AcceptedIsSound`.

**Workload.** Everything in it is a function of the configuration. A draw of
`get_random` is any value the distribution can return: uniform, less than the
length; normal, clamped to 0 and the length; exponential ("power"), clamped to the
length only, and never further from zero than 22.18 times its mean (`Farthest`),
which a negative sigma puts below zero. `Alignable` is what `posix_memalign` asks
of a block.

**Scan.** One thread, a device of a few bytes, and the set of bytes touched.
Separate from `Engine`, for there the interleaving matters and here the
arithmetic. `Place` is where the kernel puts an operation (`O_APPEND` moves a
write to the end), `Extent` the bytes of it, `MustFail` and `MayFail` what each
engine's check refuses: a read past the end, a discard past the end or in parts
of a sector, a trim by an engine that has none, direct I/O that is not aligned, a
copy past the last page of the mapping or before its first, an offset below zero.
`Begin` is the check on the thread's buffer. `Command` runs `Options` first, so that
the configurations `Scan` meets in its run are those the parser accepts.

**Engine.** An engine is a pair of a workload and a thread of it. Its steps are
the code's atomic ones: the allocation of the buffer, checked with the first test of
`is_done` (`Allocated`); that test; the fetch-and-add on `ops`;
`perform_op`, which refuses, performs or fails a check; locking the mutex and
loading the end of the vector and the count; storing them and unlocking; setting
`is_done`. The load and the store are two steps because main's `clear()` may
come between them, and because without the mutex another thread's would: that
is what makes the mutex matter in the model. `performed` is a history variable,
and so are `collected` and `joins` in `Simulation`.

**Simulation.** Main's position is `mpc`, its loops are at `<<cur, idx>>`, and
its labels follow the code:

    spawn                                   start_simulations, per thread
    look -> sum_quota -> quota | wait       what the duration asks (127-149)
      -> stats -> collect -> clear          latencies (152-186)
               -> sum_sample -> sample      a sample, if due (187-219)
      -> reap -> join                       222-228, then the next workload
    close -> sum_total -> report            compute_stats, per workload

`compute_total_ops` reads one counter per step. `SysCallFails` is a system call
of main that fails its check; it is enabled where main makes one. `JoinFails`
and the second outcome of `Join` are what a `pthread_join` of a joined thread
may do, which POSIX leaves undefined. `CollectCrashes` and `Garbage` are what
reading a vector may do while a `push_back` moves its storage. A descriptor is
named after the engine whose `setup_io` opened it, so that closing it twice,
or leaking it, can be told; the mapping of the mmap engine stands with its
descriptor.

**Benchmark.** Threads start, issue operations and leave, workloads stop, and
the result of a workload is published once, in order, after all its threads
have left, and equal to what they issued. `Simulation` implements it under the
mapping at the end of the module (`ImplementsBenchmark`): results are never
printed while a thread may still change them.

**Aio.** The thread's position is `pc`; `filled` tells its two loops apart. A
request, its buffer and its time stamp are one *slot*: nobody's, in flight,
complete, or in the array of events that `io_getevents` returned.

    setup -> fill -> claim -> op -> fill ...       fill the queue
             fill -> test -> wait -> look          paio; naio without eventfd
                     test -> wait -> read -> get -> look    naio --eventfd
                     look -> claim -> op -> look   reap one, submit the next
                     look -> test

The kernel completes requests in any order (`Complete`), and adds to the eventfd
in a step of its own (`Notify`); `edge` is what an edge-triggered epoll has to
deliver. Main is one action, `MainStops`; its volume test adds up the counters of
all threads of the workload. Those other than this one are their sum, `others`,
and what they can do to what is shared: count an operation, be refused one and set
`is_done`, or end the process (`Others`). A trim is submitted nowhere, and its
slot is *void*. `Fault` collects what a system call may do wrong; `VoidRead` is
paio asking about a trim, which it never submitted.

**StreamStat.** A histogram is a bag of indices, counters are a record on a
*heap*, so that freed counters can be told. A thread holds the mutex from reading
`active_stat` to the end of `add` for the global counters; main's sample is four
steps (`Destroy`, `Take`, `Renew`, `Report`) that do not look at the mutex. An
access to freed memory or outside the array is undefined, and everything stops
there (`AddLate`, `AddOutside`). `GetStat` is `get_stat` as an operator. Its loop
meets one mark at an index, in order: mark `m` is met at the first index at which the
total is up to it, or later if an earlier mark `k` is met so late that the marks after
it, an index each, come to `m` only then; `MarkIndex` is the greatest of these. Powers
of ten are a recursive function, and a latency is a `ticks_t`, `MaxTicks` at most.

**Sampler.** Times, and nothing else: the clock, `last_ticks_now`, `ticks_now`, and
per workload when it was last counted and what its rate was divided by.

Operators whose comment says *Mutant* are variants with a plausible mistake (a
comparison the wrong way, a lock forgotten, a loop that runs once too often). No
specification uses them. `PROJECT.json` pairs each property of a passing run
with a mutant under which TLC finds it violated.

### What is abstracted

- **Time.** In `Simulation`, durations in seconds are counted in polls, as the code
  counts them (`total_slept / 200.0f`), and whether a sample is due is a free
  choice of main; the intervals are the subject of `Sampler`. There a visit reads
  the clock and counts at one instant, in whole milliseconds.
- **Latencies.** In `Simulation` they are named by the operation they belong to and
  assumed in the range that `stream_stat_t::add` records, so that each one adds
  one to the count; `StreamStat` has their values.
- **Random draws** are any value the distribution can return: their frequency is
  left out.
- **Floating point.** The logarithm, the mean, the percentages and the rates are
  exact numbers. The report of a sample is read at one instant.
- **Data, pauses, atime, caches, output formats** are left out, and of the buffers
  all but the check that they were allocated.
- **What the parser accepts and should not.** A stride or block below one, a negative
  duration, an offset past the end: `Unchecked` names them, and the engines'
  modules assume them away, as `Command` shows at its guard.
- **Data races** on `is_done` and the counters are atomic reads and writes, as an
  aligned `int` or `long` is on the machines the code is built for.

## 3. The runs

| Run | Instance | What it shows |
|---|---|---|
| `sim_space` | two threads, shared descriptor, output file, three blocks of volume | `QuotaMet`, `StopsPromptly`, `NoCrash` (no division by a count of zero, no second join), `ReturnsOk`, `TypeOK` |
| `sim_pair` | a timed random reader and a two-threaded scan with local descriptors | `IInv`, `FdOpenInUse`, `ReportExact`, `ReportedWork`, `NoLeak`, `SamplesForward`, `ImplementsBenchmark` |
| `sim_time` | two threads for a time, latencies recorded, system calls fail | `StopsAll`, `Terminates` |
| `sim_interactive` | one thread, backward scan, the user may quit | `JoinOnce` |
| `command` | 11636 command lines, a device of seven bytes | `AcceptedIsSound`, `WritesAgreed`; `BackwardInside`, `ForwardOvershoot`, `RandomInside`, `Covers`, `CountsTheEnd`, `ReadsSucceed`, `Finishes`, `ScanTypeOK` |
| `aio` | both engines and the eventfd, queues of 0 to 3, four ways to stop, alone or beside other threads, faults | `Accounting`, `KeepsFull`, `OwnSlot`, `AtExit`, `VolumeNearlyMet`, `Leaves`, `AioTypeOK` |
| `measure` | two threads and three samples, or one thread and many latencies; one to three workloads with steps of -1, 0, 2 and 3 | `FreedLate`, `LossBounded`, `InsideHistogram`, `PercentilesNear`, `StatTypeOK`; `StepApart`, `LastIsExact`, `SamplerTypeOK` |
| `v_pair_join` | two random workloads of different length | `JoinOnce` fails |
| `v_latencies` | as `sim_time`, no faults | `LatencyOfEveryOp` fails |
| `v_local` | two local descriptors, an output file | `ChecksHold` fails |
| `v_trim` | sequential trims | `OneBlockEach` fails |
| `v_stat` | one thread, latencies of 1500 and 200000 ns, the real bucket size | `EstimationError` fails |

Some of the passing properties say how far a promise holds, for the code does
not keep it in full:

- `FreedLate`, `LossBounded`. A sample frees counters that a thread may still add
  to, but only if the thread has been in `push_latency` since the sample before;
  and the samples miss at most one latency each.
- `AtExit`, `VolumeNearlyMet`. A stopped asynchronous thread frees its requests
  with a full queue in flight: these operations are counted and have no latency,
  and the volume processed is short of what `README.md:19` promises by up to a queue
  for each thread. `VolumeNearlyMet` has the queue of one thread and the counts of
  the others; `AtExit` holds of each of them.
- `PercentilesNear`. Each percentile mark takes a slot of its own, so that the last
  of the eight may be off by eight slots even for latencies clear of the ends of
  their buckets.
- `StepApart`. A workload whose step is shorter than the first one's is left out: it
  is sampled at each poll until the first one's step resets the ticks.
- `ReadsSucceed`, `Finishes`. Direct I/O (the default) succeeds only where the
  configuration is in sectors, a mapping only where blocks divide its pages, and a
  block above a page only if it is a power of two: the parser checks none of these.
- `ScanTypeOK`, `RandomInside`. Random operations stay in their region but for a
  block, and after the start of the device, unless sigma is negative for the power
  distribution; then draws go backwards (`get_random` clamps a normal draw at zero and
  a power draw not), before the offset where `README.md:88` has operations start, and
  a mapping is read where it is not.
- `Leaves` and `KeepsFull` leave trims out: the parser accepts them for both
  asynchronous engines, which count them and make none of the AIO calls of
  `README.md:43`, and naio waits for them for ever.

The five violations are findings about the code:

- **`v_pair_join`.** A finished workload is visited, and its threads are joined,
  at every pass until the last workload is done. The second join is undefined;
  where it reports an error, the check at `rebench.cc:224` ends the process
  before any result. With one workload that only main stops, that cannot
  happen, and `JoinedOnce` proves it. A single workload whose threads end by
  themselves is exposed too: a thread may set `is_done` between lines 127 and
  222, after main has set `all_done = false`.
- **`v_latencies`.** Main reads the vector for the last time before it joins the
  threads, so that the latencies of their last operations are in no result.
- **`v_local`.** With local descriptors `output_fd` is opened once per thread into
  one variable and closed once per thread; the second close fails its check and
  the program exits before its results.
- **`v_trim`.** The range of `BLKDISCARD` is given its end as its length: a trim of
  the block at 2 discards bytes 2 to 5.
- **`v_stat`.** `rebench.cc:83` promises an estimation error of 0.1 %. The bucket of a
  latency comes from an integer division, so that 1500 ns is counted in the first
  bucket without compression, at an index that reads back as the second bucket:
  the median of 1500 and 200000 is printed as 5010. A latency below 1000 ns takes
  the logarithm of zero and has no index at all.

### Bounds

`MaxOps` bounds the operations a thread of `Engine` starts; a thread at the bound
waits for `is_done`. It is 3 for a volume of three blocks, so that either thread
alone or both together reach it and overshoot it; 2 where the volume is not what
stops the threads: a scan of one block needs two, and two operations on each of
two threads give every overlap of pushes, sums and clears; 6 for the interactive
scan, which ends before. `PollsPerSec` stands for the 200 of the code and is 1 or
2; `total_slept` saturates at the longest duration and `joins` at 2. Three threads
in two workloads are the least that has a workload with two threads beside
another one.

`command`: the seven bytes, strides and blocks of 1 to 3, sectors of two bytes and
pages of four give each way of dividing and not dividing; `MaxScan` = 3 bounds
only the workloads without an end. `Kilo` = 4 stands for 1024 and `IntRange` = 256
for 2^32, so that two giga wrap as in the code. Blocks of 5 and 8 bytes are above
the page, one allocated and one refused; sigmas of 50 and -10 draw past the end of
regions of 2 and 3 bytes and before their start. Besides the scans, every
combination of up to three options of any kind is a command line.

`aio`: queues of up to three requests, and `MaxOps` = 7: a queue of three is
refilled more than once, with completions in every order; the sum of the other threads'
counters stops at `MaxOps` too, more than a volume of 7 bytes needs. A page is 2
there, so that a block of 3 is refused.

`measure`: a bucket of 100 slots and three buckets stand for 1000 and 12, with latencies on both sides of
each edge; two threads with two latencies each meet three samples; the clock of
`Sampler` stops at 10, which has three samples of the longest step. The two halves
share no state, and a behaviour is of one or the other. `v_stat` has the
constructor's bucket size and nine buckets, for TLC's integers end at 2^31.

Deadlock checking is off where the program stops (`command`, `measure`, `v_trim`,
`v_stat`), and in `aio`, where naio may wait for a trim
for ever: `Leaves` says that nothing else does. In `Simulation` the end of the
process is the explicit step `Ended`, and any other state without a successor is
an error: main and its threads never wait for one another in a circle.

### Fairness

`FairSpec` assumes weak fairness of main and of each thread: the kernel runs each
of them, and `perform_op` returns, for devices answer and, in interactive mode,
the user does. Nothing stronger is assumed of the mutex. `FairCommand` assumes the
same of its one thread. `FairAio` assumes it of the thread, of main, of the
device, which goes on completing requests in the order it likes, and of the
kernel's addition to the eventfd; no fault is relied upon, nothing that another
thread does, and an interrupted wait need not happen. `StopsAll`, `Terminates`,
`ReturnsOk`, `Finishes` and `Leaves` need fairness; the plain specifications have
none and serve the safety runs.

## 4. The proofs

Each module of proofs is about every value of the constants that the `ASSUME`s of
the modules allow: any list of workloads, any number of threads, any accepted
configuration, any queue depth, bucket, sector and bound.

`SimulationProofs`:

- `TypeCorrect`: `Spec => []TypeOK`. The loop indices are in range at each label.
- `DescriptorsOpen`: `Spec => []FdOpenInUse`: no thread is in `perform_op` with its
  descriptor closed. Not inductive: nothing in it says why main does not close
  while a thread runs. `PhaseInv` adds the argument of the code: the threads alive
  are those created (`BornInv`); descriptors stay open until the clean-up
  (`DescriptorInv`); a workload passed by with `all_done` still set has been
  found done (`FoundInv`), its threads have been joined one by one (`JoinInv`),
  and so have those of the workloads before it in this pass (`PassInv`); so all
  threads have exited when the clean-up begins (`ClosingInv`). `Phases` is
  `Spec => []PhaseInv`, proved action by action.
- `Stops`: `Spec => StopsPromptly`, an action property, from `PhaseInv`.
- `JoinedOnce`: `LoneRandom => (Spec => []JoinOnce)`. With one random,
  non-interactive workload no thread sets `is_done`, main sets it in the visit
  that joins, and `all_done` stays set (`LoneInv`). The hypothesis is what the
  run `v_pair_join` shows to be needed. `InteractiveJoinedOnce` is the other case in
  which it holds, that of `sim_interactive`: `OnlyInteractive => (Spec => []JoinOnce)`.
  The thread sets `is_done` itself, but main waits for that and leaves `all_done` set
  (`OnePassInv`), so that there is no second pass.
- `Inductive`: `Spec => []IInv`, where `IInv` is `PhaseInv` and what the numbers and
  the descriptors need:
  - an operation is counted, then performed or refused, and the thread that was
    refused one begins no other (`WorkInv`);
  - the statistics of a workload hold the operations of its threads but for the one
    each may still be about to push, and the count that the thread in the mutex has
    loaded is the one it replaces (`LatencyInv`): this is where the mutex is needed;
  - a count that main is adding up is at most the sum of the counters it has passed,
    as they are now, and with the counters still ahead of it at least the count of
    the last sample (`LoopInv`, `SampleInv`). The counters move under the loop, so
    that nothing equal can be said before the threads have exited;
  - a workload is done because a thread was refused an operation or because the
    sum of its counters has reached its volume, and it keeps that reason
    (`StopInv`);
  - the results up to `cur` have been printed and are the sums of counters that no
    longer move (`ResultInv`);
  - what is open was opened by the thread whose `setup_io` did so, and the clean-up
    has closed all of it up to where it stands (`OpenInv`, `CleanInv`).

  TLC checks `IInv` in `sim_pair`; it is proved conjunct by conjunct, each with the
  parts it rests on.
- From `IInv`: `ResultsAreExact` (`ReportExact`), `ResultsAreWork` (`ReportedWork`),
  `VolumesAreMet` (`QuotaMet`), `NothingLeaks` (`NoLeak`), and `SamplesGoForward`
  (`SamplesForward`, an action property).
- `VolumesDoNotCrash`: `LoneVolume => (Spec => []NoCrash)`: one random workload that is
  bound by a volume and sampled. It is joined once, its latencies are never read
  without the lock, and its count is not zero, for its volume is not. Each part of
  the hypothesis is needed: without it `Join`, `CollectCrashes` or the division of
  `Report` may end the process, as the code may.
- `Implements`: `Spec => ImplementsBenchmark`. The start maps to the start of
  `Benchmark`, each step of a thread to a step of its `Members` or to none, each step
  of main likewise; what remains is that the sum main prints is the total of
  `Benchmark`, from `ResultInv`, and that the threads have left, from `PhaseInv`.

These rest on `SumTheorems`: a sum over a finite set does not depend on the order,
grows with its terms, and changes by what one term changes. `Sums` is a fold of the
community modules, whose recursive function is a `CHOOSE`: that it exists and is
unique is proved by induction on the size of the set. The library's induction
theorems take an operator; `Induction` is stated for a *set* of numbers instead,
from the theorem that `<` on `Nat` is well-founded.

`ScanProofs`, from the inductive `ScanInv`: `ScanTypeCorrect` (nothing before the
start of the device, but by a mapping read at draws that go backwards),
`StaysInside` (`BackwardInside`), `OvershootsLessThanABlock` (`ForwardOvershoot`),
`RandomStaysInside` (`RandomInside`: a draw is no more than the length and the
multiple of the stride below it no more than the draw) and `CountsOneMore`
(`CountsTheEnd`). `ReadsNeverFail` (`ReadsSucceed`) adds arithmetic: an offset is
a multiple of what the offset and the stride of the region are multiples of, or of
a sector in a backward scan, and of two multiples the lower one is lower by a
whole block. `NoHoles` (`Covers`) needs `CoverInv`: what the operations so far
sweep has been touched, and the operation that found the end swept nothing.

`OptionsProofs`: `AcceptedConfigurations` (`AcceptedIsSound`). The invariant `ParseInv`
carries, stage by stage, which checks have been passed; the sizes are parsed
after them and touch none of the fields they look at, and the clamping of the
length is arithmetic.

`CommandProofs`: `WritesAreAgreed` (`WritesAgreed`). `AgreedInv` carries the answer past
the question to the thread: the sizes parsed later, and the default of sigma, leave
the operation and the silence alone, and nothing is touched before the thread runs.

`AioProofs`: `AioTypeCorrect`; `QueueKeptFull` and `SlotIsOwn` from `Queue`: while
the queue is being filled the free slots are those from `i` on, and after that the
only free slot is the one whose result has just been taken. Neither property is
inductive without that. What is not free is an AIO call, or an event of the batch
while the thread looks at it, or of a trim: `CallsOnly` says so, and
`QueueKeptFull` needs it to claim calls and not just slots that are taken.
`EveryOpAccounted` and `LeftBehind` follow the number of outstanding slots with
the library's theorems on finite sets. `VolumeShortByAQueue` adds `VolumeSeen`:
main's test, once true of a sum of counters that only grow, stays so. It holds of
any number of other threads, whatever they do, unless one was refused an
operation.

`StatProofs`: `FreedOnlyLate` from `Places`, which counters each of main's pointers is
at, and `Held`: a thread's counters are the active ones or a snapshot yet to be
reported, or it has seen a report. `LossIsBounded` adds that threads add one
after the other (`OneAtATime`) and counts what is missing (`Loss`): with a thread
in counters already reported, one less than the samples reported.

The other three need to know where a latency is counted.

- `StatTypeCorrect` and `OutsideAtEnds` (`InsideHistogram`) from the inductive
  `StatInv`: the types, and a thread that is adding holds a latency whose index is
  inside the array (`Valued`). That a latency without an index is at one end or
  the other (`NoIndexAtEnds`) is arithmetic: a slot is within half its width of
  the latency, so one past the array is in the last bucket and rounds up. `Pow10`
  is shown to be the function it reads as by `Induction`, of which below.
- `PercentilesAreNear` (`PercentilesNear`) from `CountInv`. Counters are `Faithful` when
  their histogram has below each index as many as there are latencies with a lower
  one. That is not invariant for all of them: main empties what it frees while a
  thread may still be in it, and a thread is between the histogram and the totals
  for a while. `WholeInv` says which are not: freed counters stay empty, those that
  one thread is adding to are one latency ahead in the histogram (`HistogramAhead`),
  all others are faithful; what is printed as a whole is (`PrintedInv`). Of latencies
  clear of the ends of their buckets a longer one has no lower index (`IndexGrows`),
  so that the first index at which the total is up to a mark is the one after that
  of the true percentile (`FirstIs`), and a mark waits at most an index for each mark
  before it (`MarkIndexIs`).

`SamplerProofs`: `SamplerTypeCorrect`; `SamplesStepApart` from `Clock`, nothing read is
ahead of the clock, and `Counted`: a workload that has been sampled since the
ticks were reset makes the end of the pass reset them. `LastRateIsExact` from
`Exact`, which says that the ticks are when its last sample was taken.

Only model-checked: liveness (`StopsAll`, `Terminates`, `ReturnsOk`, `Finishes`,
`Leaves`), which TLAPS does not reach. Every invariant and action property of a
run that passes is proved, `JoinOnce` and `NoCrash` under a named hypothesis on
the workloads that those of the runs satisfy.

## 5. Not modelled, and why

- The snapshot and the clock *within* `Simulation`. `StreamStat` and `Sampler` have a
  main of their own; what they share with `Simulation` is only that main is one
  thread, and the product would be out of TLC's reach.
- The sums of `add_to_std_dev` and `get_variance`, and the minima and maxima of
  rates: floating point over samples, without control. That a workload that has
  finished goes on being sampled with zero operations is listed as a hazard.
- `parse_workloads`' splitting of standard input, and `drop_workload_caches`: text
  and system calls.
- Clock conversions (`secs_to_ticks` takes a `float`: listed as a hazard),
  `get_device_length`, `drop_caches`: system calls without state of the program.
- `print_status`, `print_stats`, usage and size texts, `describe.R` and the examples:
  formatting and plots of the output.
