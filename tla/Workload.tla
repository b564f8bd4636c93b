------------------------------ MODULE Workload ------------------------------
(***************************************************************************)
(* Where the operations of a workload fall on the device (workload.cc and  *)
(* get_random of utils.cc), and which configurations the command line      *)
(* accepts for them (the checks of parse_options in opts.cc).  Everything  *)
(* here is a function of one configuration record c, whose fields carry    *)
(* the names of workload_config_t; offsets and lengths are in bytes.       *)
(***************************************************************************)
EXTENDS Integers

CONSTANTS
  Sector,     \* bytes of a sector: the 512 of prepare_offset
  Page        \* getpagesize()

ASSUME SectorAssumption == Sector \in Nat \ {0}
ASSUME PageAssumption == Page \in Nat \ {0}

(***************************************************************************)
(* A configuration as parse_options hands it to the engines.  The names of *)
(* device and output, atime updates and dropping caches are left out.      *)
(***************************************************************************)
ConfigType ==
  [threads : Nat \ {0},
   io_type : {"stateful", "stateless", "mmap", "paio", "naio"},
   workload : {"rnd", "seq"}, operation : {"read", "write", "trim"},
   direction : {"forward", "backward"},
   dist : {"const", "uniform", "normal", "power"}, sigma : Int,
   offset : Nat, length : Nat, device_length : Nat,
   stride : Nat \ {0}, block_size : Nat \ {0},
   duration_unit : {"time", "space", "interactive"}, duration : Nat,
   sample_step : Int, pause_interval : Int,
   queue_depth : Int, use_eventfd : BOOLEAN,
   direct_io : BOOLEAN, buffered : BOOLEAN, append_only : BOOLEAN,
   local_fd : BOOLEAN, silent : BOOLEAN, output : BOOLEAN]

Synchronous(c)  == c.io_type \in {"stateful", "stateless", "mmap"}
Asynchronous(c) == c.io_type \in {"paio", "naio"}

\* The checks of parse_options, in its order: before it takes the device, ...
Misused(c) ==
  \/ c.pause_interval # 0 /\ Asynchronous(c)
  \/ c.workload = "rnd" /\ c.direction = "backward"
  \/ c.append_only /\ (c.workload = "rnd" \/ c.operation = "read")
  \/ c.buffered /\ c.direct_io

\* ... after that, ...
Refused(c) ==
  \/ c.sigma # -1 /\ c.dist \notin {"normal", "power"}
  \/ c.threads < 1
  \/ c.direct_io /\ c.io_type = "mmap"
  \/ c.threads > 1 /\ c.io_type = "stateful" /\ ~ c.local_fd
  \/ /\ c.workload = "seq" /\ c.operation = "write"
     /\ c.direction = "forward" /\ c.io_type = "mmap"

\* ... when a write is confirmed, ...
QueueRefused(c) ==
  \/ c.queue_depth > 1 /\ ~ Asynchronous(c)
  \/ c.use_eventfd /\ c.io_type # "naio"

\* ... the length it leaves, and ...
Clamped(c) == c.offset + c.length <= c.device_length

\* ... its last test.
Conversable(c) == c.duration_unit = "interactive" => c.threads <= 1

Accepted(c) ==
  /\ ~ Misused(c) /\ ~ Refused(c) /\ ~ QueueRefused(c)
  /\ Clamped(c) /\ Conversable(c)

\* posix_memalign takes the larger of a page and a block as the alignment of
\* the buffer: a power of two, of which all divisors are even.
Alignable(c) ==
  c.block_size <= Page \/ \A d \in 2 .. c.block_size : c.block_size % d = 0 => d % 2 = 0

-----------------------------------------------------------------------------
\* How far from zero a draw of the power distribution falls: its mean is sigma
\* percent of the length, and one of 32 random bits is at most 32 ln 2 = 22.18
\* times the mean.
Farthest(length, sigma) == (2219 * length * sigma) \div 10000

\* Mutant: the power distribution is not clamped to the length either.
GetRandomUnclamped(c) ==
  CASE c.dist = "const"                   -> {0}
    [] c.dist = "uniform"                 -> {0} \cup 0 .. c.length - 1
    [] c.dist = "normal"                  -> 0 .. c.length
    [] c.dist = "power" /\ c.sigma >= 0   -> 0 .. Farthest(c.length, c.sigma)
    [] c.dist = "power" /\ c.sigma < 0    -> - Farthest(c.length, - c.sigma) .. 0

\* get_random: the values one draw may take, truncated to an integer.  The
\* clamps of the normal and power distributions test tmp > length, so a
\* sample equal to the length passes.  Only the normal one is clamped at zero:
\* with a negative sigma the power distribution draws backwards.
GetRandom(c) ==
  CASE c.dist = "const"                   -> {0}
    [] c.dist = "uniform"                 -> {0} \cup 0 .. c.length - 1
    [] c.dist = "normal"                  -> 0 .. c.length
    [] c.dist = "power" /\ c.sigma >= 0   ->
         {r \in 0 .. c.length : r <= Farthest(c.length, c.sigma)}
    [] c.dist = "power" /\ c.sigma < 0    -> - Farthest(c.length, - c.sigma) .. 0

\* What a draw is worth in strides: the division of C drops the fraction.
Strides(r, c) ==
  IF r < 0 THEN - (((- r) \div c.stride) * c.stride)
           ELSE (r \div c.stride) * c.stride

\* The draws of one call of prepare_offset: a sequential one makes none.
Draws(c) == IF c.workload = "rnd" THEN GetRandom(c) ELSE {0}

\* Mutant: a backward scan starts at the end of the device.
PrepareOffsetFromEnd(n, r, c) ==
  CASE c.workload = "rnd" ->
         c.offset + Strides(r, c)
    [] c.workload = "seq" /\ c.direction = "forward" ->
         c.offset + n * c.stride
    [] c.workload = "seq" /\ c.direction = "backward" ->
         (c.device_length \div Sector) * Sector - c.block_size - n * c.stride

\* prepare_offset: the offset of a thread's n-th operation (from 0), r being
\* the draw.
PrepareOffset(n, r, c) ==
  CASE c.workload = "rnd" ->
         c.offset + Strides(r, c)
    [] c.workload = "seq" /\ c.direction = "forward" ->
         c.offset + n * c.stride
    [] c.workload = "seq" /\ c.direction = "backward" ->
         ((c.device_length - c.offset) \div Sector) * Sector
           - c.block_size - n * c.stride

\* What is_done tests in each direction.
PastEnd(off, c)     == off >= c.offset + c.length
BeforeStart(off, c) == off < c.device_length - c.offset - c.length

\* Random workloads and forward sequential writes are never done.
DoneIf(c, forward, backward) ==
  /\ c.workload = "seq"
  /\ ~ (c.operation = "write" /\ c.direction = "forward")
  /\ IF c.direction = "forward" THEN forward ELSE backward

\* Mutants of is_done: the end of the region belongs to it; the block has to
\* end in the region; the block before the start belongs to the region.
IsDoneAfterEnd(off, c) ==
  DoneIf(c, off > c.offset + c.length, BeforeStart(off, c))
IsDoneByBlockEnd(off, c) ==
  DoneIf(c, off + c.block_size > c.offset + c.length, BeforeStart(off, c))
IsDoneBlockLate(off, c) ==
  DoneIf(c, PastEnd(off, c), BeforeStart(off + c.block_size, c))

\* is_done(offset, config): a scan has left its region.
IsDone(off, c) == DoneIf(c, PastEnd(off, c), BeforeStart(off, c))
=============================================================================
