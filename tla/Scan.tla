-------------------------------- MODULE Scan --------------------------------
(***************************************************************************)
(* The bytes that one thread of a synchronous engine touches: perform_op   *)
(* of io_engine.cc called with 0, 1, 2, ... by run_benchmark, with the     *)
(* reads, writes and discards of the stateful, stateless and mmap engines  *)
(* of io_engines.cc.  The configuration is chosen at the start and never   *)
(* changes; touched remembers the bytes.                                   *)
(***************************************************************************)
EXTENDS Workload

CONSTANTS
  Configs,    \* the configurations a run considers
  MaxScan     \* BOUND: operations of a workload that does not end by itself

ASSUME ConfigsAssumption ==
  /\ Configs \subseteq ConfigType
  /\ \A c \in Configs : Accepted(c) /\ Synchronous(c)

ASSUME MaxScanAssumption == MaxScan \in Nat

VARIABLES
  cfg,        \* config, fixed
  n,          \* engine->ops
  touched,    \* history: bytes read, written or discarded
  walk        \* "on"; "over" past the region; "quit" by the user; "exit" on a
              \* check or a fault: the process ends

scanVars == <<cfg, n, touched, walk>>

\* Where the operation after k others falls, prepared for off: O_APPEND puts a
\* write at the end of the file.
Appends(c) == c.append_only /\ c.operation = "write" /\ c.io_type # "mmap"
Place(k, off, c) ==
  IF Appends(c) THEN c.device_length + k * c.block_size ELSE off

\* The bytes of an operation.  Reads end with the device, and so does what a
\* mapping shows of it.  The range of BLKDISCARD is a start and a length, and
\* the code gives it the end of the block as the length.
Extent(off, c) ==
  LET block == off .. off + c.block_size - 1 IN
  CASE c.operation = "trim" -> off .. off + (off + c.block_size) - 1
    [] c.operation = "write" /\ c.io_type # "mmap" -> block
    [] OTHER -> {b \in block : b < c.device_length}

\* The whole pages that hold the device.
Mapped(c) == ((c.device_length + Page - 1) \div Page) * Page

\* A check ends the process: only the stateful engine has a trim; the kernel
\* refuses a discard past the end of the device or in parts of a sector, and
\* an offset below zero; a read past the end returns nothing.
MustFail(off, c) ==
  \/ c.io_type # "mmap" /\ off < 0
  \/ /\ c.operation = "trim"
     /\ \/ c.io_type # "stateful"
        \/ off % Sector # 0 \/ c.block_size % Sector # 0
        \/ off + off + c.block_size > c.device_length
  \/ c.operation = "read" /\ c.io_type # "mmap" /\ off >= c.device_length

\* Past its end a disk refuses a write, but a file grows; direct I/O in parts of
\* a sector is refused, but not by each file system; before and past the
\* mapping a copy faults or finds another mapping.
MayFail(off, c) ==
  \/ MustFail(off, c)
  \/ c.io_type = "mmap" /\ (off < 0 \/ off + c.block_size > Mapped(c))
  \/ /\ c.operation = "write" /\ c.io_type # "mmap"
     /\ off + c.block_size > c.device_length
  \/ c.direct_io /\ (off % Sector # 0 \/ c.block_size % Sector # 0)

\* is_done holds of no offset of these workloads.
Endless(c) ==
  \/ c.workload = "rnd"
  \/ c.operation = "write" /\ c.direction = "forward"

\* The buffer is allocated before the loop, and that is checked.
Begin(c) == IF Alignable(c) THEN "on" ELSE "exit"

ScanInit ==
  /\ cfg \in Configs
  /\ n = 0
  /\ touched = {}
  /\ walk = Begin(cfg)

\* perform_op: the offset is past the region, ...
Over(off) == IsDone(off, cfg) /\ walk' = "over" /\ UNCHANGED touched

\* ... the user quits, ...
Quit(off) ==
  /\ ~ IsDone(off, cfg) /\ cfg.duration_unit = "interactive"
  /\ walk' = "quit" /\ UNCHANGED touched

\* ... the operation fails, ...
Fail(off) ==
  /\ ~ IsDone(off, cfg) /\ MayFail(Place(n, off, cfg), cfg)
  /\ walk' = "exit" /\ UNCHANGED touched

\* ... or it is done.
Perform(off) ==
  /\ ~ IsDone(off, cfg) /\ ~ MustFail(Place(n, off, cfg), cfg)
  /\ touched' = touched \cup Extent(Place(n, off, cfg), cfg) /\ UNCHANGED walk

ScanNext ==
  /\ walk = "on"
  /\ Endless(cfg) => n < MaxScan
  /\ \E r \in Draws(cfg) :
       LET off == PrepareOffset(n, r, cfg) IN
       Over(off) \/ Quit(off) \/ Fail(off) \/ Perform(off)
  /\ n' = n + 1
  /\ UNCHANGED cfg

ScanSpec == ScanInit /\ [][ScanNext]_scanVars

\* perform_op returns: the disk answers every request.
FairScan == ScanSpec /\ WF_scanVars(ScanNext)

-----------------------------------------------------------------------------
(* Properties *)

\* Draws that get_random lets go backwards.
DrawsBack(c) == c.workload = "rnd" /\ c.dist = "power" /\ c.sigma < 0

\* The variables have their types; no byte lies before the start of the device,
\* unless a mapping is read at draws that go backwards.
ScanTypeOK ==
  /\ n \in Nat
  /\ touched \subseteq Int
  /\ touched \subseteq Nat \/ (DrawsBack(cfg) /\ cfg.io_type = "mmap")
  /\ walk \in {"on", "over", "quit", "exit"}

Scanning(direction) ==
  /\ cfg.workload = "seq" /\ cfg.direction = direction
  /\ cfg.operation # "trim" /\ ~ Appends(cfg)

\* The region of a scan: a backward one measures it from the end of the device.
First(c) == IF c.direction = "forward" THEN c.offset
            ELSE c.device_length - c.offset - c.length
Boundary(c) == IF c.direction = "forward" THEN c.offset + c.length
               ELSE ((c.device_length - c.offset) \div Sector) * Sector

\* A backward scan stays inside its region although is_done looks at the
\* start of a block only, and never before the start of the device
\* (workload.cc:25, 44-46).
BackwardInside ==
  Scanning("backward") =>
    touched \subseteq First(cfg) .. (cfg.device_length - cfg.offset) - 1

\* A forward scan leaves its region by less than one block, for is_done tests
\* where the block starts (workload.cc:23); a sequential write has no end.
ForwardOvershoot ==
  Scanning("forward") /\ ~ Endless(cfg) =>
    touched \subseteq cfg.offset .. cfg.offset + cfg.length + cfg.block_size - 2

\* Random operations leave their region by a block at most, the draw that is
\* just the length: the clamps see to that, whatever sigma and the stride, but
\* for draws that go backwards (utils.cc:76, 85, workload.cc:39).
RandomInside ==
  cfg.workload = "rnd" /\ cfg.operation # "trim" /\ ~ DrawsBack(cfg) =>
    touched \subseteq cfg.offset .. cfg.offset + cfg.length + cfg.block_size - 1

\* A scan whose stride is no longer than its block has no holes: a forward
\* one covers its region, a backward one all but what is shorter than a block
\* at its start and the part of a sector at its end (workload.cc:40-47).
Covers ==
  walk = "over" /\ Scanning(cfg.direction) /\ cfg.stride <= cfg.block_size =>
    First(cfg) + (IF cfg.direction = "forward" THEN 0 ELSE cfg.block_size - 1)
      .. Boundary(cfg) - 1 \subseteq touched

\* The count of a scan that ran to its end is one more than the strides that
\* fit in its region: the operation that found the end is counted
\* (io_engine.cc:48, workload.cc:23).
CountsTheEnd ==
  walk = "over" /\ cfg.direction = "forward" =>
    /\ (n - 1) * cfg.stride >= cfg.length
    /\ n > 1 => (n - 2) * cfg.stride < cfg.length

\* What direct I/O asks of a configuration: prepare_offset rounds the start of
\* a backward scan down to a sector, and of no other.
Aligned(c) ==
  /\ c.stride % Sector = 0 /\ c.block_size % Sector = 0
  /\ c.direction = "backward" \/ c.offset % Sector = 0

\* What a mapping asks of it: a copy is of a whole block, at the end too.
WholeBlocks(c) ==
  \/ c.direction = "backward"
  \/ /\ c.offset % c.block_size = 0 /\ c.stride % c.block_size = 0
     /\ Page % c.block_size = 0

Suits(c) ==
  /\ Alignable(c)
  /\ c.direct_io => Aligned(c)
  /\ c.io_type = "mmap" => WholeBlocks(c)

\* No read of an accepted configuration fails for its place, unless its
\* region is empty at the end of the device: a uniform draw and a scan start
\* before the end.  Direct I/O needs sectors, a mapping whole blocks, and the
\* buffer of a block above a page a power of two (utils.cc:67, workload.cc:45,
\* io_engine.cc:41, io_engines.cc:30, 71, 432).
Readable(c) ==
  /\ c.operation = "read" /\ c.offset < c.device_length
  /\ c.dist \in {"uniform", "const"}
  /\ Suits(c)

ReadsSucceed == Readable(cfg) => walk # "exit"

\* Every scan that has an end comes to it, whatever its stride, and not by a
\* failed operation, unless the user stops it (workload.cc:23-25).
HasEnd == Scanning(cfg.direction) /\ ~ Endless(cfg) /\ Suits(cfg)

Finishes == HasEnd ~> walk \in {"over", "quit"}

\* An operation is on one block (README.md:27, "Size of blocks in bytes to use
\* for IO operations"): every byte touched is on the block of an operation.
OneBlockEach ==
  \A b \in touched : \E k \in 0 .. n - 1 : \E r \in Draws(cfg) :
    b - PrepareOffset(k, r, cfg) \in 0 .. cfg.block_size - 1
=============================================================================
