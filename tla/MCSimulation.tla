--------------------------- MODULE MCSimulation -----------------------------
(***************************************************************************)
(* Instances of Simulation for TLC.  Offsets are in units of one block; a  *)
(* region of two blocks makes a sequential thread meet its end.            *)
(***************************************************************************)
EXTENDS Simulation

\* A random read of blocks from two threads, stopped after three of them.
RndSpace ==
  [threads |-> 2, io_type |-> "stateless", workload |-> "rnd",
   operation |-> "read", direction |-> "forward", dist |-> "uniform",
   sigma |-> -1, offset |-> 0, length |-> 2, device_length |-> 2, stride |-> 1,
   block_size |-> 1, duration_unit |-> "space", duration |-> 3,
   sample_step |-> 1000, pause_interval |-> 0, queue_depth |-> 1,
   use_eventfd |-> FALSE, direct_io |-> TRUE, buffered |-> FALSE,
   append_only |-> FALSE, local_fd |-> FALSE, silent |-> TRUE, output |-> TRUE]

RndTime == [RndSpace EXCEPT !.duration_unit = "time", !.duration = 1]

\* A scan of one block by two threads with descriptors of their own; it ends
\* before its volume is reached.
SeqSpace ==
  [RndSpace EXCEPT !.workload = "seq", !.io_type = "stateful", !.length = 1,
                   !.duration = 9, !.local_fd = TRUE, !.output = FALSE]

Interactive ==
  [SeqSpace EXCEPT !.threads = 1, !.duration_unit = "interactive",
                   !.length = 2, !.direction = "backward",
                   !.local_fd = FALSE]

\* Two threads for a time, every latency recorded.
Latencies == [RndTime EXCEPT !.sample_step = 0]

One(c)    == [c EXCEPT !.threads = 1]

CfgSpace       == <<RndSpace>>
CfgLatencies   == <<Latencies>>
CfgInteractive == <<Interactive>>
CfgPair        == <<One(RndTime), SeqSpace>>
CfgRandomPair  == <<One(RndSpace), One(RndTime)>>
CfgLocalOutput == <<[RndSpace EXCEPT !.io_type = "stateful",
                                     !.local_fd = TRUE]>>
=============================================================================
