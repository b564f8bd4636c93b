------------------------------- MODULE MCAio --------------------------------
(***************************************************************************)
(* Instances of Aio for TLC: both engines and the eventfd, queues of none  *)
(* to three, threads stopped by time, by volume, by the user and by the    *)
(* end of their region, alone or beside others of the workload.            *)
(***************************************************************************)
EXTENDS Aio

Rnd(type, eventfd, depth, unit) ==
  [threads |-> 1, io_type |-> type, workload |-> "rnd",
   operation |-> "read", direction |-> "forward", dist |-> "uniform",
   sigma |-> -1, offset |-> 0, length |-> 2, device_length |-> 2, stride |-> 1,
   block_size |-> 2, duration_unit |-> unit, duration |-> 7,
   sample_step |-> 1000, pause_interval |-> 0, queue_depth |-> depth,
   use_eventfd |-> eventfd, direct_io |-> TRUE, buffered |-> FALSE,
   append_only |-> FALSE, local_fd |-> FALSE, silent |-> TRUE, output |-> FALSE]

Kinds == {<<"paio", FALSE>>, <<"naio", FALSE>>, <<"naio", TRUE>>}
Units == {"time", "space", "interactive"}

Stopped == {Rnd(k[1], k[2], d, u) : k \in Kinds, d \in 1 .. 3, u \in Units}
Empty   == {Rnd(k[1], k[2], 0, "time") : k \in Kinds}
Scans   == {[Rnd(k[1], k[2], d, "time") EXCEPT !.workload = "seq",
                                               !.length = l, !.device_length = 5] :
              k \in Kinds, d \in 1 .. 3, l \in {1, 2, 5}}
Trims   == {[c EXCEPT !.operation = "trim"] :
              c \in {Rnd(k[1], k[2], 2, "time") : k \in Kinds}}

\* Beside other threads: a volume, a region that ends, trims.
Beside  == {[c EXCEPT !.threads = 2] :
              c \in {Rnd(k[1], k[2], d, "space") : k \in Kinds, d \in 1 .. 2}
                      \cup {s \in Scans : s.queue_depth = 2 /\ s.length = 2}
                      \cup {s \in Trims : s.io_type = "paio"}}

\* A block above the page that is no power of two.
Odd     == {[Rnd(k[1], k[2], 1, "time") EXCEPT !.block_size = 3] : k \in Kinds}

AioConfigs == Stopped \cup Empty \cup Scans \cup Trims \cup Beside \cup Odd
=============================================================================
