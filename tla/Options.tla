------------------------------ MODULE Options -------------------------------
(***************************************************************************)
(* The command line: parse_options of opts.cc, from the defaults and the   *)
(* options given, through its checks in their order and the question it    *)
(* asks before a write, to the configuration of a workload.  Each option   *)
(* writes a field of its own, the last of its kind wins: a command line is *)
(* what is left of it, the fields given and the sizes still to be parsed.  *)
(***************************************************************************)
EXTENDS Workload

CONSTANTS
  Lines,          \* the command lines a run considers
  DeviceLength,   \* get_device_length
  Kilo,           \* the 1024 of parse_size
  IntRange        \* the values of an int: 2^32 in the code

\* A size: a number and what follows it.  The empty string reads as -1; the
\* duration i is a unit alone.
Size == [n : Int, unit : {"none", "percent", "k", "m", "g", "i"}]

\* The fields an option writes into the configuration as it is met.
Numbers == {"threads", "sigma", "sample_step", "pause_interval", "queue_depth"}
Flags   == {"use_eventfd", "direct_io", "buffered", "append_only", "local_fd",
            "silent", "output"}
Words   == {"io_type", "workload", "operation", "direction", "dist"}

\* given: those fields; sizes: the arguments kept as strings; device: whether
\* one is named.
ASSUME LinesAssumption ==
  \A l \in Lines :
    /\ DOMAIN l.given \subseteq Numbers \cup Flags \cup Words
    /\ \A f \in DOMAIN l.given :
         /\ f \in Numbers => l.given[f] \in Int
         /\ f \in Flags => l.given[f] \in BOOLEAN
    /\ DOMAIN l.sizes \subseteq {"length", "offset", "block_size", "stride", "duration"}
    /\ \A a \in DOMAIN l.sizes : l.sizes[a] \in Size
    /\ l.device \in BOOLEAN

ASSUME SizesAssumption ==
  DeviceLength \in Nat /\ Kilo \in Nat \ {0} /\ IntRange \in Nat \ {0}

VARIABLES
  line,       \* argv, fixed
  conf,       \* *config
  parse,      \* where parse_options stands
  confirmed   \* history: the user said yes

optVars == <<line, conf, parse, confirmed>>

\* init_workload_config
Defaults ==
  [threads |-> 1, io_type |-> "stateful", workload |-> "rnd",
   operation |-> "read", direction |-> "forward", dist |-> "uniform",
   sigma |-> -1, offset |-> 0, length |-> 0, device_length |-> 0,
   stride |-> 512, block_size |-> 512, duration_unit |-> "time",
   duration |-> 10, sample_step |-> 1000, pause_interval |-> 0,
   queue_depth |-> 1, use_eventfd |-> FALSE, direct_io |-> TRUE,
   buffered |-> FALSE, append_only |-> FALSE, local_fd |-> FALSE,
   silent |-> FALSE, output |-> FALSE]

\* What the option loop compares the arguments with.
Valid(c) ==
  /\ c.workload \in {"rnd", "seq"}
  /\ c.io_type \in {"stateful", "stateless", "mmap", "paio", "naio"}
  /\ c.direction \in {"forward", "backward"}
  /\ c.operation \in {"read", "write", "trim"}
  /\ c.dist \in {"const", "uniform", "normal", "power"}

\* sigma = 5, for the distributions that have one.
WithSigma(c) ==
  IF c.sigma = -1 /\ c.dist \in {"normal", "power"}
    THEN [c EXCEPT !.sigma = 5] ELSE c

\* parse_size, in 64 bits.  (A float's rounding is left out.)
ParseSize(s, full) ==
  CASE s.unit \in {"none", "i"} -> s.n
    [] s.unit = "percent" -> (full * s.n) \div 100
    [] s.unit = "k" -> s.n * Kilo
    [] s.unit = "m" -> s.n * Kilo * Kilo
    [] s.unit = "g" -> s.n * Kilo * Kilo * Kilo

\* The conversion to int of block_size and stride.
ToInt(x) == ((x + IntRange \div 2) % IntRange) - IntRange \div 2

\* A size if it was given, or the field as it is.
Given(arg, default) ==
  IF arg \in DOMAIN line.sizes THEN ParseSize(line.sizes[arg], DeviceLength)
                               ELSE default

\* Set the length.  Mutant: the end is not moved to the end of the device.
SetLengthOnly(length, offset) ==
  IF length = 0 \/ length > DeviceLength THEN DeviceLength ELSE length
SetLength(length, offset) ==
  LET whole == IF length = 0 \/ length > DeviceLength THEN DeviceLength ELSE length
  IN  IF offset + whole > DeviceLength THEN DeviceLength - offset ELSE whole

\* parse_duration: seconds, a volume if it has a unit, or interactive.
DurationUnit ==
  IF "duration" \notin DOMAIN line.sizes THEN conf.duration_unit
  ELSE CASE line.sizes["duration"].unit = "i" -> "interactive"
         [] line.sizes["duration"].unit = "none" -> "time"
         [] OTHER                             -> "space"
Duration == IF DurationUnit = "interactive"
              THEN 0 ELSE Given("duration", conf.duration)

\* Sizes, the length, the duration.
Parsed ==
  LET offset == Given("offset", conf.offset) IN
  [conf EXCEPT !.device_length = DeviceLength,
               !.offset = offset,
               !.length = SetLength(Given("length", conf.length), offset),
               !.block_size = ToInt(Given("block_size", conf.block_size)),
               !.stride = ToInt(Given("stride", conf.stride)),
               !.duration = Duration,
               !.duration_unit = DurationUnit]

ParseInit ==
  /\ line \in Lines
  /\ conf = Defaults
  /\ parse = "options"
  /\ confirmed = FALSE

-----------------------------------------------------------------------------
\* getopt_long: an argument that is none of the option's names ends it.
TakeOptions ==
  /\ parse = "options"
  /\ conf' = [f \in DOMAIN Defaults |->
                IF f \in DOMAIN line.given THEN line.given[f] ELSE Defaults[f]]
  /\ parse' = IF Valid(conf') THEN "check" ELSE "exit"
  /\ UNCHANGED <<line, confirmed>>

\* The checks up to the question: before the device is taken, and after.
Refuse ==
  /\ parse = "check"
  /\ \/ Misused(conf) /\ parse' = "exit"
     \/ ~ Misused(conf) /\ ~ line.device /\ parse' = "usage"
     \/ ~ Misused(conf) /\ line.device /\ Refused(conf) /\ parse' = "exit"
  /\ UNCHANGED <<line, conf, confirmed>>

\* Mutant: a silent run is the one that asks.
AsksIfSilent(c) == c.operation = "write" /\ c.silent
Asks(c)         == c.operation = "write" /\ ~ c.silent

PassChecks ==
  /\ parse = "check"
  /\ ~ Misused(conf) /\ line.device /\ ~ Refused(conf)
  /\ conf' = WithSigma(conf)
  /\ parse' = IF Asks(conf) THEN "ask" ELSE "sizes"
  /\ UNCHANGED <<line, confirmed>>

\* "Are you sure you want to write": yes, or no (also a newline or the end of
\* the input); any other answer asks again.
Confirm ==
  /\ parse = "ask"
  /\ \/ parse' = "sizes" /\ confirmed' = TRUE
     \/ parse' = "exit" /\ UNCHANGED confirmed
  /\ UNCHANGED <<line, conf>>

\* The checks of the queue; the sizes; the last check.
ParseSizes ==
  /\ parse = "sizes"
  /\ IF QueueRefused(conf)
       THEN parse' = "exit" /\ UNCHANGED conf
       ELSE /\ conf' = Parsed
            /\ parse' = IF Conversable(conf') THEN "accepted" ELSE "exit"
  /\ UNCHANGED <<line, confirmed>>

ParseNext == TakeOptions \/ Refuse \/ PassChecks \/ Confirm \/ ParseSizes

ParseSpec == ParseInit /\ [][ParseNext]_optVars

-----------------------------------------------------------------------------
(* Properties *)

\* What parse_options does not check: a number below one, or negative, or an
\* offset past the end of the device.
Unchecked(c) ==
  \/ c.stride < 1 \/ c.block_size < 1 \/ c.duration < 0
  \/ c.offset \notin 0 .. c.device_length \/ c.length < 0

\* Whatever the options and their order, a configuration that is accepted is
\* one the engines are written for (it is what Engine and Scan assume), but
\* for the numbers that parse_options never looks at: the checks come before
\* the sizes are parsed, and the length is clamped after (opts.cc:386-484).
AcceptedIsSound ==
  parse = "accepted" /\ ~ Unchecked(conf) => conf \in ConfigType /\ Accepted(conf)
=============================================================================
