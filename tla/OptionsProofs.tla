--------------------------- MODULE OptionsProofs ----------------------------
(***************************************************************************)
(* A proof about Options for every command line, device and width of an    *)
(* int: what parse_options accepts is a configuration that the models of   *)
(* the engines assume, but for the numbers it never checks.                *)
(***************************************************************************)
EXTENDS Options, TLAPS

\* The fields and the types they have whatever the command line says.
FieldNames ==
  {"threads", "io_type", "workload", "operation", "direction", "dist", "sigma",
   "offset", "length", "device_length", "stride", "block_size", "duration_unit",
   "duration", "sample_step", "pause_interval", "queue_depth", "use_eventfd",
   "direct_io", "buffered", "append_only", "local_fd", "silent", "output"}

Sized == {"offset", "length", "device_length", "stride", "block_size", "duration"}

IsConf(c) ==
  /\ c = [f \in FieldNames |-> c[f]]
  /\ \A f \in Numbers \cup Sized : c[f] \in Int
  /\ \A f \in Flags : c[f] \in BOOLEAN
  /\ c.duration_unit \in {"time", "space", "interactive"}

ParseInv ==
  /\ line \in Lines
  /\ IsConf(conf)
  /\ parse \in {"check", "ask", "sizes", "accepted"} => Valid(conf)
  /\ parse \in {"ask", "sizes", "accepted"} => ~ Misused(conf) /\ ~ Refused(conf)
  /\ parse = "accepted" =>
       /\ ~ QueueRefused(conf) /\ Clamped(conf) /\ Conversable(conf)
       /\ conf.device_length \in Nat

LEMMA ProductInt == \A a, b \in Int : a * b \in Int
  OBVIOUS

LEMMA PercentInt == \A a \in Int : a \div 100 \in Int
  OBVIOUS

LEMMA ParseSizeInt ==
  ASSUME NEW s \in Size, NEW full \in Int
  PROVE  ParseSize(s, full) \in Int
<1>1. /\ s.n \in Int /\ s.unit \in {"none", "percent", "k", "m", "g", "i"}
      /\ Kilo \in Int
  BY SizesAssumption DEF Size
<1>2. (full * s.n) \div 100 \in Int
  BY <1>1, ProductInt, PercentInt
<1>3. s.n * Kilo \in Int /\ s.n * Kilo * Kilo \in Int
      /\ s.n * Kilo * Kilo * Kilo \in Int
  BY <1>1, ProductInt
<1>4. CASE s.unit \in {"none", "i"}
  BY <1>1, <1>4 DEF ParseSize
<1>5. CASE s.unit = "percent"
  BY <1>2, <1>5 DEF ParseSize
<1>6. CASE s.unit = "k"
  BY <1>3, <1>6 DEF ParseSize
<1>7. CASE s.unit = "m"
  BY <1>3, <1>7 DEF ParseSize
<1>8. CASE s.unit = "g"
  BY <1>3, <1>8 DEF ParseSize
<1> QED
  BY <1>1, <1>4, <1>5, <1>6, <1>7, <1>8

LEMMA GivenInt ==
  ASSUME line \in Lines, NEW a \in {"length", "offset", "block_size", "stride", "duration"},
         NEW d \in Int
  PROVE  Given(a, d) \in Int
<1>1. a \in DOMAIN line.sizes => line.sizes[a] \in Size
  BY LinesAssumption
<1>2. DeviceLength \in Int
  BY SizesAssumption
<1> QED
  BY <1>1, <1>2, ParseSizeInt DEF Given

LEMMA ToIntInt == ASSUME NEW x \in Int PROVE ToInt(x) \in Int
<1>1. IntRange \in Nat \ {0}
  BY SizesAssumption
<1>2. IntRange \div 2 \in Int
  BY <1>1
<1>3. (x + IntRange \div 2) % IntRange \in Int
  BY <1>1, <1>2
<1> QED
  BY <1>2, <1>3 DEF ToInt

LEMMA DefaultsConf == IsConf(Defaults)
  BY DEF IsConf, Defaults, FieldNames, Numbers, Flags, Sized

LEMMA TakenConf ==
  ASSUME line \in Lines
  PROVE  IsConf([f \in DOMAIN Defaults |->
                   IF f \in DOMAIN line.given THEN line.given[f] ELSE Defaults[f]])
<1> DEFINE c == [f \in DOMAIN Defaults |->
                   IF f \in DOMAIN line.given THEN line.given[f] ELSE Defaults[f]]
<1>1. DOMAIN Defaults = FieldNames
  BY DEF Defaults, FieldNames
<1>2. DOMAIN line.given \subseteq Numbers \cup Flags \cup Words
  BY LinesAssumption
<1>4. c = [f \in FieldNames |-> IF f \in DOMAIN line.given THEN line.given[f]
                                                           ELSE Defaults[f]]
  BY <1>1
<1>5. \A f \in FieldNames : c[f] = IF f \in DOMAIN line.given THEN line.given[f]
                                                               ELSE Defaults[f]
  BY <1>4
<1>6. c = [f \in FieldNames |-> c[f]]
  BY <1>4
<1>7. \A f \in Numbers \cup Sized : c[f] \in Int
  <2>1. \A f \in Numbers \cup Sized : f \in FieldNames /\ Defaults[f] \in Int
    BY DefaultsConf DEF IsConf, Numbers, Sized, FieldNames
  <2>2. \A f \in Numbers \cup Sized :
          f \in DOMAIN line.given => line.given[f] \in Int
    BY <1>2, LinesAssumption DEF Numbers, Sized, Flags, Words
  <2> QED
    BY <1>5, <2>1, <2>2
<1>8. \A f \in Flags : c[f] \in BOOLEAN
  <2>1. \A f \in Flags : f \in FieldNames /\ Defaults[f] \in BOOLEAN
    BY DefaultsConf DEF IsConf, Flags, FieldNames
  <2>2. \A f \in Flags : f \in DOMAIN line.given => line.given[f] \in BOOLEAN
    BY LinesAssumption
  <2> QED
    BY <1>5, <2>1, <2>2
<1>9. c.duration_unit = "time"
  <2>1. "duration_unit" \in FieldNames /\ "duration_unit" \notin DOMAIN line.given
    BY <1>2 DEF FieldNames, Numbers, Flags, Words
  <2>2. Defaults.duration_unit = "time"
    BY DEF Defaults
  <2> QED
    BY <1>5, <2>1, <2>2
<1> HIDE DEF c
<1>10. IsConf(c)
  BY <1>6, <1>7, <1>8, <1>9 DEF IsConf
<1> QED
  BY <1>10 DEF c

LEMMA SigmaKept ==
  ASSUME NEW c, IsConf(c), Valid(c), ~ Misused(c), ~ Refused(c)
  PROVE  IsConf(WithSigma(c)) /\ Valid(WithSigma(c))
         /\ ~ Misused(WithSigma(c)) /\ ~ Refused(WithSigma(c))
<1>1. CASE c.sigma = -1 /\ c.dist \in {"normal", "power"}
  <2>1. WithSigma(c) = [c EXCEPT !.sigma = 5]
    BY <1>1 DEF WithSigma
  <2>2. \A f \in FieldNames :
          WithSigma(c)[f] = IF f = "sigma" THEN 5 ELSE c[f]
    BY <2>1 DEF IsConf
  <2>3. WithSigma(c) = [f \in FieldNames |-> WithSigma(c)[f]]
    BY <2>1 DEF IsConf
  <2> HIDE DEF WithSigma
  <2>4. IsConf(WithSigma(c))
    BY <2>2, <2>3 DEF IsConf, FieldNames, Numbers, Flags, Sized
  <2>5. Valid(WithSigma(c)) /\ ~ Misused(WithSigma(c)) /\ ~ Refused(WithSigma(c))
    BY <1>1, <2>2 DEF Valid, Misused, Refused, Asynchronous, FieldNames
  <2> QED
    BY <2>4, <2>5
<1>2. CASE ~ (c.sigma = -1 /\ c.dist \in {"normal", "power"})
  BY <1>2 DEF WithSigma
<1> QED
  BY <1>1, <1>2

LEMMA ParsedFacts ==
  ASSUME line \in Lines, IsConf(conf)
  PROVE  /\ IsConf(Parsed)
         /\ Parsed.device_length = DeviceLength /\ DeviceLength \in Nat
         /\ Parsed.offset + Parsed.length <= DeviceLength
         /\ \A f \in FieldNames \ (Sized \cup {"duration_unit"}) :
              Parsed[f] = conf[f]
<1> DEFINE off == Given("offset", conf.offset)
           len == SetLength(Given("length", conf.length), off)
           bs  == ToInt(Given("block_size", conf.block_size))
           st  == ToInt(Given("stride", conf.stride))
<1>0. /\ DeviceLength \in Nat
      /\ \A f \in Numbers \cup Sized : conf[f] \in Int
      /\ conf = [f \in FieldNames |-> conf[f]]
  BY SizesAssumption DEF IsConf
<1>1. off \in Int /\ Given("length", conf.length) \in Int
      /\ Given("block_size", conf.block_size) \in Int
      /\ Given("stride", conf.stride) \in Int /\ Given("duration", conf.duration) \in Int
  BY <1>0, GivenInt DEF Sized
<1>2. len \in Int /\ off + len <= DeviceLength
  BY <1>0, <1>1 DEF SetLength
<1>3. bs \in Int /\ st \in Int
  BY <1>1, ToIntInt
<1>4. DurationUnit \in {"time", "space", "interactive"}
  BY DEF DurationUnit, IsConf
<1>5. Duration \in Int
  BY <1>1 DEF Duration
<1>6. Parsed = [conf EXCEPT !.device_length = DeviceLength, !.offset = off,
                            !.length = len, !.block_size = bs, !.stride = st,
                            !.duration = Duration, !.duration_unit = DurationUnit]
  BY DEF Parsed
<1> HIDE DEF off, len, bs, st
<1>7. Parsed = [f \in FieldNames |->
                  CASE f = "device_length" -> DeviceLength
                    [] f = "offset" -> off
                    [] f = "length" -> len
                    [] f = "block_size" -> bs
                    [] f = "stride" -> st
                    [] f = "duration" -> Duration
                    [] f = "duration_unit" -> DurationUnit
                    [] OTHER -> conf[f]]
  BY <1>0, <1>6
<1>8. /\ Parsed.device_length = DeviceLength /\ Parsed.offset = off
      /\ Parsed.length = len /\ Parsed.block_size = bs /\ Parsed.stride = st
      /\ Parsed.duration = Duration /\ Parsed.duration_unit = DurationUnit
  BY <1>7 DEF FieldNames
<1>9. \A f \in FieldNames \ (Sized \cup {"duration_unit"}) : Parsed[f] = conf[f]
  BY <1>7 DEF Sized
<1>10. Parsed = [f \in FieldNames |-> Parsed[f]]
  BY <1>7
<1>11. IsConf(Parsed)
  <2>1. \A f \in Sized : Parsed[f] \in Int
    BY <1>0, <1>1, <1>2, <1>3, <1>5, <1>8 DEF Sized
  <2>2. \A f \in Numbers : Parsed[f] \in Int
    BY <1>0, <1>9 DEF Numbers, Sized, FieldNames
  <2>3. \A f \in Flags : Parsed[f] \in BOOLEAN
    BY <1>9 DEF IsConf, Flags, Sized, FieldNames
  <2> QED
    BY <1>4, <1>8, <1>10, <2>1, <2>2, <2>3 DEF IsConf
<1> QED
  BY <1>0, <1>2, <1>8, <1>9, <1>11

LEMMA ParsedKept ==
  ASSUME line \in Lines, IsConf(conf), Valid(conf), ~ Misused(conf),
         ~ Refused(conf), ~ QueueRefused(conf)
  PROVE  /\ Valid(Parsed) /\ ~ Misused(Parsed) /\ ~ Refused(Parsed)
         /\ ~ QueueRefused(Parsed)
<1>1. \A f \in FieldNames \ (Sized \cup {"duration_unit"}) : Parsed[f] = conf[f]
  BY ParsedFacts
<1>2. \A f \in Numbers \cup Flags \cup Words : Parsed[f] = conf[f]
  BY <1>1 DEF Numbers, Flags, Words, Sized, FieldNames
<1> QED
  BY <1>2 DEF Numbers, Flags, Words, Valid, Misused, Refused, QueueRefused,
              Asynchronous

LEMMA ParseInvInit == ParseInit => ParseInv
  BY DefaultsConf DEF ParseInit, ParseInv

LEMMA ParseInvStep == ParseInv /\ [ParseNext]_optVars => ParseInv'
<1> SUFFICES ASSUME ParseInv, [ParseNext]_optVars PROVE ParseInv'
  OBVIOUS
<1>1. CASE TakeOptions
  <2>1. /\ line' = line /\ line \in Lines
        /\ (parse' = "check" /\ Valid(conf')) \/ parse' = "exit"
    BY <1>1 DEF TakeOptions, ParseInv
  <2>2. IsConf(conf')
    BY <1>1, <2>1, TakenConf DEF TakeOptions
  <2> QED
    BY <2>1, <2>2 DEF ParseInv
<1>2. CASE Refuse
  BY <1>2 DEF Refuse, ParseInv
<1>3. CASE PassChecks
  <2>1. line' = line /\ conf' = WithSigma(conf) /\ parse' \in {"ask", "sizes"}
        /\ ~ Misused(conf) /\ ~ Refused(conf) /\ parse = "check"
    BY <1>3 DEF PassChecks
  <2> QED
    BY <2>1, SigmaKept DEF ParseInv
<1>4. CASE Confirm
  BY <1>4 DEF Confirm, ParseInv
<1>5. CASE ParseSizes
  <2>1. CASE QueueRefused(conf)
    BY <1>5, <2>1 DEF ParseSizes, ParseInv
  <2>2. CASE ~ QueueRefused(conf)
    <3>1. line' = line /\ conf' = Parsed
          /\ ((parse' = "accepted" /\ Conversable(conf')) \/ parse' = "exit")
      BY <1>5, <2>2 DEF ParseSizes
    <3>2. Valid(conf) /\ ~ Misused(conf) /\ ~ Refused(conf)
      BY <1>5 DEF ParseSizes, ParseInv
    <3> QED
      BY <2>2, <3>1, <3>2, ParsedFacts, ParsedKept DEF ParseInv, Clamped
  <2> QED
    BY <2>1, <2>2
<1>6. CASE UNCHANGED optVars
  BY <1>6 DEF ParseInv, optVars
<1> QED
  BY <1>1, <1>2, <1>3, <1>4, <1>5, <1>6 DEF ParseNext

\* Whatever the command line, a configuration that is accepted is one the
\* engines' models assume, unless a number is out of the range that
\* parse_options leaves unchecked.
THEOREM AcceptedConfigurations == ParseSpec => []AcceptedIsSound
<1>1. ParseInv => AcceptedIsSound
  <2> SUFFICES ASSUME ParseInv, parse = "accepted", ~ Unchecked(conf)
               PROVE  conf \in ConfigType /\ Accepted(conf)
    BY DEF AcceptedIsSound
  <2>1. Accepted(conf)
    BY DEF ParseInv, Accepted
  <2>2. /\ conf.threads \in Int /\ conf.sigma \in Int /\ conf.sample_step \in Int
        /\ conf.pause_interval \in Int /\ conf.queue_depth \in Int
        /\ conf.offset \in Int /\ conf.length \in Int /\ conf.stride \in Int
        /\ conf.block_size \in Int /\ conf.duration \in Int
        /\ conf.device_length \in Nat
    BY DEF ParseInv, IsConf, Numbers, Sized
  <2>3. /\ conf.use_eventfd \in BOOLEAN /\ conf.direct_io \in BOOLEAN
        /\ conf.buffered \in BOOLEAN /\ conf.append_only \in BOOLEAN
        /\ conf.local_fd \in BOOLEAN /\ conf.silent \in BOOLEAN
        /\ conf.output \in BOOLEAN
    BY DEF ParseInv, IsConf, Flags
  <2>4. /\ conf.stride \in Nat \ {0} /\ conf.block_size \in Nat \ {0}
        /\ conf.duration \in Nat /\ conf.offset \in Nat /\ conf.length \in Nat
    BY <2>2 DEF Unchecked
  <2>5. conf.threads \in Nat \ {0}
    BY <2>2 DEF ParseInv, Refused
  <2>6. Valid(conf) /\ conf.duration_unit \in {"time", "space", "interactive"}
        /\ conf = [f \in FieldNames |-> conf[f]]
    BY DEF ParseInv, IsConf
  <2>7. conf \in ConfigType
    BY <2>2, <2>3, <2>4, <2>5, <2>6 DEF ConfigType, Valid, FieldNames
  <2> QED
    BY <2>1, <2>7
<1> QED
  BY <1>1, ParseInvInit, ParseInvStep, PTL DEF ParseSpec
=============================================================================
