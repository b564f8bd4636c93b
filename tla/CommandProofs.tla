--------------------------- MODULE CommandProofs ----------------------------
(***************************************************************************)
(* A proof about Command for every command line, device and sector: the    *)
(* question before a write cannot be evaded.                               *)
(***************************************************************************)
EXTENDS Command, TLAPS

\* The inductive invariant: past the question a configuration that asks has
\* been confirmed, the thread runs with that configuration, and nothing is
\* touched before it runs.
AgreedInv ==
  /\ {"operation", "silent"} \subseteq DOMAIN conf
  /\ parse \in {"sizes", "accepted"} /\ Asks(conf) => confirmed
  /\ parse = "running" /\ Asks(cfg) => confirmed
  /\ parse # "running" => touched = {}

LEMMA AgreedInit == CommandInit => AgreedInv
  BY DEF CommandInit, ParseInit, AgreedInv, Defaults

\* Neither the default of sigma nor the sizes change what is asked about.
LEMMA AskingKept ==
  ASSUME {"operation", "silent"} \subseteq DOMAIN conf
  PROVE  /\ {"operation", "silent"} \subseteq DOMAIN WithSigma(conf)
         /\ Asks(WithSigma(conf)) <=> Asks(conf)
         /\ {"operation", "silent"} \subseteq DOMAIN Parsed
         /\ Asks(Parsed) <=> Asks(conf)
<1>1. /\ {"operation", "silent"} \subseteq DOMAIN WithSigma(conf)
      /\ Asks(WithSigma(conf)) <=> Asks(conf)
  BY DEF WithSigma, Asks
<1>2. /\ {"operation", "silent"} \subseteq DOMAIN Parsed
      /\ Asks(Parsed) <=> Asks(conf)
  BY DEF Parsed, Asks
<1> QED
  BY <1>1, <1>2

LEMMA AgreedStep == AgreedInv /\ [CommandNext]_commandVars => AgreedInv'
<1> SUFFICES ASSUME AgreedInv, [CommandNext]_commandVars PROVE AgreedInv'
  OBVIOUS
<1>1. CASE UNCHANGED commandVars
  BY <1>1 DEF AgreedInv, commandVars, optVars, scanVars, Asks
<1>2. CASE Parsing
  <2>1. UNCHANGED scanVars
    BY <1>2 DEF Parsing
  <2>2. CASE TakeOptions
    <3>1. /\ {"operation", "silent"} \subseteq DOMAIN conf'
          /\ parse = "options" /\ parse' \in {"check", "exit"}
      BY <2>2 DEF TakeOptions, Defaults
    <3> QED
      BY <2>1, <3>1 DEF AgreedInv, scanVars
  <2>3. CASE Refuse
    BY <2>1, <2>3 DEF Refuse, AgreedInv, scanVars
  <2>4. CASE PassChecks
    <3>1. /\ parse = "check" /\ conf' = WithSigma(conf)
          /\ parse' = IF Asks(conf) THEN "ask" ELSE "sizes"
      BY <2>4 DEF PassChecks
    <3>2. /\ {"operation", "silent"} \subseteq DOMAIN conf'
          /\ Asks(conf)' <=> Asks(conf)
      BY <3>1, AskingKept DEF AgreedInv, Asks
    <3> QED
      BY <2>1, <3>1, <3>2 DEF AgreedInv, scanVars
  <2>5. CASE Confirm
    BY <2>1, <2>5 DEF Confirm, AgreedInv, scanVars
  <2>6. CASE ParseSizes
    <3>1. /\ parse = "sizes" /\ parse' \in {"exit", "accepted"}
          /\ conf' = conf \/ conf' = Parsed
          /\ confirmed' = confirmed
      BY <2>6 DEF ParseSizes
    <3>2. /\ {"operation", "silent"} \subseteq DOMAIN conf'
          /\ Asks(conf)' <=> Asks(conf)
      BY <3>1, AskingKept DEF AgreedInv, Asks
    <3> QED
      BY <2>1, <3>1, <3>2 DEF AgreedInv, scanVars
  <2> QED
    BY <1>2, <2>2, <2>3, <2>4, <2>5, <2>6 DEF Parsing, ParseNext
<1>3. CASE StartScan
  BY <1>3 DEF StartScan, AgreedInv, Asks
<1>4. CASE Scanner
  BY <1>4 DEF Scanner, ScanNext, AgreedInv, optVars, Asks
<1> QED
  BY <1>1, <1>2, <1>3, <1>4 DEF CommandNext

\* Whatever the command line, no byte is written without the user's consent.
THEOREM WritesAreAgreed == CommandSpec => []WritesAgreed
<1>1. AgreedInv => WritesAgreed
  BY DEF AgreedInv, WritesAgreed, Asks
<1> QED
  BY <1>1, AgreedInit, AgreedStep, PTL DEF CommandSpec
=============================================================================
