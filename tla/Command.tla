------------------------------ MODULE Command -------------------------------
(***************************************************************************)
(* From the command line to the bytes: parse_options, and then one thread  *)
(* of a synchronous engine with the configuration it leaves.  Options and  *)
(* Scan in sequence, as main of rebench.cc runs them.                      *)
(***************************************************************************)
EXTENDS Options, Scan

commandVars == <<optVars, scanVars>>

CommandInit ==
  /\ ParseInit
  /\ cfg = Defaults
  /\ n = 0 /\ touched = {} /\ walk = "on"

Parsing == ParseNext /\ UNCHANGED scanVars

\* The thread starts, with ws->config as its config.
StartScan ==
  /\ parse = "accepted"
  /\ Synchronous(conf) /\ ~ Unchecked(conf)
  /\ cfg' = conf
  /\ walk' = Begin(conf)
  /\ parse' = "running"
  /\ UNCHANGED <<line, conf, confirmed, n, touched>>

Scanner == parse = "running" /\ ScanNext /\ UNCHANGED optVars

CommandNext == Parsing \/ StartScan \/ Scanner

CommandSpec == CommandInit /\ [][CommandNext]_commandVars

\* The program is scheduled, the disk and the user answer.
FairCommand == CommandSpec /\ WF_commandVars(CommandNext)

-----------------------------------------------------------------------------
\* No byte is written that the user did not agree to, by his answer or by
\* asking for a silent run, whichever way the operation and the silence came
\* into the configuration (opts.cc:430-448).
WritesAgreed ==
  touched # {} /\ cfg.operation = "write" => confirmed \/ cfg.silent
=============================================================================
