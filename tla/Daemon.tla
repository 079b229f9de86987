-------------------------------- MODULE Daemon --------------------------------
(***************************************************************************)
(* The main goroutine of sasd and its readiness monitor, from the start of *)
(* the run service to the end of the process; and `sasctl doctor`, a       *)
(* process of one report.                                                  *)
(***************************************************************************)
EXTENDS Doctor

VARIABLES
  phase,    \* where main is
  monitor,  \* where monitorReadiness is
  tick,     \* the ticker's channel holds a tick
  ready     \* what /readyz answers

daemonVars == <<phase, monitor, tick, ready>>
allVars    == <<doctorVars, daemonVars>>

Phases   == {"command", "serving", "joining", "draining", "closing", "exited"}
Monitors == {"idle", "checking", "waiting", "done"}

Running == phase \notin {"command", "exited"}

-------------------------------------------------------------------------------
(* monitorReadiness. *)

\* Mutation: the loop starts over without a look at the context.
NeverEnded == FALSE

Ended == cancelled

StartCheck ==
  /\ Running /\ monitor = "idle" /\ ~Ended
  /\ monitor' = "checking"
  /\ Begin
  /\ UNCHANGED <<setup, wrong, cancelled, changes, phase, tick, ready>>

\* A check of the monitor, or of the command.
Probe ==
  /\ (Running /\ monitor = "checking") \/ phase = "command"
  /\ Check
  /\ UNCHANGED daemonVars

\* Mutation: once ready, always ready.
OnceReady == ready \/ ~RequiredFailures

Verdict == ~RequiredFailures

FinishCheck ==
  /\ Running /\ monitor = "checking" /\ Complete
  /\ monitor' = "waiting" /\ ready' = Verdict
  /\ UNCHANGED <<doctorVars, phase, tick>>

\* The channel of the ticker holds one tick.
TickerFires ==
  /\ Running /\ monitor # "done" /\ ~tick
  /\ tick' = TRUE
  /\ UNCHANGED <<doctorVars, phase, monitor, ready>>

\* The select may choose the tick although the context has ended.
Wake ==
  /\ Running /\ monitor = "waiting" /\ tick
  /\ monitor' = "idle" /\ tick' = FALSE
  /\ UNCHANGED <<doctorVars, phase, ready>>

MonitorEnds ==
  /\ Running
  /\ \/ monitor = "waiting" /\ cancelled
     \/ monitor = "idle" /\ Ended
  /\ monitor' = "done"
  /\ UNCHANGED <<doctorVars, phase, tick, ready>>

-------------------------------------------------------------------------------
(* main. *)

Signal ==
  /\ phase = "serving"
  /\ phase' = "joining" /\ cancelled' = TRUE
  /\ UNCHANGED <<setup, wrong, report, steady, ever, changes, monitor, tick, ready>>

\* <-readinessDone; the mock executor has no monitor.
Join ==
  /\ phase = "joining" /\ monitor = "done"
  /\ phase' = "draining"
  /\ UNCHANGED <<doctorVars, monitor, tick, ready>>

\* Shutdown returns when no handler is left, and by SAS_SHUTDOWN_TIMEOUT at the
\* latest; then service.Close waits for the workers.
Drain ==
  /\ phase = "draining"
  /\ phase' = "closing"
  /\ UNCHANGED <<doctorVars, monitor, tick, ready>>

Exit ==
  /\ phase = "closing"
  /\ phase' = "exited"
  /\ UNCHANGED <<doctorVars, monitor, tick, ready>>

\* ListenAndServe fails, or another signal comes after stopSignals: the process
\* ends without service.Close.
Abort ==
  /\ phase \in {"serving", "joining", "draining", "closing"}
  /\ phase' = "exited"
  /\ UNCHANGED <<doctorVars, monitor, tick, ready>>

\* sasctl doctor exits with the verdict on its report.
CommandEnds ==
  /\ phase = "command" /\ Complete
  /\ phase' = "exited"
  /\ UNCHANGED <<doctorVars, monitor, tick, ready>>

Monitor == StartCheck \/ Probe \/ FinishCheck \/ MonitorEnds
Main    == Join \/ Drain \/ Exit \/ CommandEnds

InitDaemon ==
  /\ InitDoctor
  /\ phase = IF setup.full THEN "command" ELSE "serving"
  /\ monitor = IF Real THEN "idle" ELSE "done"
  /\ ready = ~Real
  /\ tick = FALSE

NextDaemon ==
  \/ Monitor \/ Wake \/ TickerFires \/ Main \/ Signal \/ Abort
  \/ Change /\ phase # "exited" /\ UNCHANGED daemonVars

\* Every goroutine that can take a step does, every probe ends unless its output
\* is held (its context has a deadline), and the ticker ticks.  A select with two ready cases may always
\* take the same one.
FairDaemon ==
  /\ WF_allVars(Monitor \/ Wake) /\ WF_allVars(Main) /\ WF_allVars(TickerFires)

SpecDaemon == InitDaemon /\ [][NextDaemon]_allVars /\ FairDaemon

-------------------------------------------------------------------------------
(* Properties. *)

DaemonTypeOK ==
  /\ setup \in Setups /\ wrong \subseteq Facts
  /\ report \in [Checks -> {"absent", "pending", "running", "passed", "failed", "unknown", "skipped"}]
  /\ cancelled \in BOOLEAN /\ steady \subseteq wrong /\ wrong \subseteq ever /\ ever \subseteq Facts
  /\ changes \in 0..MaxChanges
  /\ phase \in Phases /\ monitor \in Monitors /\ tick \in BOOLEAN /\ ready \in BOOLEAN

\* While sasd serves, /readyz comes to tell the truth, and to stay with it: 503
\* for a lasting outage of anything required, 200 when all is well for good.
ReadinessConverges ==
  /\ <>[](Real /\ phase = "serving" /\ wrong \cap Relevant = {} /\ "output_held" \notin wrong) => <>[]ready
  /\ <>[](Real /\ phase = "serving" /\ wrong \cap Relevant # {} /\ "output_held" \notin wrong) => <>[]~ready

\* A signal ends the process, whatever the monitor is doing and whatever else is
\* wrong, unless the output of a command stays open: main waits for the monitor
\* before SAS_SHUTDOWN_TIMEOUT begins, and without a timeout of its own.
DaemonStops == <>[]("output_held" \notin wrong) => (phase = "joining" ~> phase = "exited")
===============================================================================
