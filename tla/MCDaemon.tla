------------------------------- MODULE MCDaemon -------------------------------
(***************************************************************************)
(* The daemon, and the rate limiter of the HTTP API it serves.  They share *)
(* no variable: here the requests come while a daemon without a monitor    *)
(* serves, and the limiter of every other daemon rests.                    *)
(***************************************************************************)
EXTENDS Daemon, MCRateLimiter

bothVars == <<allVars, vars>>

LimiterRests == minute = 0 /\ Waiting = {} /\ Answered = {}
DaemonRests  == /\ setup = [executor |-> "mock", full |-> FALSE, docker |-> FALSE]
                /\ wrong = {} /\ changes = 0 /\ phase = "serving"

Alone(A) == LimiterRests /\ A /\ UNCHANGED vars

InitBoth == InitDaemon /\ Init

SpecBoth ==
  /\ InitBoth
  /\ [][Alone(NextDaemon) \/ (DaemonRests /\ Next /\ UNCHANGED allVars)]_bothVars
  /\ WF_bothVars(Alone(Monitor \/ Wake)) /\ WF_bothVars(Alone(Main)) /\ WF_bothVars(Alone(TickerFires))

BothTypeOK == DaemonTypeOK /\ TypeOK
===============================================================================
