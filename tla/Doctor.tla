-------------------------------- MODULE Doctor --------------------------------
(***************************************************************************)
(* One report of internal/doctor: the checks of run, in the order in which *)
(* it establishes them, of a configuration and of an environment that may  *)
(* change meanwhile, under a context that may end at any time.             *)
(*                                                                         *)
(* A probe of a dependency that is down fails, or is "unknown" because it  *)
(* outlives its own timeout.                                               *)
(***************************************************************************)
EXTENDS Naturals, FiniteSets, Sequences

CONSTANTS MaxWrong,    \* bound: things wrong at a time
          MaxChanges   \* bound: changes of the environment

ASSUME DoctorBounds == MaxWrong \in Nat /\ MaxChanges \in Nat

\* The binary is looked up before the compose file is validated with it, and
\* reported after it.
Order == <<"configuration", "api_base_url", "api_health", "api_readiness",
           "agent_compose_binary", "compose_file", "agent_compose_version",
           "model_settings", "guest_image", "provider_settings", "provider_connectivity", "docker",
           "agent_compose_host", "octobus_host",
           "agent_compose_protocol", "octobus_protocol", "octobus_proxy", "network_dns">>

Checks      == {Order[i] : i \in DOMAIN Order}
ApiChecks   == {"api_base_url", "api_health", "api_readiness"}
Integration == {"agent_compose_binary", "compose_file", "agent_compose_version", "model_settings",
                "guest_image", "provider_settings", "provider_connectivity", "docker"}
Hosts       == {"agent_compose_host", "octobus_host"}
Protocols   == {"agent_compose_protocol", "octobus_protocol", "octobus_proxy", "network_dns"}

\* These run agent-compose or docker.
Commands == {"compose_file", "agent_compose_version", "docker", "agent_compose_protocol", "octobus_proxy"}

\* What may be wrong: a thing some check looks at; a host setting that is missing
\* or malformed; descendants of a command, which keep its output open.
Addresses == {"agent_compose_address", "octobus_address"}
Facts     == Checks \cup Addresses \cup {"output_held"}

\* What the process read when it started, and what may change under it.
Settings    == {"configuration", "api_base_url", "model_settings", "guest_image", "provider_settings"} \cup Addresses
Environment == Facts \ Settings

VARIABLES
  setup,      \* the executor, whether the API is probed, whether the compose file uses Docker
  wrong,      \* what is wrong with the configuration and the environment
  report,     \* the checks of the current report
  cancelled,  \* the context has ended
  steady,     \* history: what was wrong all the time since the report began
  ever,       \* history: what was wrong at any time since then
  changes

doctorVars == <<setup, wrong, report, cancelled, steady, ever, changes>>

Real == setup.executor = "agentcompose-cli"

Applies(c) == /\ c \in ApiChecks => setup.full
              /\ c \in Protocols => Real

Open(c)   == report[c] \in {"pending", "running"}
Passed(c) == report[c] = "passed"

Turn(c) == \E i \in DOMAIN Order :
             Order[i] = c /\ Open(c) /\ \A j \in 1..(i - 1) : ~Open(Order[j])

Complete == \A c \in Checks : ~Open(c)

Blank == [c \in Checks |-> IF Applies(c) THEN "pending" ELSE "absent"]

Begin ==
  /\ report' = Blank
  /\ steady' = wrong /\ ever' = wrong

-------------------------------------------------------------------------------
(* What a check needs before it looks at anything. *)

ConfigOK == "configuration" \notin wrong /\ (setup.full => "api_base_url" \notin wrong)

PassedFirst ==
  (({"api_health", "api_readiness", "octobus_protocol", "network_dns"} \cup Hosts) \X {"configuration"})
  \cup ({"compose_file", "agent_compose_version"} \X {"agent_compose_binary"})
  \cup ({"provider_connectivity"} \X {"compose_file", "provider_settings"})
  \cup ({"docker"} \X {"guest_image", "compose_file"})
  \cup ({"agent_compose_protocol", "octobus_proxy"} \X {"configuration", "agent_compose_binary"})

NeedsPassed(c) == {n \in Checks : <<c, n>> \in PassedFirst}

AddressesOf ==
  ({"agent_compose_host", "agent_compose_protocol", "octobus_proxy"} \X {"agent_compose_address"})
  \cup ({"octobus_host", "octobus_protocol"} \X {"octobus_address"})
  \cup ({"network_dns"} \X Addresses)

NeedsAddress(c) == {a \in Addresses : <<c, a>> \in AddressesOf}

Ready(c) == (\A n \in NeedsPassed(c) : Passed(n)) /\ NeedsAddress(c) \cap wrong = {}

\* These look at the configuration or at the file system and take no context.
Instant == {"configuration", "api_base_url", "agent_compose_binary", "model_settings",
            "guest_image", "provider_settings"}

\* What is wrong elsewhere and may, or may not, fail a check as well.
MayUpset ==
  ({"compose_file"} \X {"guest_image", "model_settings", "provider_settings"})
  \cup ({"provider_connectivity"} \X {"model_settings"})
  \cup ({"agent_compose_protocol"} \X {"agent_compose_host"})
  \cup ({"octobus_protocol"} \X {"octobus_host"})
  \cup ({"octobus_proxy"} \X ({"guest_image"} \cup Hosts))

Upset(c) == \E f \in wrong : <<c, f>> \in MayUpset

\* Some failures of these do not wait for the context, or for what they need.
EarlyFailure(c) ==
  /\ c \in Hosts \cup {"compose_file", "docker", "octobus_proxy", "network_dns"}
  /\ c \in wrong \/ NeedsAddress(c) \cap wrong # {} \/ Upset(c)

Finds(c) ==
  IF ~Ready(c) \/ (cancelled /\ c \notin Instant) THEN {"unknown"} \cup (IF EarlyFailure(c) THEN {"failed"} ELSE {})
  ELSE IF c \in wrong THEN {"failed"} \cup (IF c \in Instant THEN {} ELSE {"unknown"})
  ELSE {"passed"} \cup (IF Upset(c) THEN {"failed", "unknown"} ELSE {})

Answer(c, statuses) ==
  /\ Turn(c) /\ report[c] = "pending"
  /\ \E s \in statuses : report' = [report EXCEPT ![c] = s]
  /\ UNCHANGED <<setup, wrong, cancelled, steady, ever, changes>>

-------------------------------------------------------------------------------
(* The checks. *)

Configuration ==
  \/ Answer("configuration", {IF ConfigOK THEN "passed" ELSE "failed"})
  \/ \E c \in ApiChecks : Answer(c, Finds(c))

\* addIntegration: mock needs none of the checks, and an invalid configuration
\* or an ended context leaves them all unknown.
NoIntegration ==
  /\ Turn("agent_compose_binary")
  /\ \/ ~Real \/ ~Passed("configuration") \/ cancelled
  /\ report' = [c \in Checks |-> IF c \notin Integration THEN report[c]
                                 ELSE IF Real \/ ~Passed("configuration") THEN "unknown" ELSE "skipped"]
  /\ UNCHANGED <<setup, wrong, cancelled, steady, ever, changes>>

\* Skipped, and not required, for a validated compose file without Docker.
Docker == IF Passed("guest_image") /\ Passed("compose_file") /\ ~setup.docker THEN {"skipped"} ELSE Finds("docker")

\* Without a validated compose file only the environment is looked at, and it
\* may say nothing about providers.
ProviderSettings ==
  IF Passed("compose_file") THEN Finds("provider_settings")
  ELSE {"passed", "unknown"} \cup (IF "provider_settings" \in wrong THEN {"failed"} ELSE {})

Integrate ==
  \/ /\ Real /\ Passed("configuration") /\ ~cancelled
     /\ Answer("agent_compose_binary", Finds("agent_compose_binary"))
  \/ \E c \in Integration \ {"agent_compose_binary", "provider_settings", "docker"} : Answer(c, Finds(c))
  \/ Answer("provider_settings", ProviderSettings)
  \/ Answer("docker", Docker)

Host(c) == IF Real THEN Finds(c) ELSE {"skipped"}

Connect ==
  \/ \E c \in Hosts : Answer(c, Host(c))
  \/ \E c \in Protocols : Answer(c, Finds(c))

\* runCommand kills its child when the context ends, but waits for the end of
\* the output however long that takes (there is no WaitDelay).
Hold(c) ==
  /\ "output_held" \in wrong /\ Ready(c) /\ ~cancelled
  /\ c = "docker" => setup.docker
  /\ Answer(c, {"running"})

Release(c) ==
  /\ Turn(c) /\ report[c] = "running" /\ "output_held" \notin wrong
  /\ \E s \in Finds(c) \cup {"unknown"} : report' = [report EXCEPT ![c] = s]
  /\ UNCHANGED <<setup, wrong, cancelled, steady, ever, changes>>

Check ==
  \/ Configuration \/ NoIntegration \/ Integrate \/ Connect
  \/ \E c \in Commands : Hold(c) \/ Release(c)

-------------------------------------------------------------------------------
(* The surroundings of a report. *)

\* A dependency fails or is repaired.
Change ==
  /\ changes < MaxChanges
  /\ changes' = changes + 1
  /\ \E f \in Environment :
       /\ wrong' = IF f \in wrong THEN wrong \ {f} ELSE wrong \cup {f}
       /\ Cardinality(wrong') <= MaxWrong
  /\ steady' = steady \cap wrong'
  /\ ever' = ever \cup wrong'
  /\ UNCHANGED <<setup, report, cancelled>>

Setups == [executor : {"mock", "agentcompose-cli"}, full : BOOLEAN, docker : BOOLEAN]

InitDoctor ==
  /\ setup \in Setups
  /\ wrong \in {w \in SUBSET Facts : Cardinality(w) <= MaxWrong}
  /\ report = Blank
  /\ cancelled = FALSE
  /\ steady = wrong /\ ever = wrong
  /\ changes = 0

-------------------------------------------------------------------------------
(* The outcome of a report. *)

\* The checks of the mock executor's integration are optional.
Required(c) == (c \in Integration \cup Hosts => Real) /\ report[c] # "skipped"

\* Mutation: what could not be verified is no failure.
FailuresOnly == \E c \in Checks : Applies(c) /\ Required(c) /\ report[c] = "failed"

RequiredFailures == \E c \in Checks : Applies(c) /\ Required(c) /\ ~Passed(c)

\* What the operator of this setup has to put right.
Relevant ==
  IF Real THEN (Checks \cup Addresses) \ ((IF setup.full THEN {} ELSE ApiChecks) \cup (IF setup.docker THEN {} ELSE {"docker"}))
  ELSE {"configuration"} \cup (IF setup.full THEN ApiChecks ELSE {})

\* A report without required failures overlooked nothing: what was wrong all
\* along makes it fail, however its checks depend on one another.  And it
\* raises no false alarm: only what was wrong at some time, a command whose
\* output was held, or the end of the context makes it fail.
ReportIsTrue ==
  Complete =>
    /\ ~RequiredFailures => steady \cap Relevant = {}
    /\ RequiredFailures => ever \cap (Relevant \cup {"output_held"}) # {} \/ cancelled
===============================================================================
