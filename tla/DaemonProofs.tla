----------------------------- MODULE DaemonProofs -----------------------------
(***************************************************************************)
(* Proofs about the reports of Doctor, under every step of Daemon and for  *)
(* every number of things wrong and of changes of the environment; and     *)
(* about the daemon together with the rate limiter of its API.             *)
(***************************************************************************)
EXTENDS MCDaemon, RateLimiterProofs

\* Why a report may show a failure.
Cause == ever \cap (Relevant \cup {"output_held"}) # {} \/ cancelled

Failed(c) == report[c] \in {"failed", "unknown"}

Shape == \A c \in Checks : Applies(c) <=> report[c] # "absent"

\* Without a validated compose file the provider settings may pass unseen.
Unseen(c) == c = "provider_settings" /\ Failed("compose_file")

PassesAreRight == \A c \in Checks : Passed(c) => \/ c \notin steady /\ NeedsAddress(c) \cap steady = {}
                                                \/ Unseen(c)

MaySkip(c) == (c = "docker" /\ ~setup.docker) \/ (c \in Integration \cup Hosts /\ ~Real)

SkipsAreRight == \A c \in Checks : report[c] = "skipped" => MaySkip(c)

FailuresAreRight == \A c \in Checks : Failed(c) => Cause

HeldIsKnown == \A c \in Checks : report[c] = "running" => "output_held" \in ever

\* The mock executor's integration is passed over as a whole.
OverAtOnce == ~Real /\ ~Open("agent_compose_binary") => \A c \in Integration : ~Open(c)

\* The inductive invariant.
ReportInv ==
  /\ DaemonTypeOK
  /\ Shape /\ PassesAreRight /\ SkipsAreRight /\ FailuresAreRight /\ HeldIsKnown /\ OverAtOnce

-------------------------------------------------------------------------------
(* The order of the checks. *)

LEMMA OrderOfChecks ==
  /\ DOMAIN Order = 1..18
  /\ Order[1] = "configuration" /\ Order[2] = "api_base_url" /\ Order[3] = "api_health"
  /\ Order[4] = "api_readiness" /\ Order[5] = "agent_compose_binary" /\ Order[6] = "compose_file"
  /\ Order[7] = "agent_compose_version" /\ Order[8] = "model_settings" /\ Order[9] = "guest_image"
  /\ Order[10] = "provider_settings" /\ Order[11] = "provider_connectivity" /\ Order[12] = "docker"
  /\ Order[13] = "agent_compose_host" /\ Order[14] = "octobus_host"
  /\ Order[15] = "agent_compose_protocol" /\ Order[16] = "octobus_protocol"
  /\ Order[17] = "octobus_proxy" /\ Order[18] = "network_dns"
BY DEF Order

LEMMA TheChecks ==
  Checks = {"configuration"} \cup ApiChecks \cup Integration \cup Hosts \cup Protocols
<1>1. Checks = {Order[i] : i \in 1..18}
  BY OrderOfChecks DEF Checks
<1>2. \A i \in 1..18 : i = 1 \/ i = 2 \/ i = 3 \/ i = 4 \/ i = 5 \/ i = 6 \/ i = 7 \/ i = 8 \/ i = 9
        \/ i = 10 \/ i = 11 \/ i = 12 \/ i = 13 \/ i = 14 \/ i = 15 \/ i = 16 \/ i = 17 \/ i = 18
  OBVIOUS
<1>3. Checks \subseteq {"configuration"} \cup ApiChecks \cup Integration \cup Hosts \cup Protocols
  BY <1>1, <1>2, OrderOfChecks DEF ApiChecks, Integration, Hosts, Protocols
<1>4. {"configuration"} \cup ApiChecks \cup Integration \cup Hosts \cup Protocols \subseteq Checks
  BY <1>1, OrderOfChecks DEF ApiChecks, Integration, Hosts, Protocols
<1> QED
  BY <1>3, <1>4

\* What a check needs has been established when its turn comes.
LEMMA NeedsComeFirst ==
  ASSUME NEW c \in Checks, Turn(c)
  PROVE  /\ \A n \in NeedsPassed(c) : n \in Checks /\ ~Open(n)
         /\ c \in Integration \ {"agent_compose_binary"} => ~Open("agent_compose_binary")
         /\ c # "configuration" => ~Open("configuration")
         /\ c = "provider_settings" => ~Open("compose_file")
<1>1. PICK i \in 1..18 : Order[i] = c /\ \A j \in 1..(i - 1) : ~Open(Order[j])
  BY OrderOfChecks DEF Turn
<1>2. i > 1 => ~Open("configuration")
  BY <1>1, OrderOfChecks
<1>3. i > 5 => ~Open("agent_compose_binary")
  BY <1>1, OrderOfChecks
<1>4. i > 6 => ~Open("compose_file")
  BY <1>1, OrderOfChecks
<1>5. i > 9 => ~Open("guest_image")
  BY <1>1, OrderOfChecks
<1>6. i > 10 => ~Open("provider_settings")
  BY <1>1, OrderOfChecks
<1>7. c # "configuration" => i > 1
  BY <1>1, OrderOfChecks
<1>8. i \in 1..5 => c \in {"configuration", "agent_compose_binary"} \cup ApiChecks
  <2>1. i \in 1..5 => i = 1 \/ i = 2 \/ i = 3 \/ i = 4 \/ i = 5
    OBVIOUS
  <2> QED
    BY <1>1, <2>1, OrderOfChecks DEF ApiChecks
<1>9. i <= 6 => c \in {"configuration", "agent_compose_binary", "compose_file"} \cup ApiChecks
  BY <1>1, <1>8, OrderOfChecks
<1>10. i <= 9 => c \in {"configuration", "agent_compose_binary", "compose_file", "agent_compose_version",
                        "model_settings", "guest_image"} \cup ApiChecks
  <2>1. i <= 9 => i <= 6 \/ i = 7 \/ i = 8 \/ i = 9
    OBVIOUS
  <2> QED
    BY <1>1, <1>9, <2>1, OrderOfChecks
<1>11. i <= 10 => c \in {"configuration", "agent_compose_binary", "compose_file", "agent_compose_version",
                         "model_settings", "guest_image", "provider_settings"} \cup ApiChecks
  BY <1>1, <1>10, OrderOfChecks
<1>12. {"configuration", "agent_compose_binary", "compose_file", "guest_image", "provider_settings"} \subseteq Checks
  BY TheChecks DEF Integration
<1> QED
  BY <1>2, <1>3, <1>4, <1>5, <1>6, <1>7, <1>8, <1>9, <1>10, <1>11, <1>12
     DEF NeedsPassed, PassedFirst, ApiChecks, Integration, Hosts

-------------------------------------------------------------------------------
(* What a check may answer. *)

Right(c, s) ==
  /\ s \in {"running", "passed", "failed", "unknown", "skipped"}
  /\ s = "passed" => (c \notin wrong /\ NeedsAddress(c) \cap wrong = {}) \/ Unseen(c)
  /\ s = "skipped" => MaySkip(c)
  /\ s \in {"failed", "unknown"} => Cause
  /\ s = "running" => "output_held" \in ever

\* What is wrong with an applicable check, or with its address, is relevant.
LEMMA WrongIsRelevant ==
  ASSUME ReportInv, NEW c \in Checks, Open(c), c \in Integration \cup Hosts => Real
  PROVE  /\ c \in wrong /\ (c = "docker" => setup.docker) => Cause
         /\ NeedsAddress(c) \cap wrong # {} => Cause
<1>1. Applies(c)
  BY DEF ReportInv, Shape, Open
<1>2. wrong \subseteq ever
  BY DEF ReportInv, DaemonTypeOK
<1>3. ASSUME c \in wrong, c = "docker" => setup.docker
      PROVE  c \in Relevant
  <2>1. CASE Real
    BY <1>1, <1>3, <2>1 DEF Relevant, Applies
  <2>2. CASE ~Real
    <3>1. c \in {"configuration"} \cup ApiChecks
      BY <1>1, <2>2, TheChecks DEF Applies
    <3> QED
      BY <1>1, <2>2, <3>1 DEF Relevant, Applies
  <2> QED
    BY <2>1, <2>2
<1>4. ASSUME NEW a \in NeedsAddress(c)
      PROVE  a \in Relevant
  <2>1. c \in Hosts \cup Protocols /\ a \in Addresses
    BY DEF NeedsAddress, AddressesOf, Hosts, Protocols
  <2>2. Real
    BY <1>1, <2>1 DEF Applies
  <2> QED
    BY <2>1, <2>2 DEF Relevant, Addresses, ApiChecks
<1> QED
  BY <1>2, <1>3, <1>4 DEF Cause

\* A check that finds what it needs failed has a cause.
LEMMA NeedsHaveCauses ==
  ASSUME ReportInv, NEW c \in Checks, Turn(c), c \in Integration \cup Hosts => Real,
         NEW n \in NeedsPassed(c), ~Passed(n)
  PROVE  Cause
<1>1. n \in Checks /\ ~Open(n)
  BY NeedsComeFirst
<1>2. Open(c)
  BY DEF Turn
<1>3. n = "configuration" \/ (n \in Integration \ {"docker"} /\ Real)
  <2>1. Applies(c)
    BY <1>2 DEF ReportInv, Shape, Open
  <2> QED
    BY <2>1 DEF NeedsPassed, PassedFirst, Integration, Protocols, Applies, Hosts
<1>4. Applies(n)
  BY <1>3 DEF Applies, ApiChecks, Protocols, Integration
<1>5. report[n] # "skipped"
  BY <1>1, <1>3 DEF ReportInv, SkipsAreRight, MaySkip, Integration, Hosts
<1>6. report[n] \in {"absent", "pending", "running", "passed", "failed", "unknown", "skipped"}
  BY <1>1 DEF ReportInv, DaemonTypeOK
<1>7. Failed(n)
  BY <1>1, <1>4, <1>5, <1>6 DEF ReportInv, Shape, Open, Passed, Failed
<1> QED
  BY <1>1, <1>7 DEF ReportInv, FailuresAreRight

LEMMA FindsAreRight ==
  ASSUME ReportInv, NEW c \in Checks, Turn(c), c \in Integration \cup Hosts => Real,
         c = "docker" => setup.docker \/ ~Ready(c),
         NEW s \in Finds(c)
  PROVE  Right(c, s)
<1>1. Open(c)
  BY DEF Turn
<1>2. CASE ~Ready(c)
  <2>1. Cause
    BY <1>1, <1>2, NeedsHaveCauses, WrongIsRelevant DEF Ready
  <2> QED
    BY <1>2, <2>1 DEF Finds, Right
<1>3. CASE Ready(c)
  <2>1. NeedsAddress(c) \cap wrong = {}
    BY <1>3 DEF Ready
  <2>2. c \in wrong => Cause
    BY <1>1, <1>3, WrongIsRelevant
  <2>3. cancelled => Cause
    BY DEF Cause
  <2>4. Upset(c) => Cause
    <3>1. SUFFICES ASSUME NEW f \in wrong, <<c, f>> \in MayUpset PROVE Cause
      BY DEF Upset
    <3>2. /\ f \in {"guest_image", "model_settings", "provider_settings"} \cup Hosts
          /\ c \in Integration \cup Protocols
      BY <3>1 DEF MayUpset, Hosts, Integration, Protocols
    <3>3. Real
      BY <1>1, <3>2 DEF ReportInv, Shape, Open, Applies
    <3>4. f \in Relevant
      BY <3>2, <3>3, TheChecks DEF Relevant, Integration, Hosts, ApiChecks
    <3> QED
      BY <3>1, <3>4 DEF ReportInv, DaemonTypeOK, Cause
  <2> QED
    BY <1>3, <2>1, <2>2, <2>3, <2>4 DEF Finds, Right
<1> QED
  BY <1>2, <1>3

\* Right answers keep the invariant.
LEMMA AnswersKeep ==
  ASSUME ReportInv, NEW c \in Checks, NEW s, Turn(c), Right(c, s),
         c \in Integration => Real,
         report' = [report EXCEPT ![c] = s],
         UNCHANGED <<setup, wrong, cancelled, steady, ever, changes, daemonVars>>
  PROVE  ReportInv'
<1>1. /\ report \in [Checks -> {"absent", "pending", "running", "passed", "failed", "unknown", "skipped"}]
      /\ steady \subseteq wrong
  BY DEF ReportInv, DaemonTypeOK
<1>2. report' \in [Checks -> {"absent", "pending", "running", "passed", "failed", "unknown", "skipped"}]
  BY <1>1 DEF Right
<1>3. \A d \in Checks : d # c => report'[d] = report[d]
  BY <1>1
<1>4. report'[c] = s
  BY <1>1
<1>5. DaemonTypeOK'
  BY <1>2 DEF ReportInv, DaemonTypeOK, daemonVars
<1>6. Shape'
  BY <1>3, <1>4 DEF ReportInv, Shape, Right, Turn, Open, Applies, Real
<1>7. PassesAreRight'
  <2>1. Failed("compose_file") => c # "compose_file"
    BY DEF Turn, Open, Failed
  <2>2. \A d \in Checks : Unseen(d) => Unseen(d)'
    BY <1>3, <2>1, TheChecks DEF Unseen, Failed, Integration
  <2> QED
    BY <1>1, <1>3, <1>4, <2>2 DEF ReportInv, PassesAreRight, Right, Passed, NeedsAddress
<1>8. SkipsAreRight'
  BY <1>3, <1>4 DEF ReportInv, SkipsAreRight, Right, MaySkip, Real
<1>9. FailuresAreRight'
  BY <1>3, <1>4 DEF ReportInv, FailuresAreRight, Right, Failed, Cause, Relevant, Real
<1>10. HeldIsKnown'
  BY <1>3, <1>4 DEF ReportInv, HeldIsKnown, Right
<1>11. OverAtOnce'
  <2>1. Real' <=> Real
    BY DEF Real
  <2>2. CASE Real
    BY <2>1, <2>2 DEF OverAtOnce
  <2>3. CASE ~Real
    <3>1. c \notin Integration
      BY <2>3
    <3>2. \A d \in Integration : Open(d)' <=> Open(d)
      BY <1>3, <3>1, TheChecks DEF Open
    <3>3. "agent_compose_binary" \in Integration
      BY DEF Integration
    <3> QED
      BY <2>1, <3>2, <3>3 DEF ReportInv, OverAtOnce
  <2> QED
    BY <2>2, <2>3
<1> QED
  BY <1>5, <1>6, <1>7, <1>8, <1>9, <1>10, <1>11 DEF ReportInv

LEMMA NotBeforeTheBinary ==
  ASSUME ReportInv, NEW c \in Integration \ {"agent_compose_binary"}, Turn(c)
  PROVE  Real
<1>1. c \in Checks
  BY TheChecks
<1>2. ~Open("agent_compose_binary") /\ Open(c)
  BY <1>1, NeedsComeFirst DEF Turn
<1> QED
  BY <1>2 DEF ReportInv, OverAtOnce

LEMMA CheckKeeps ==
  ASSUME ReportInv, Check, UNCHANGED daemonVars
  PROVE  ReportInv'
<1>1. ASSUME NEW c \in Checks, NEW S, Answer(c, S), \A s \in S : Right(c, s), c \in Integration => Real
      PROVE  ReportInv'
  BY <1>1, AnswersKeep DEF Answer
<1>2. ASSUME Configuration PROVE ReportInv'
  <2>1. CASE Answer("configuration", {IF ConfigOK THEN "passed" ELSE "failed"})
    <3>1. "configuration" \in Checks /\ "configuration" \notin Integration \cup Hosts
      BY TheChecks DEF Integration, Hosts
    <3>2. Turn("configuration") /\ Open("configuration")
      BY <2>1 DEF Answer, Turn
    <3>3. NeedsAddress("configuration") = {}
      BY DEF NeedsAddress, AddressesOf
    <3>4. ~ConfigOK => Cause
      <4>1. "configuration" \in wrong => Cause
        BY <3>1, <3>2, WrongIsRelevant
      <4>2. setup.full /\ "api_base_url" \in wrong => Cause
        BY TheChecks DEF ReportInv, DaemonTypeOK, Cause, Relevant, ApiChecks
      <4> QED
        BY <4>1, <4>2 DEF ConfigOK
    <3>5. Right("configuration", IF ConfigOK THEN "passed" ELSE "failed")
      BY <3>3, <3>4 DEF Right, ConfigOK
    <3> QED
      BY <1>1, <2>1, <3>1, <3>5
  <2>2. ASSUME NEW c \in ApiChecks, Answer(c, Finds(c)) PROVE ReportInv'
    <3>1. c \in Checks /\ c \notin Integration \cup Hosts /\ c # "docker"
      BY TheChecks DEF ApiChecks, Integration, Hosts
    <3> QED
      BY <1>1, <2>2, <3>1, FindsAreRight DEF Answer
  <2> QED
    BY <1>2, <2>1, <2>2 DEF Configuration
<1>3. ASSUME NoIntegration PROVE ReportInv'
  <2>1. "agent_compose_binary" \in Checks /\ Integration \subseteq Checks
    BY TheChecks DEF Integration
  <2>2. Open("agent_compose_binary") /\ ~Open("configuration")
    BY <1>3, <2>1, NeedsComeFirst DEF NoIntegration, Turn
  <2>3. Real \/ ~Passed("configuration") => Cause
    <3>1. Failed("configuration") => Cause
      BY TheChecks DEF ReportInv, FailuresAreRight
    <3>2. "configuration" \in Checks /\ Applies("configuration")
      BY TheChecks DEF Applies, ApiChecks, Protocols
    <3>3. report["configuration"] \notin {"absent", "skipped"}
      BY <3>2 DEF ReportInv, Shape, SkipsAreRight, MaySkip, Integration, Hosts
    <3>4. report["configuration"] \in {"absent", "pending", "running", "passed", "failed", "unknown", "skipped"}
      BY <3>2 DEF ReportInv, DaemonTypeOK
    <3>5. ~Passed("configuration") => Cause
      BY <2>2, <3>1, <3>3, <3>4 DEF Open, Passed, Failed
    <3> QED
      BY <1>3, <3>5 DEF NoIntegration, Cause
  <2>4. /\ UNCHANGED <<setup, wrong, cancelled, steady, ever, changes>>
        /\ report' = [c \in Checks |-> IF c \notin Integration THEN report[c]
                                       ELSE IF Real \/ ~Passed("configuration") THEN "unknown" ELSE "skipped"]
    BY <1>3 DEF NoIntegration
  <2>5. \A c \in Checks : c \in Integration => Applies(c)
    BY DEF Applies, Integration, ApiChecks, Protocols
  <2>6. DaemonTypeOK'
    <3>1. \A c \in Checks : report[c] \in {"absent", "pending", "running", "passed", "failed", "unknown", "skipped"}
      BY DEF ReportInv, DaemonTypeOK
    <3>2. report' \in [Checks -> {"absent", "pending", "running", "passed", "failed", "unknown", "skipped"}]
      BY <2>4, <3>1
    <3> QED
      BY <2>4, <3>2 DEF ReportInv, DaemonTypeOK, daemonVars
  <2>7. Shape'
    BY <2>4, <2>5 DEF ReportInv, Shape, Applies, Real
  <2>8. PassesAreRight'
    BY <2>4 DEF ReportInv, PassesAreRight, Passed, NeedsAddress, Unseen, Integration
  <2>9. SkipsAreRight'
    BY <2>4 DEF ReportInv, SkipsAreRight, MaySkip, Real
  <2>10. FailuresAreRight'
    BY <2>3, <2>4 DEF ReportInv, FailuresAreRight, Failed, Cause, Relevant, Real
  <2>11. HeldIsKnown'
    BY <2>4 DEF ReportInv, HeldIsKnown
  <2>12. OverAtOnce'
    BY <2>1, <2>4 DEF OverAtOnce, Open
  <2> QED
    BY <2>6, <2>7, <2>8, <2>9, <2>10, <2>11, <2>12 DEF ReportInv
<1>4. ASSUME Integrate PROVE ReportInv'
  <2>1. ASSUME NEW c \in Integration \ {"docker"}, Real, Answer(c, Finds(c)) PROVE ReportInv'
    <3>1. c \in Checks
      BY TheChecks
    <3> QED
      BY <1>1, <2>1, <3>1, FindsAreRight DEF Answer
  <2>2. CASE Real /\ Passed("configuration") /\ ~cancelled /\ Answer("agent_compose_binary", Finds("agent_compose_binary"))
    BY <2>1, <2>2 DEF Integration
  <2>3. ASSUME NEW c \in Integration \ {"agent_compose_binary", "provider_settings", "docker"}, Answer(c, Finds(c))
        PROVE  ReportInv'
    BY <2>1, <2>3, NotBeforeTheBinary DEF Answer
  <2>4. CASE Answer("provider_settings", ProviderSettings)
    <3> DEFINE c == "provider_settings"
    <3>1. c \in Integration /\ c \in Checks /\ c # "docker" /\ c # "agent_compose_binary" /\ Turn(c)
      BY <2>4, TheChecks DEF Integration, Answer
    <3>2. Real
      BY <3>1, NotBeforeTheBinary
    <3>3. \A s \in Finds(c) : Right(c, s)
      BY <3>1, <3>2, FindsAreRight
    <3>4. ~Passed("compose_file") => Failed("compose_file") /\ Cause
      <4>1. "compose_file" \in Checks /\ "compose_file" \in Integration /\ ~Open("compose_file")
        BY <3>1, NeedsComeFirst, TheChecks DEF Integration
      <4>2. report["compose_file"] \notin {"absent", "skipped"}
        BY <3>2, <4>1 DEF ReportInv, Shape, Applies, SkipsAreRight, MaySkip, ApiChecks, Protocols
      <4>3. report["compose_file"] \in {"absent", "pending", "running", "passed", "failed", "unknown", "skipped"}
        BY <4>1 DEF ReportInv, DaemonTypeOK
      <4> QED
        BY <4>1, <4>2, <4>3 DEF ReportInv, FailuresAreRight, Failed, Open, Passed
    <3>5. \A s \in ProviderSettings : Right(c, s)
      BY <3>3, <3>4 DEF ProviderSettings, Right, Unseen
    <3> QED
      BY <1>1, <2>4, <3>1, <3>2, <3>5
  <2>5. CASE Answer("docker", Docker)
    <3> DEFINE c == "docker"
    <3>1. c \in Integration /\ c \in Checks /\ c # "agent_compose_binary" /\ Turn(c)
      BY <2>5, TheChecks DEF Integration, Answer
    <3>2. Real
      BY <3>1, NotBeforeTheBinary
    <3>3. ASSUME Passed("guest_image") /\ Passed("compose_file") /\ ~setup.docker
          PROVE  \A s \in Docker : Right(c, s)
      BY <3>3 DEF Docker, Right, MaySkip
    <3>4. ASSUME ~(Passed("guest_image") /\ Passed("compose_file") /\ ~setup.docker)
          PROVE  \A s \in Docker : Right(c, s)
      <4>1. setup.docker \/ ~Ready(c)
        BY <3>4, TheChecks DEF Ready, NeedsPassed, PassedFirst, Integration
      <4> QED
        BY <3>1, <3>2, <3>4, <4>1, FindsAreRight DEF Docker
    <3>5. \A s \in Docker : Right(c, s)
      BY <3>3, <3>4
    <3> QED
      BY <1>1, <2>5, <3>1, <3>2, <3>5
  <2> QED
    BY <1>4, <2>2, <2>3, <2>4, <2>5 DEF Integrate
<1>5. ASSUME Connect PROVE ReportInv'
  <2>1. ASSUME NEW c \in Hosts, Answer(c, Host(c)) PROVE ReportInv'
    <3>1. c \in Checks /\ c # "docker" /\ c \notin Integration
      BY TheChecks DEF Hosts, Integration
    <3>2. Real => \A s \in Host(c) : Right(c, s)
      BY <2>1, <3>1, FindsAreRight DEF Host, Answer
    <3>3. ~Real => \A s \in Host(c) : Right(c, s)
      BY DEF Host, Right, MaySkip
    <3> QED
      BY <1>1, <2>1, <3>1, <3>2, <3>3
  <2>2. ASSUME NEW c \in Protocols, Answer(c, Finds(c)) PROVE ReportInv'
    <3>1. c \in Checks /\ c # "docker" /\ c \notin Integration \cup Hosts
      BY TheChecks DEF Protocols, Hosts, Integration
    <3> QED
      BY <1>1, <2>2, <3>1, FindsAreRight DEF Answer
  <2> QED
    BY <1>5, <2>1, <2>2 DEF Connect
<1>6. Commands \subseteq Integration \cup Protocols /\ "agent_compose_binary" \notin Commands /\ Commands \subseteq Checks
  BY TheChecks DEF Commands, Integration, Protocols
<1>7. ASSUME NEW c \in Commands, Hold(c) PROVE ReportInv'
  <2>1. c \in Checks /\ Turn(c) /\ (c \in Integration => Real)
    BY <1>6, <1>7, NotBeforeTheBinary DEF Hold, Answer
  <2>2. Right(c, "running")
    BY <1>7 DEF Hold, Right, ReportInv, DaemonTypeOK
  <2> QED
    BY <1>1, <1>7, <2>1, <2>2 DEF Hold
<1>8. ASSUME NEW c \in Commands, Release(c) PROVE ReportInv'
  <2>1. c \in Checks /\ Turn(c) /\ (c \in Integration => Real) /\ c \notin Hosts
    BY <1>6, <1>8, NotBeforeTheBinary DEF Release, Hosts, Commands
  <2>2. Cause
    BY <1>8, <2>1 DEF Release, ReportInv, HeldIsKnown, Cause
  <2>3. PICK s \in Finds(c) \cup {"unknown"} : report' = [report EXCEPT ![c] = s]
    BY <1>8 DEF Release
  <2>4. Right(c, s)
    <3>1. Finds(c) \subseteq {"passed", "failed", "unknown"}
      BY DEF Finds
    <3>2. s = "passed" => c \notin wrong /\ NeedsAddress(c) \cap wrong = {}
      BY <2>3 DEF Finds, Ready
    <3> QED
      BY <2>2, <2>3, <3>1, <3>2 DEF Right
  <2>5. UNCHANGED <<setup, wrong, cancelled, steady, ever, changes>>
    BY <1>8 DEF Release
  <2> QED
    BY <2>1, <2>3, <2>4, <2>5, AnswersKeep
<1> QED
  BY <1>2, <1>3, <1>4, <1>5, <1>7, <1>8 DEF Check

-------------------------------------------------------------------------------
LEMMA BlankIsRight ==
  /\ Blank \in [Checks -> {"absent", "pending", "running", "passed", "failed", "unknown", "skipped"}]
  /\ \A c \in Checks : Blank[c] = IF Applies(c) THEN "pending" ELSE "absent"
BY DEF Blank

\* A new report.
LEMMA BeginKeeps ==
  ASSUME ReportInv, Begin, UNCHANGED <<setup, wrong, cancelled, changes>>, DaemonTypeOK'
  PROVE  ReportInv'
<1>1. \A c \in Checks : report'[c] = IF Applies(c) THEN "pending" ELSE "absent"
  BY BlankIsRight DEF Begin
<1>2. \A c \in Checks : Applies(c)' <=> Applies(c)
  BY DEF Applies, Real
<1>3. Shape' /\ PassesAreRight' /\ SkipsAreRight' /\ FailuresAreRight' /\ HeldIsKnown'
  BY <1>1, <1>2 DEF Shape, PassesAreRight, SkipsAreRight, FailuresAreRight, HeldIsKnown, Passed, Failed
<1>4. OverAtOnce'
  <2>1. "agent_compose_binary" \in Checks /\ Applies("agent_compose_binary")
    BY TheChecks DEF Applies, Integration, ApiChecks, Protocols
  <2>2. Open("agent_compose_binary")'
    BY <1>1, <2>1 DEF Open
  <2> QED
    BY <2>2 DEF OverAtOnce
<1> QED
  BY <1>3, <1>4 DEF ReportInv

\* The report stays, and the causes of its failures do.
LEMMA LaterKeeps ==
  ASSUME ReportInv, UNCHANGED <<setup, report>>, DaemonTypeOK',
         steady' \subseteq steady, ever \subseteq ever', cancelled => cancelled'
  PROVE  ReportInv'
<1>1. Cause => Cause'
  BY DEF Cause, Relevant, Real
<1>2. \A c \in Checks : Applies(c)' <=> Applies(c)
  BY DEF Applies, Real
<1>3. Shape' /\ SkipsAreRight' /\ OverAtOnce'
  BY <1>2 DEF ReportInv, Shape, SkipsAreRight, OverAtOnce, MaySkip, Open, Real
<1>4. PassesAreRight'
  BY DEF ReportInv, PassesAreRight, Passed, NeedsAddress, Unseen, Failed
<1>5. FailuresAreRight' /\ HeldIsKnown'
  BY <1>1 DEF ReportInv, FailuresAreRight, HeldIsKnown, Failed
<1> QED
  BY <1>3, <1>4, <1>5 DEF ReportInv

LEMMA ReportInitially == InitDaemon => ReportInv
<1> SUFFICES ASSUME InitDaemon PROVE ReportInv
  OBVIOUS
<1>1. \A c \in Checks : report[c] = IF Applies(c) THEN "pending" ELSE "absent"
  BY BlankIsRight DEF InitDaemon, InitDoctor
<1>2. DaemonTypeOK
  <2>1. report \in [Checks -> {"absent", "pending", "running", "passed", "failed", "unknown", "skipped"}]
    BY BlankIsRight DEF InitDaemon, InitDoctor
  <2>2. phase \in Phases /\ monitor \in Monitors /\ tick \in BOOLEAN
    BY DEF InitDaemon, Phases, Monitors
  <2>3. ready \in BOOLEAN
    BY DEF InitDaemon
  <2>4. changes \in 0..MaxChanges
    BY DoctorBounds DEF InitDaemon, InitDoctor
  <2> QED
    BY <2>1, <2>2, <2>3, <2>4 DEF DaemonTypeOK, InitDaemon, InitDoctor
<1>3. Shape /\ PassesAreRight /\ SkipsAreRight /\ FailuresAreRight /\ HeldIsKnown
  BY <1>1 DEF Shape, PassesAreRight, SkipsAreRight, FailuresAreRight, HeldIsKnown, Passed, Failed
<1>4. OverAtOnce
  BY <1>1, TheChecks DEF OverAtOnce, Open, Applies, Integration, ApiChecks, Protocols
<1> QED
  BY <1>2, <1>3, <1>4 DEF ReportInv

LEMMA ReportInductive == ReportInv /\ [NextDaemon]_allVars => ReportInv'
<1> SUFFICES ASSUME ReportInv, [NextDaemon]_allVars PROVE ReportInv'
  OBVIOUS
<1>0. DaemonTypeOK
  BY DEF ReportInv
<1>1. ASSUME Begin, UNCHANGED <<setup, wrong, cancelled, changes>>, phase' \in Phases, monitor' \in Monitors,
             tick' \in BOOLEAN, ready' \in BOOLEAN
      PROVE  ReportInv'
  <2>1. report' \in [Checks -> {"absent", "pending", "running", "passed", "failed", "unknown", "skipped"}]
    BY <1>1, BlankIsRight DEF Begin
  <2>2. DaemonTypeOK'
    BY <1>0, <1>1, <2>1 DEF DaemonTypeOK, Begin
  <2> QED
    BY <1>1, <2>2, BeginKeeps
<1>2. ASSUME UNCHANGED <<setup, wrong, report, steady, ever, changes>>, cancelled' \in BOOLEAN,
             cancelled => cancelled', phase' \in Phases, monitor' \in Monitors,
             tick' \in BOOLEAN, ready' \in BOOLEAN
      PROVE  ReportInv'
  <2>1. DaemonTypeOK'
    BY <1>0, <1>2 DEF DaemonTypeOK
  <2> QED
    BY <1>2, <2>1, LaterKeeps
<1>3. phase \in Phases /\ monitor \in Monitors /\ tick \in BOOLEAN /\ ready \in BOOLEAN /\ cancelled \in BOOLEAN
  BY <1>0 DEF DaemonTypeOK
<1>4. CASE StartCheck
  BY <1>1, <1>3, <1>4 DEF StartCheck, Monitors
<1>5. CASE Probe
  BY <1>5, CheckKeeps DEF Probe
<1>6. CASE FinishCheck
  BY <1>2, <1>3, <1>6 DEF FinishCheck, Monitors, Verdict, doctorVars
<1>7. CASE MonitorEnds
  BY <1>2, <1>3, <1>7 DEF MonitorEnds, Monitors, doctorVars
<1>8. CASE Wake
  BY <1>2, <1>3, <1>8 DEF Wake, Monitors, doctorVars
<1>9. CASE TickerFires
  BY <1>2, <1>3, <1>9 DEF TickerFires, doctorVars
<1>10. CASE Main
  BY <1>2, <1>3, <1>10 DEF Main, Join, Drain, Exit, CommandEnds, Phases, doctorVars
<1>11. CASE Signal \/ Abort
  BY <1>2, <1>3, <1>11 DEF Signal, Abort, Phases, doctorVars
<1>12. CASE Change /\ UNCHANGED daemonVars
  <2>1. steady' = steady \cap wrong' /\ ever' = ever \cup wrong' /\ UNCHANGED <<setup, report, cancelled>>
    BY <1>12 DEF Change
  <2>2. wrong' \subseteq Facts
    BY <1>0, <1>12 DEF Change, DaemonTypeOK, Environment
  <2>3. changes' \in 0..MaxChanges
    BY <1>0, <1>12, DoctorBounds DEF Change, DaemonTypeOK
  <2>4. DaemonTypeOK'
    BY <1>0, <1>12, <2>1, <2>2, <2>3 DEF DaemonTypeOK, daemonVars
  <2> QED
    BY <2>1, <2>4, LaterKeeps
<1>13. CASE UNCHANGED allVars
  BY <1>2, <1>3, <1>13 DEF allVars, doctorVars, daemonVars
<1> QED
  BY <1>4, <1>5, <1>6, <1>7, <1>8, <1>9, <1>10, <1>11, <1>12, <1>13 DEF NextDaemon, Monitor

-------------------------------------------------------------------------------
LEMMA InvImpliesTrue == ReportInv => ReportIsTrue
<1> SUFFICES ASSUME ReportInv, Complete PROVE
       /\ ~RequiredFailures => steady \cap Relevant = {}
       /\ RequiredFailures => Cause
  BY DEF ReportIsTrue, Cause
<1>1. ASSUME ~RequiredFailures, NEW c \in Checks, Applies(c), ~MaySkip(c), c \in Integration \cup Hosts => Real
      PROVE  Passed(c)
  BY <1>1 DEF ReportInv, SkipsAreRight, RequiredFailures, Required
<1>2. ASSUME ~RequiredFailures, NEW f \in steady \cap Relevant
      PROVE  FALSE
  <2>1. CASE f \in Checks
    <3>1. Applies(f)
      BY <2>1, <1>2 DEF Relevant, Applies, ApiChecks, Protocols, Real
    <3>2. ~MaySkip(f) /\ (f \in Integration \cup Hosts => Real)
      BY <1>2 DEF Relevant, MaySkip, Integration, Hosts, ApiChecks
    <3>3. Passed(f)
      BY <1>1, <1>2, <2>1, <3>1, <3>2
    <3>4. ~Unseen(f)
      <4>1. ASSUME f = "provider_settings" PROVE Passed("compose_file")
        <5>1. Real
          BY <4>1, <3>2 DEF Integration
        <5>2. "compose_file" \in Checks /\ Applies("compose_file") /\ ~MaySkip("compose_file")
          BY <5>1, TheChecks DEF Integration, Applies, ApiChecks, Protocols, MaySkip
        <5> QED
          BY <1>1, <1>2, <5>1, <5>2
      <4> QED
        BY <4>1 DEF Unseen, Failed, Passed
    <3> QED
      BY <1>2, <2>1, <3>3, <3>4 DEF ReportInv, PassesAreRight
  <2>2. CASE f \in Addresses
    <3>1. Real
      BY <1>2, <2>2 DEF Relevant, Addresses, ApiChecks
    <3>2. \A h \in Hosts : h \in Checks /\ Applies(h) /\ ~MaySkip(h)
      BY <3>1, TheChecks DEF Hosts, Applies, ApiChecks, Protocols, MaySkip
    <3>3. \A h \in Hosts : NeedsAddress(h) \cap steady = {}
      BY <1>1, <1>2, <3>1, <3>2 DEF ReportInv, PassesAreRight, Unseen, Hosts
    <3>4. \E h \in Hosts : f \in NeedsAddress(h)
      BY <2>2 DEF Addresses, Hosts, NeedsAddress, AddressesOf
    <3> QED
      BY <1>2, <3>3, <3>4
  <2> QED
    BY <1>2, <2>1, <2>2, TheChecks DEF Relevant
<1>3. ASSUME RequiredFailures PROVE Cause
  <2>1. PICK c \in Checks : Applies(c) /\ Required(c) /\ ~Passed(c)
    BY <1>3 DEF RequiredFailures
  <2>2. report[c] \in {"absent", "pending", "running", "passed", "failed", "unknown", "skipped"}
    BY DEF ReportInv, DaemonTypeOK
  <2>3. Failed(c)
    BY <2>1, <2>2 DEF ReportInv, Shape, Complete, Open, Passed, Required, Failed
  <2> QED
    BY <2>3 DEF ReportInv, FailuresAreRight
<1> QED
  BY <1>2, <1>3

\* ReportInv holds of every state of the daemon and of sasctl doctor.
THEOREM ReportInvariance == SpecDaemon => []ReportInv
BY ReportInitially, ReportInductive, PTL DEF SpecDaemon

\* Type correctness of the daemon, its monitor and the current report.
THEOREM DaemonTypeCorrect == SpecDaemon => []DaemonTypeOK
<1>1. ReportInv => DaemonTypeOK
  BY DEF ReportInv
<1> QED
  BY <1>1, ReportInvariance, PTL

\* A report (doctor.go, run) overlooks nothing that is wrong throughout, and
\* shows no failure without a cause, however many things are wrong or change
\* while it is made.
THEOREM ReportsAreTrue == SpecDaemon => []ReportIsTrue
BY ReportInvariance, InvImpliesTrue, PTL

-------------------------------------------------------------------------------
(* The daemon and the rate limiter of the API it serves. *)

\* Neither touches what the other's invariant is about.

BothInv == ReportInv /\ IInv /\ Bounded

\* An empty limiter, and a daemon that has not started.
LEMMA BothAtFirst == InitBoth => BothInv
  BY ReportInitially, InitIsFine, BoundedAtFirst DEF InitBoth, BothInv

\* A step of one leaves the other alone.
LEMMA BothInductive ==
  BothInv /\ [Alone(NextDaemon) \/ (DaemonRests /\ Next /\ UNCHANGED allVars)]_bothVars => BothInv'
  <1> SUFFICES ASSUME BothInv, [Alone(NextDaemon) \/ (DaemonRests /\ Next /\ UNCHANGED allVars)]_bothVars
               PROVE  BothInv'
    OBVIOUS
  <1>1. \/ [NextDaemon]_allVars /\ UNCHANGED vars
        \/ [Next]_vars /\ UNCHANGED allVars
    BY DEF Alone, bothVars
  <1>2. [NextDaemon]_allVars /\ [Next]_vars
    BY <1>1
  <1> QED
    BY <1>2, ReportInductive, Inductive, BoundedKept DEF BothInv

\* Type correctness of the daemon together with the limiter.
THEOREM BothTypeCorrect == SpecBoth => []BothTypeOK
<1>1. BothInv => BothTypeOK
  BY DEF BothInv, ReportInv, IInv, BothTypeOK
<1> QED
  BY <1>1, BothAtFirst, BothInductive, PTL DEF SpecBoth

\* In the running daemon, too, reports are true, refusals are justified and
\* overruns are bounded.
THEOREM BothAreSafe == SpecBoth => [](ReportIsTrue /\ NoFalseRefusal /\ OverrunIsBounded)
<1>1. BothInv => ReportIsTrue /\ NoFalseRefusal /\ OverrunIsBounded
  BY InvImpliesTrue, InvImpliesBounded DEF BothInv, IInv
<1> QED
  BY <1>1, BothAtFirst, BothInductive, PTL DEF SpecBoth
===============================================================================
