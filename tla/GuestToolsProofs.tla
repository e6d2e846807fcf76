---------------------------- MODULE GuestToolsProofs ---------------------------
(***************************************************************************)
(* What the tools that look into a guest promise, for any number of calls,  *)
(* services and containers.  The invariant says what the answer to a step   *)
(* tells of the guest, and that the reply of a call is made of its answers  *)
(* and of nothing else.                                                     *)
(***************************************************************************)
EXTENDS GuestTools, SequenceTheorems, TLAPS

--------------------------------------------------------------------------------
(* The plans.                                                               *)
Acts == {"look", "ask", "change", "start", "is-active", "services", "containers", "hostname",
         "host"}
Conditions == {"always", "missing", "nothing", "agent", "containers"}
Steps == [act : Acts, on : Names \cup {"target"}, shell : BOOLEAN, when : Conditions]
Verdicts == {"raw", "fmt", "latest", "always", "agent", "health", "text", "drift"}

\* A plan without steps has a verdict that reads none.
IsPlan(p) ==
  /\ p.steps \in Seq(Steps)
  /\ p.verdict \in Verdicts
  /\ p.verdict \notin {"health", "text"} => 1 \in DOMAIN p.steps

\* What the makers of steps make
LEMMA StepsAre ==
  /\ \A act \in Acts : Step(act) \in Steps
  /\ \A s \in Names \cup {"target"} : IsActive(s) \in Steps
  /\ \A step \in Steps : Shell(step) \in Steps
  /\ \A step \in Steps, when \in Conditions : If(when, step) \in Steps
BY DEF Step, IsActive, Shell, If, Steps, Acts, Conditions

\* What they leave alone
LEMMA StepFields ==
  /\ \A act : Step(act).act = act /\ ~Step(act).shell
  /\ \A s : IsActive(s).act = "is-active" /\ IsActive(s).on = s /\ ~IsActive(s).shell
  /\ \A step \in Steps : Shell(step).act = step.act /\ Shell(step).shell
  /\ \A step \in Steps : \A when :
       If(when, step).act = step.act /\ If(when, step).shell = step.shell
<1>1. \A act : Step(act).act = act /\ ~Step(act).shell
  BY DEF Step
<1>2. \A s : IsActive(s).act = "is-active" /\ IsActive(s).on = s /\ ~IsActive(s).shell
  BY DEF Step, IsActive
<1>3. \A step \in Steps : Shell(step).act = step.act /\ Shell(step).shell
  BY DEF Steps, Shell
<1>4. \A step \in Steps : \A when :
        If(when, step).act = step.act /\ If(when, step).shell = step.shell
  BY DEF Steps, If
<1> QED
  BY <1>1, <1>2, <1>3, <1>4

\* The steps the plans are made of
LEMMA NamedSteps == {Look, Ask, Change, Start, Shell(Look), Shell(Ask), Shell(Change)} \subseteq Steps
<1>1. {Look, Ask, Change, Start} \subseteq Steps
  BY StepsAre DEF Look, Ask, Change, Start, Acts
<1> QED
  BY <1>1, StepsAre

\* What Chain and Together make of steps
LEMMA PlansAre ==
  ASSUME NEW steps \in Seq(Steps), steps # <<>>, NEW verdict \in Verdicts
  PROVE  IsPlan(Chain(steps, verdict)) /\ IsPlan(Together(steps, verdict))
BY DEF Chain, Together, IsPlan

LEMMA ShortPlans ==
  \A verdict \in Verdicts, a, b, c \in Steps :
    /\ IsPlan(Chain(<<a>>, verdict))
    /\ IsPlan(Chain(<<a, b>>, verdict))
    /\ IsPlan(Chain(<<a, b, c>>, verdict))
    /\ IsPlan(Together(<<a, b, c>>, verdict))
<1> SUFFICES ASSUME NEW verdict \in Verdicts, NEW a \in Steps, NEW b \in Steps, NEW c \in Steps
             PROVE  /\ IsPlan(Chain(<<a>>, verdict))
                    /\ IsPlan(Chain(<<a, b>>, verdict))
                    /\ IsPlan(Chain(<<a, b, c>>, verdict))
                    /\ IsPlan(Together(<<a, b, c>>, verdict))
  OBVIOUS
<1>1. {<<a>>, <<a, b>>, <<a, b, c>>} \subseteq Seq(Steps) \ {<<>>}
  OBVIOUS
<1> QED
  BY <1>1, PlansAre

\* The tools of one command
LEMMA OneStep ==
  /\ \A verdict \in Verdicts, act \in Acts :
       IsPlan(Chain(<<Step(act)>>, verdict)) /\ IsPlan(Chain(<<Shell(Step(act))>>, verdict))
  /\ \A verdict \in Verdicts : IsPlan(Chain(<<IsActive("target")>>, verdict))
BY StepsAre, ShortPlans

LEMMA SinglesArePlans ==
  ASSUME NEW f \in {ExecTools, UnitTools, LogTools, FileTools, DockerTools, PowerTools,
                    ReclaimTools, EtcTools, PipelineTools, ManagerTools, VmctlExecTools,
                    VmctlUnitTools, VmctlSearchTools, VmctlInstall}
  PROVE  \A t \in DOMAIN f : IsPlan(f[t])
<1> DEFINE Of(acts, verdicts) ==
             \A act \in acts, v \in verdicts :
               IsPlan(Chain(<<Step(act)>>, v)) /\ IsPlan(Chain(<<Shell(Step(act))>>, v))
<1>1. /\ Of({"ask", "change", "host", "start", "containers"}, {"fmt", "raw"})
      /\ \A v \in {"fmt", "raw"} : IsPlan(Chain(<<IsActive("target")>>, v))
  BY OneStep DEF Acts, Verdicts
<1>2. \A t \in DOMAIN ExecTools : IsPlan(ExecTools[t])
  BY <1>1 DEF ExecTools, Change
<1>3. \A t \in DOMAIN UnitTools : IsPlan(UnitTools[t])
  BY <1>1 DEF UnitTools, Change, Ask
<1>4. \A t \in DOMAIN LogTools : IsPlan(LogTools[t])
  BY <1>1 DEF LogTools, Ask, Query
<1>5. \A t \in DOMAIN FileTools : IsPlan(FileTools[t])
  BY <1>1 DEF FileTools, Change
<1>6. \A t \in DOMAIN DockerTools : IsPlan(DockerTools[t])
  BY <1>1 DEF DockerTools, Change, Ask, Query
<1>7. \A t \in DOMAIN PowerTools : IsPlan(PowerTools[t])
  BY <1>1 DEF PowerTools, Change, Ask
<1>8. \A t \in DOMAIN ReclaimTools : IsPlan(ReclaimTools[t])
  BY <1>1 DEF ReclaimTools, Change
<1>9. \A t \in DOMAIN EtcTools : IsPlan(EtcTools[t])
  BY <1>1 DEF EtcTools, Ask
<1>10. \A t \in DOMAIN PipelineTools : IsPlan(PipelineTools[t])
  BY <1>1 DEF PipelineTools, Change
<1>11. \A t \in DOMAIN ManagerTools : IsPlan(ManagerTools[t])
  BY <1>1 DEF ManagerTools, Change, Ask
<1>12. \A t \in DOMAIN VmctlExecTools : IsPlan(VmctlExecTools[t])
  BY <1>1 DEF VmctlExecTools, Change
<1>13. \A t \in DOMAIN VmctlUnitTools : IsPlan(VmctlUnitTools[t])
  BY <1>1 DEF VmctlUnitTools, Change, Ask, Start
<1>14. \A t \in DOMAIN VmctlSearchTools : IsPlan(VmctlSearchTools[t])
  BY <1>1 DEF VmctlSearchTools, Ask
<1>15. \A t \in DOMAIN VmctlInstall : IsPlan(VmctlInstall[t])
  BY <1>1 DEF VmctlInstall, Change
<1> QED
  BY <1>2, <1>3, <1>4, <1>5, <1>6, <1>7, <1>8, <1>9, <1>10, <1>11, <1>12, <1>13, <1>14, <1>15

\* Searches, processes, inspection, audits, routes, the firewall, control, vmctl's processes
LEMMA ShortToolsArePlans ==
  ASSUME NEW f \in {SearchTools, ProcessTools, InspectionTools, RouteTools,
                    HttpAndFirewallTools, ControlTools, VmctlProcessTools}
  PROVE  \A t \in DOMAIN f : IsPlan(f[t])
<1>1. /\ {If("missing", Ask), If("nothing", Look)} \subseteq Steps
      /\ {Look, Ask, Start, Shell(Look), Shell(Ask), Shell(Change)} \subseteq Steps
  BY NamedSteps, StepsAre DEF Conditions
<1>2. Step("host") \in Steps
  BY StepsAre DEF Acts
<1>3. /\ IsPlan(Query)
      /\ IsPlan(Chain(<<Ask, If("missing", Ask)>>, "latest"))
      /\ IsPlan(Chain(<<Shell(Ask), Look, Look>>, "raw"))
      /\ IsPlan(Chain(<<Ask, Shell(Look)>>, "raw"))
  BY <1>1, ShortPlans DEF Query, Verdicts
<1>4. /\ IsPlan(Together(<<Look, Look, Look>>, "always"))
      /\ IsPlan(Chain(<<Look, Look, Look>>, "always"))
      /\ IsPlan(Chain(<<Shell(Change)>>, "fmt"))
      /\ IsPlan(Chain(<<Ask, If("nothing", Look)>>, "fmt"))
  BY <1>1, ShortPlans DEF Verdicts
<1>5. /\ IsPlan(Chain(<<Start, Look>>, "fmt")) /\ IsPlan(Chain(<<Step("host")>>, "fmt"))
      /\ IsPlan(Chain(<<Shell(Ask)>>, "fmt"))
      /\ IsPlan(Chain(<<Ask>>, "raw")) /\ IsPlan(Chain(<<Shell(Ask)>>, "raw"))
  BY <1>1, <1>2, ShortPlans DEF Verdicts
<1>6. \A t \in DOMAIN SearchTools : IsPlan(SearchTools[t])
  BY <1>3, <1>4, <1>5 DEF SearchTools
<1>7. \A t \in DOMAIN ProcessTools : IsPlan(ProcessTools[t])
  BY <1>3, <1>4, <1>5 DEF ProcessTools
<1>8. \A t \in DOMAIN InspectionTools : IsPlan(InspectionTools[t])
  BY <1>3, <1>4, <1>5 DEF InspectionTools
<1>9. \A t \in DOMAIN RouteTools : IsPlan(RouteTools[t])
  BY <1>3, <1>4, <1>5 DEF RouteTools
<1>10. \A t \in DOMAIN HttpAndFirewallTools : IsPlan(HttpAndFirewallTools[t])
  BY <1>3, <1>4, <1>5 DEF HttpAndFirewallTools
<1>11. \A t \in DOMAIN ControlTools : IsPlan(ControlTools[t])
  BY <1>3, <1>4, <1>5 DEF ControlTools
<1>12. \A t \in DOMAIN VmctlProcessTools : IsPlan(VmctlProcessTools[t])
  BY <1>3, <1>4, <1>5 DEF VmctlProcessTools
<1> QED
  BY <1>6, <1>7, <1>8, <1>9, <1>10, <1>11, <1>12

\* (mcp_server.py 1465-1611)
LEMMA AuditToolsArePlans == \A t \in DOMAIN AuditTools : IsPlan(AuditTools[t])
<1>1. <<Look, Look, Shell(Look), Look>> \in Seq(Steps)
  BY NamedSteps
<1>2. IsPlan(Together(<<Look, Look, Shell(Look), Look>>, "always"))
  BY <1>1, PlansAre DEF Verdicts
<1>3. IsPlan(Chain(<<Step("host")>>, "fmt")) /\ IsPlan(Chain(<<Ask>>, "raw"))
  BY OneStep DEF Acts, Verdicts, Ask
<1> QED
  BY <1>2, <1>3 DEF AuditTools

\* (mcp_server.py 1614-1739)
LEMMA SystemToolsArePlans == \A t \in DOMAIN SystemTools : IsPlan(SystemTools[t])
<1> DEFINE sysinfo == <<Shell(Look), Look, Shell(Look), Look, Shell(Step("hostname")),
                        Look, Shell(Look), Shell(Look)>>
<1>1. Shell(Step("hostname")) \in Steps
  BY StepsAre DEF Acts
<1>2. sysinfo \in Seq(Steps) /\ sysinfo # <<>>
  BY <1>1, NamedSteps
<1>3. IsPlan(Chain(sysinfo, "always"))
  BY <1>2, PlansAre DEF Verdicts
<1>4. /\ IsPlan(Chain(<<Start, Look>>, "raw"))
      /\ IsPlan(Chain(<<Change>>, "fmt")) /\ IsPlan(Chain(<<Shell(Change)>>, "fmt"))
  BY NamedSteps, ShortPlans DEF Verdicts
<1> QED
  BY <1>3, <1>4 DEF SystemTools

\* (cli.py 811-833)
LEMMA VmctlSysinfoIsPlan == \A t \in DOMAIN VmctlSysinfo : IsPlan(VmctlSysinfo[t])
<1> DEFINE sysinfo == <<Shell(Look), Look, Shell(Look), Look, Shell(Look),
                        Look, Shell(Look), Shell(Look)>>
<1>1. sysinfo \in Seq(Steps) /\ sysinfo # <<>>
  BY NamedSteps
<1>2. IsPlan(Chain(sysinfo, "always"))
  BY <1>1, PlansAre DEF Verdicts
<1> QED
  BY <1>2 DEF VmctlSysinfo

\* (mcp_server.py 2422-2532)
LEMMA DiscoveryToolsArePlans == \A t \in DOMAIN DiscoveryTools : IsPlan(DiscoveryTools[t])
<1> DEFINE steps == <<Step("host"), If("agent", Shell(Step("hostname"))), If("agent", Look),
                      If("agent", Shell(Step("containers"))), If("agent", Step("services"))>>
<1>1. /\ {Shell(Step("hostname")), Look, Shell(Step("containers")), Step("services")} \subseteq Steps
      /\ Step("host") \in Steps
  BY StepsAre, NamedSteps DEF Acts
<1>2. {If("agent", Shell(Step("hostname"))), If("agent", Look),
       If("agent", Shell(Step("containers"))), If("agent", Step("services"))} \subseteq Steps
  BY <1>1, StepsAre DEF Conditions
<1>3. steps \in Seq(Steps) /\ 1 \in DOMAIN steps
  BY <1>1, <1>2
<1>4. /\ DiscoveryTools["vm_autodiscover"].steps = steps
      /\ DiscoveryTools["vm_autodiscover"].verdict = "agent"
      /\ DOMAIN DiscoveryTools = {"vm_autodiscover"}
  BY DEF DiscoveryTools
<1> HIDE DEF steps
<1> QED
  BY <1>3, <1>4 DEF IsPlan, Verdicts

\* (mcp_server.py 2535-2629)
LEMMA DriftToolsArePlans == \A t \in DOMAIN DriftTools : IsPlan(DriftTools[t])
<1>1. {Step("services"), If("containers", Shell(Step("containers")))} \subseteq Steps
  BY StepsAre DEF Acts, Conditions
<1>2. IsPlan(Chain(<<Step("services"), If("containers", Shell(Step("containers")))>>, "drift"))
  BY <1>1, ShortPlans DEF Verdicts
<1> QED
  BY <1>2 DEF DriftTools

\* A health check has a step for every service, and one for the containers if it is asked
\* about some.  (mcp_server.py 205-256)
LEMMA HealthCheckIs ==
  /\ HealthCheck \in Seq(Steps)
  /\ \A i \in DOMAIN AskedServices :
       i \in DOMAIN HealthCheck /\ HealthCheck[i] = IsActive(AskedServices[i])
  /\ AskedContainers # {} =>
       /\ Len(AskedServices) + 1 \in DOMAIN HealthCheck
       /\ HealthCheck[Len(AskedServices) + 1] = Step("containers")
<1> DEFINE first == [i \in DOMAIN AskedServices |-> IsActive(AskedServices[i])]
           rest == IF AskedContainers = {} THEN <<>> ELSE <<Step("containers")>>
<1>1. AskedServices \in Seq(Names)
  BY AskedAssumption
<1>2. \A i \in DOMAIN AskedServices : IsActive(AskedServices[i]) \in Steps
  BY <1>1, StepsAre
<1>3. first \in Seq(Steps) /\ Len(first) = Len(AskedServices)
  BY <1>1, <1>2
<1>4. Step("containers") \in Steps
  BY StepsAre DEF Acts
<1>5. rest \in Seq(Steps) /\ (AskedContainers # {} => rest = <<Step("containers")>>)
  BY <1>4
<1>6. HealthCheck = first \o rest
  BY DEF HealthCheck
<1>7. \A i \in DOMAIN AskedServices : first[i] = IsActive(AskedServices[i])
  OBVIOUS
<1>8. DOMAIN AskedServices = 1..Len(AskedServices) /\ Len(AskedServices) \in Nat
  BY <1>1
<1> HIDE DEF first, rest
<1>9. /\ HealthCheck \in Seq(Steps) /\ Len(HealthCheck) = Len(first) + Len(rest)
      /\ \A i \in 1 .. Len(first) + Len(rest) :
           HealthCheck[i] = IF i <= Len(first) THEN first[i] ELSE rest[i - Len(first)]
  <2>1. first \in Seq(Steps) /\ rest \in Seq(Steps)
    BY <1>3, <1>5
  <2>2. /\ first \o rest \in Seq(Steps) /\ Len(first \o rest) = Len(first) + Len(rest)
        /\ \A i \in 1 .. Len(first) + Len(rest) :
             (first \o rest)[i] = IF i <= Len(first) THEN first[i] ELSE rest[i - Len(first)]
    BY <2>1, ConcatProperties, Zenon
  <2> QED
    BY <1>6, <2>2, Zenon
<1>10. ASSUME NEW i \in DOMAIN AskedServices
       PROVE  i \in DOMAIN HealthCheck /\ HealthCheck[i] = IsActive(AskedServices[i])
  <2>1. i \in 1..Len(first) /\ Len(rest) \in Nat /\ Len(first) \in Nat
    BY <1>3, <1>5, <1>8
  <2>2. DOMAIN HealthCheck = 1..Len(HealthCheck)
    BY <1>9
  <2> QED
    BY <1>7, <1>9, <2>1, <2>2
<1>11. ASSUME AskedContainers # {}
       PROVE  /\ Len(AskedServices) + 1 \in DOMAIN HealthCheck
              /\ HealthCheck[Len(AskedServices) + 1] = Step("containers")
  <2>1. Len(rest) = 1 /\ rest[1] = Step("containers")
    BY <1>5, <1>11
  <2>2. DOMAIN HealthCheck = 1..Len(HealthCheck)
    BY <1>9
  <2>3. Len(first) = Len(AskedServices) /\ Len(first) \in Nat
    BY <1>3, <1>8
  <2>4. HealthCheck[Len(first) + 1] = rest[1]
    BY <1>9, <2>1, <2>3
  <2>5. Len(HealthCheck) = Len(first) + 1
    BY <1>9, <2>1, Zenon
  <2>6. Len(first) + 1 \in DOMAIN HealthCheck
    BY <2>2, <2>3, <2>5
  <2> QED
    BY <2>1, <2>3, <2>4, <2>6, Zenon
<1> QED
  BY <1>9, <1>10, <1>11

LEMMA HealthToolsArePlans ==
  /\ \A t \in DOMAIN SloTools : IsPlan(SloTools[t])
  /\ \A t \in DOMAIN TextHealthTools : IsPlan(TextHealthTools[t])
<1>1. IsPlan(Chain(HealthCheck, "health")) /\ IsPlan(Chain(HealthCheck, "text"))
  BY HealthCheckIs DEF Chain, IsPlan, Verdicts
<1> QED
  BY <1>1 DEF SloTools, TextHealthTools

\* A tool is in one of the families, with its plan.
LEMMA CatalogueIs ==
  ASSUME NEW t \in DOMAIN Catalogue
  PROVE  /\ IsPlan(Catalogue[t])
         /\ \E f \in Families : t \in DOMAIN f /\ Catalogue[t] = f[t]
<1>1. \A f \in Families : \A u \in DOMAIN f : IsPlan(f[u])
  BY SinglesArePlans, ShortToolsArePlans, AuditToolsArePlans, SystemToolsArePlans,
     VmctlSysinfoIsPlan, DiscoveryToolsArePlans, DriftToolsArePlans, HealthToolsArePlans
     DEF Families
<1>2. \E f \in Families : t \in DOMAIN f /\ Catalogue[t] = f[t]
  BY DEF Catalogue
<1> QED
  BY <1>1, <1>2

\* The tools that look at what runs, or remember what they learned
LEMMA NamedPlans ==
  /\ Catalogue["vm_slo_check"] = Chain(HealthCheck, "health")
  /\ \A t \in {"check_guest_health", "vmctl_slo"} :
       Catalogue[t] = Chain(HealthCheck, "text")
  /\ Catalogue["vm_drift_check"] =
       Chain(<<Step("services"), If("containers", Shell(Step("containers")))>>, "drift")
  /\ Catalogue["vm_service_enable_now"] = Chain(<<Start, Look>>, "fmt")
  /\ Catalogue["vm_sysinfo"] = SystemTools["vm_sysinfo"]
  /\ Catalogue["vm_autodiscover"] = DiscoveryTools["vm_autodiscover"]
<1> DEFINE Only(t, g) == t \in DOMAIN g /\ \A f \in Families : t \in DOMAIN f => f = g
<1>1. \A t, g : g \in Families /\ Only(t, g) => Catalogue[t] = g[t]
  <2> SUFFICES ASSUME NEW t, NEW g \in Families, Only(t, g) PROVE Catalogue[t] = g[t]
    OBVIOUS
  <2>1. t \in DOMAIN Catalogue
    BY DEF Catalogue
  <2> QED
    BY <2>1, CatalogueIs
<1>2. /\ Only("vm_slo_check", SloTools)
      /\ \A t \in {"check_guest_health", "vmctl_slo"} : Only(t, TextHealthTools)
      /\ Only("vm_drift_check", DriftTools)
      /\ Only("vm_service_enable_now", ControlTools)
      /\ Only("vm_sysinfo", SystemTools)
      /\ Only("vm_autodiscover", DiscoveryTools)
  BY DEF Families, ExecTools, UnitTools, SloTools, SearchTools, ProcessTools, InspectionTools,
         AuditTools, SystemTools, LogTools, RouteTools, HttpAndFirewallTools, FileTools,
         DockerTools, ControlTools, DiscoveryTools, DriftTools, PowerTools, ReclaimTools,
         EtcTools, PipelineTools, ManagerTools, TextHealthTools, VmctlExecTools,
         VmctlUnitTools, VmctlProcessTools, VmctlSysinfo, VmctlSearchTools, VmctlInstall
<1>3. {SloTools, TextHealthTools, DriftTools, ControlTools, SystemTools, DiscoveryTools}
        \subseteq Families
  BY DEF Families
<1> HIDE DEF Only
<1>4. /\ Catalogue["vm_slo_check"] = SloTools["vm_slo_check"]
      /\ \A t \in {"check_guest_health", "vmctl_slo"} : Catalogue[t] = TextHealthTools[t]
      /\ Catalogue["vm_drift_check"] = DriftTools["vm_drift_check"]
      /\ Catalogue["vm_service_enable_now"] = ControlTools["vm_service_enable_now"]
      /\ Catalogue["vm_sysinfo"] = SystemTools["vm_sysinfo"]
      /\ Catalogue["vm_autodiscover"] = DiscoveryTools["vm_autodiscover"]
  BY <1>1, <1>2, <1>3
<1> QED
  BY <1>4 DEF SloTools, TextHealthTools, DriftTools, ControlTools

--------------------------------------------------------------------------------
(* Answers.                                                                 *)
\* Every name is one of a service.
LEMMA UnitIs == \A n \in Names : Unit(n) \in Services
BY StrippedAssumption DEF Names, Unit

LEMMA EndedIs ==
  ASSUME NEW n \in {0, 1}, NEW L \in SUBSET Lines, NEW a \in Ended(n, L)
  PROVE  /\ a \in GuestResults(Lines) /\ a # Pending
         /\ a.exit = n /\ a.lines = L /\ (a.lines # {} => a.data)
<1>1. PICK d \in BOOLEAN :
        /\ L # {} => d
        /\ a = [ok |-> TRUE, exit |-> n, data |-> d, lines |-> L, missing |-> FALSE]
  BY DEF Ended
<1>2. a.exit = n /\ a.lines = L /\ a.data = d
  BY <1>1
<1>3. a \in GuestResults(Lines)
  BY <1>1 DEF GuestResults
<1>4. a # Pending
  BY <1>2 DEF Pending, NoExit
<1>5. a.lines # {} => a.data
  BY <1>1, <1>2, Zenon
<1> QED
  BY <1>2, <1>3, <1>4, <1>5

LEMMA NotEnded ==
  ASSUME NEW a \in {Failed(TRUE), Failed(FALSE), StillRunning, HostOutput}
  PROVE  a \in GuestResults(Lines) /\ a.exit # 0 /\ a.lines = {} /\ a # Pending
<1>1. \A m \in BOOLEAN : /\ Failed(m) \in GuestResults(Lines)
                         /\ Failed(m).exit = NoExit /\ Failed(m).lines = {}
  BY DEF Failed, GuestResults
<1>2. /\ StillRunning \in GuestResults(Lines)
      /\ StillRunning.exit = NoExit /\ StillRunning.lines = {}
  BY DEF StillRunning, GuestResults
<1>3. /\ HostOutput \in GuestResults(Lines)
      /\ HostOutput.exit = NoExit /\ HostOutput.lines = {}
  BY DEF HostOutput, GuestResults
<1>4. Pending.lines # {} /\ NoExit # 0
  BY DEF Pending, NoExit
<1> QED
  BY <1>1, <1>2, <1>3, <1>4

\* What may come of a step: an answer of qm's without an end of the command, or with one.
LEMMA AnswerForms ==
  ASSUME NEW r, NEW step \in Steps, NEW x \in AnswersTo(r, step)
  PROVE  LET printed == IF step.shell THEN {} ELSE Prints(r, step) IN
         \/ x \in {Failed(TRUE), Failed(FALSE), StillRunning, HostOutput}
         \/ step.act \notin {"look", "host"} /\ x \in Ended(1, printed \cap {"inactive"})
         \/ step.act \notin {"look", "host"} /\ x \in Ended(0, printed) /\ MaySucceed(r, step)
<1>1. CASE step.act = "look"
  BY <1>1 DEF AnswersTo, Looked
<1>2. CASE step.act = "host"
  BY <1>2 DEF AnswersTo
<1>3. CASE step.act \notin {"look", "host"}
  BY <1>3 DEF AnswersTo
<1> QED
  BY <1>1, <1>2, <1>3

\* What the answer x to a step says of the guest
Says(r, step, x) ==
  /\ x \in GuestResults(Lines) /\ x # Pending
  /\ step.shell => x.lines = {}
  /\ x.lines # {} => x.data
  /\ step.act = "services" =>
       /\ x.lines \subseteq up \cap Services
       /\ x.exit = 0 /\ ~step.shell => x.lines = up \cap Services
  /\ step.act = "containers" =>
       /\ x.lines \subseteq (up \cap Containers) \cup {Detail}
       /\ x.lines # {} => up \cap Containers # {}
  /\ step.act = "is-active" /\ "active" \in x.lines => On(r, step) \in up

LEMMA AnswerSays ==
  ASSUME TypeOK, NEW r, NEW step \in Steps, NEW x \in AnswersTo(r, step)
  PROVE  Says(r, step, x)
<1> DEFINE printed == IF step.shell THEN {} ELSE Prints(r, step)
<1>1. printed \in SUBSET Lines
  BY DEF Prints, Lines, Units, TypeOK
<1>2. /\ step.act = "services" /\ ~step.shell => printed = up \cap Services
      /\ step.act = "containers" =>
           printed \in {{}, (up \cap Containers) \cup {Detail}} /\ (printed # {} => up \cap Containers # {})
      /\ step.act = "is-active" /\ "active" \in printed => On(r, step) \in up
      /\ step.shell => printed = {}
  BY DEF Prints
<1>3. \/ x \in {Failed(TRUE), Failed(FALSE), StillRunning, HostOutput}
      \/ step.act \notin {"look", "host"} /\ x \in Ended(1, printed \cap {"inactive"})
      \/ step.act \notin {"look", "host"} /\ x \in Ended(0, printed)
  BY AnswerForms
<1> HIDE DEF printed
<1>4. CASE x \in {Failed(TRUE), Failed(FALSE), StillRunning, HostOutput}
  <2>1. x \in GuestResults(Lines) /\ x # Pending /\ x.exit # 0 /\ x.lines = {}
    BY <1>4, NotEnded, Zenon
  <2> QED
    BY <2>1 DEF Says
<1>5. CASE step.act \notin {"look", "host"} /\ x \in Ended(1, printed \cap {"inactive"})
  <2>1. /\ x \in GuestResults(Lines) /\ x # Pending /\ x.exit = 1
        /\ x.lines = printed \cap {"inactive"} /\ (x.lines # {} => x.data)
    BY <1>1, <1>5, EndedIs
  <2> QED
    BY <1>2, <2>1 DEF Says, Steps
<1>6. CASE step.act \notin {"look", "host"} /\ x \in Ended(0, printed)
  <2>1. /\ x \in GuestResults(Lines) /\ x # Pending /\ x.exit = 0
        /\ x.lines = printed /\ (x.lines # {} => x.data)
    BY <1>1, <1>6, EndedIs
  <2> QED
    BY <1>2, <2>1 DEF Says, Steps
<1> QED
  BY <1>3, <1>4, <1>5, <1>6

--------------------------------------------------------------------------------
(* The invariant.                                                           *)
Call(r) == tool[r] # NoTool

\* A call that is not made has done nothing.
Uncalled(r) ==
  ~Call(r) => reply[r] = NoReply /\ seen[r] = {} /\ answer[r] = <<>> /\ acted[r] = {}

\* A call that starts a service has one.
Targeted(r) ==
  Call(r) =>
    \A i \in DOMAIN answer[r] : Plan(r).steps[i].act = "start" => target[r] \in Names

\* What the answer to step i of call r tells of what happened since.
Tells(r, i) ==
  LET a == answer[r][i]
      step == Plan(r).steps[i]
  IN /\ step.shell => a.lines = {}
     /\ a.lines # {} => a.data
     /\ step.act = "services" => a.lines \subseteq seen[r] \cap Services
     /\ step.act = "containers" =>
          /\ a.lines \subseteq (seen[r] \cap Containers) \cup {Detail}
          /\ a.lines # {} => seen[r] \cap Containers # {}
     /\ step.act = "is-active" /\ "active" \in a.lines => On(r, step) \in seen[r]
     /\ step.act = "start" /\ a.ok => target[r] \in grounds

AnswersTell(r) ==
  Call(r) => \A i \in DOMAIN answer[r] : Answered(answer[r], i) => Tells(r, i)

\* A reply is made of the answers, or of none of them.
ReplyIsOfAnswers(r) ==
  Call(r) =>
    \/ reply[r] = NoReply
    \/ reply[r] = ReplyFrom(r, answer[r])
    \/ /\ tool[r] = "vm_drift_check" /\ answer[r][1] = Pending
       /\ reply[r] = Reply(TRUE, NoExit)

\* The services a drift check had looked at are those its first answer lists.
DriftSees(r) ==
  tool[r] = "vm_drift_check" =>
    /\ ~Answered(answer[r], 1) => seen[r] \cap Services = {}
    /\ answer[r][1].exit = 0 => seen[r] \cap Services = answer[r][1].lines

CallInv(r) ==
  Uncalled(r) /\ Targeted(r) /\ AnswersTell(r) /\ ReplyIsOfAnswers(r) /\ DriftSees(r)

\* What runs, or was seen to run, has run.
RunsAreGrounds == up \subseteq grounds /\ \A r \in Runs : seen[r] \subseteq grounds

GuestInv == TypeOK /\ (\A r \in Runs : CallInv(r)) /\ RunsAreGrounds /\ MemoryIsGrounded

\* What a call's answers are, by type: one for each step of its plan.
LEMMA CallIs ==
  ASSUME TypeOK, NEW r \in Runs, Call(r)
  PROVE  /\ tool[r] \in DOMAIN Catalogue /\ IsPlan(Plan(r))
         /\ answer[r] \in [DOMAIN Plan(r).steps -> GuestResults(Lines)]
         /\ \A i \in DOMAIN answer[r] : Plan(r).steps[i] \in Steps
         /\ Len(answer[r]) = Len(Plan(r).steps)
<1>1. /\ tool[r] \in DOMAIN Catalogue /\ answer[r] \in Seq(GuestResults(Lines))
      /\ DOMAIN answer[r] = DOMAIN Plan(r).steps
  BY DEF TypeOK, Call
<1>2. IsPlan(Plan(r))
  BY <1>1, CatalogueIs DEF Plan
<1>3. Plan(r).steps \in Seq(Steps)
  BY <1>2 DEF IsPlan
<1> QED
  BY <1>1, <1>2, <1>3

\* No tool has the name that stands for none.
LEMMA NoToolApart == NoTool \notin DOMAIN Catalogue
<1>1. \A f \in Families : NoTool \notin DOMAIN f
  BY DEF Families, NoTool, ExecTools, UnitTools, SloTools, SearchTools, ProcessTools,
         InspectionTools, AuditTools, SystemTools, LogTools, RouteTools, HttpAndFirewallTools,
         FileTools, DockerTools, ControlTools, DiscoveryTools, DriftTools, PowerTools,
         ReclaimTools, EtcTools, PipelineTools, ManagerTools, TextHealthTools, VmctlExecTools,
         VmctlUnitTools, VmctlProcessTools, VmctlSysinfo, VmctlSearchTools, VmctlInstall
<1> QED
  BY <1>1 DEF Catalogue

LEMMA InitInv == Init => GuestInv
<1> SUFFICES ASSUME Init PROVE GuestInv
  OBVIOUS
<1>1. \A r \in Runs : ~Call(r) /\ tool[r] # "vm_drift_check"
  BY DEF Init, Call, NoTool
<1>2. NoRecord \in Records
  BY DEF NoRecord, Records
<1>3. TypeOK
  <2>1. /\ tool \in [Runs -> DOMAIN Catalogue \cup {NoTool}]
        /\ answer \in [Runs -> Seq(GuestResults(Lines))]
        /\ acted \in [Runs -> SUBSET Nat]
        /\ \A r \in Runs : tool[r] = NoTool
        /\ target \in [Runs -> Names \cup {NoService}]
        /\ baseline \in [Runs -> Records]
        /\ seen \in [Runs -> SUBSET Units]
    BY <1>2 DEF Init
  <2>2. reply \in [Runs -> [made : BOOLEAN, ok : BOOLEAN, exit : {NoExit, 0, 1}]]
    BY DEF Init, NoReply
  <2>3. /\ up \in SUBSET Units /\ memory \in Records /\ grounds \in SUBSET (Units \cup FullNames)
        /\ changes \in 0..MaxChanges /\ edits \in 0..MaxEdits
    BY <1>2, MaxChangesAssumption, MaxEditsAssumption DEF Init
  <2> QED
    BY <2>1, <2>2, <2>3 DEF TypeOK
<1>4. \A r \in Runs : CallInv(r)
  BY <1>1 DEF Init, CallInv, Uncalled, Targeted, AnswersTell, ReplyIsOfAnswers, DriftSees
<1>5. RunsAreGrounds /\ MemoryIsGrounded
  BY DEF Init, RunsAreGrounds, MemoryIsGrounded, NoRecord
<1> QED
  BY <1>3, <1>4, <1>5 DEF GuestInv

--------------------------------------------------------------------------------
(* What stays.                                                              *)
\* Call q and its answers are left alone, and nothing of its history is forgotten.
Kept(q) ==
  /\ tool'[q] = tool[q] /\ target'[q] = target[q] /\ baseline'[q] = baseline[q]
  /\ answer'[q] = answer[q] /\ reply'[q] = reply[q]
  /\ acted'[q] = acted[q] /\ seen'[q] = seen[q]
  /\ grounds \subseteq grounds'

LEMMA KeptCall ==
  ASSUME NEW q \in Runs, CallInv(q), Kept(q)
  PROVE  CallInv(q)'
<1>1. ReplyFrom(q, answer[q])' = ReplyFrom(q, answer[q])
  BY DEF Kept, ReplyFrom, Plan, Healthy, TextHealthy, Missing
<1>2. Plan(q)' = Plan(q) /\ Call(q)' = Call(q)
  BY DEF Kept, Plan, Call
<1>3. \A step : On(q, step)' = On(q, step)
  BY DEF Kept, On
<1>4. ASSUME NEW i \in DOMAIN answer[q], Tells(q, i)
      PROVE  Tells(q, i)'
  BY <1>2, <1>3, <1>4 DEF Kept, Tells
<1>5. ReplyIsOfAnswers(q) => ReplyIsOfAnswers(q)'
  BY <1>1, <1>2 DEF Kept, ReplyIsOfAnswers
<1>6. Uncalled(q)' /\ Targeted(q)' /\ DriftSees(q)'
  BY <1>2 DEF CallInv, Uncalled, Targeted, DriftSees, Kept, Answered
<1>7. AnswersTell(q)'
  BY <1>2, <1>4 DEF CallInv, AnswersTell, Kept, Answered
<1> QED
  BY <1>5, <1>6, <1>7 DEF CallInv

--------------------------------------------------------------------------------
(* A step that is answered.                                                 *)
\* Perform, with the answer and the steps that acted.
Performed(r, i, x, done) ==
  LET step == Plan(r).steps[i]
      a == [answer[r] EXCEPT ![i] = x]
  IN /\ Call(r) /\ ~reply[r].made /\ ~Answered(answer[r], i)
     /\ Says(r, step, x)
     /\ answer' = [answer EXCEPT ![r] = a]
     /\ up' = IF done # {} /\ step.act = "start" THEN up \cup {Unit(target[r])} ELSE up
     /\ acted' = [acted EXCEPT ![r] = @ \cup done]
     /\ seen' = [seen EXCEPT ![r] = @ \cup
                   CASE step.act = "services" -> up \cap Services
                     [] step.act = "containers" -> up \cap Containers
                     [] step.act = "is-active" -> up \cap {On(r, step)}
                     [] OTHER -> {}]
     /\ grounds' = grounds \cup up'
          \cup IF step.act = "start" /\ x.ok THEN {target[r]} ELSE {}
     /\ memory' = Annotate(Learned(r, a, i))
     /\ reply' = IF Due(r, a) = {}
                 THEN [reply EXCEPT ![r] = ReplyFrom(r, a)]
                 ELSE reply
     /\ UNCHANGED <<tool, target, baseline, changes, edits>>

LEMMA PerformIs ==
  ASSUME TypeOK, NEW r \in Runs, NEW i \in DOMAIN answer[r], Perform(r, i)
  PROVE  \E x \in GuestResults(Lines), done \in SUBSET {i} : Performed(r, i, x, done)
<1> DEFINE step == Plan(r).steps[i]
           Body(x, acts) ==
             LET a == [answer[r] EXCEPT ![i] = x] IN
             /\ answer' = [answer EXCEPT ![r] = a]
             /\ up' = IF acts /\ step.act = "start" THEN up \cup {Unit(target[r])} ELSE up
             /\ acted' = IF acts THEN [acted EXCEPT ![r] = @ \cup {i}] ELSE acted
             /\ seen' = [seen EXCEPT ![r] = @ \cup
                           CASE step.act = "services" -> up \cap Services
                             [] step.act = "containers" -> up \cap Containers
                             [] step.act = "is-active" -> up \cap {On(r, step)}
                             [] OTHER -> {}]
             /\ grounds' = grounds \cup up'
                  \cup IF step.act = "start" /\ x.ok THEN {target[r]} ELSE {}
             /\ memory' = Annotate(Learned(r, a, i))
             /\ reply' = IF Due(r, a) = {}
                         THEN [reply EXCEPT ![r] = ReplyFrom(r, a)]
                         ELSE reply
<1>1. Call(r) /\ ~reply[r].made /\ ~Answered(answer[r], i)
  BY DEF Perform, Call, Due
<1>2. step \in Steps
  BY <1>1, CallIs
<1>3. PICK x \in AnswersTo(r, step) : \E acts \in MayHaveActed(step, x) : Body(x, acts)
  BY DEF Perform
<1>4. PICK acts \in MayHaveActed(step, x) : Body(x, acts)
  BY <1>3
<1>5. Says(r, step, x) /\ x \in GuestResults(Lines) /\ acts \in BOOLEAN
  <2>1. Says(r, step, x)
    BY <1>2, AnswerSays
  <2>2. acts \in BOOLEAN
    BY DEF MayHaveActed
  <2> QED
    BY <2>1, <2>2 DEF Says
<1>6. UNCHANGED <<tool, target, baseline, changes, edits>>
  BY DEF Perform
<1>7. CASE acts = TRUE
  <2>1. Performed(r, i, x, {i})
    BY <1>1, <1>4, <1>5, <1>6, <1>7 DEF Performed
  <2> QED
    BY <1>5, <2>1
<1>8. CASE acts = FALSE
  <2>1. acted' = [acted EXCEPT ![r] = @ \cup {}]
    BY <1>4, <1>8 DEF TypeOK
  <2>2. Performed(r, i, x, {})
    BY <1>1, <1>4, <1>5, <1>6, <1>8, <2>1 DEF Performed
  <2> QED
    BY <1>5, <2>2
<1> QED
  BY <1>5, <1>7, <1>8

\* What was true of the call whose step is answered, and is true of the others still
LEMMA PerformKeeps ==
  ASSUME TypeOK, NEW r \in Runs, NEW i \in DOMAIN answer[r], NEW x, NEW done \in SUBSET {i},
         Performed(r, i, x, done)
  PROVE  /\ \A q \in Runs \ {r} : Kept(q)
         /\ answer'[r] = [answer[r] EXCEPT ![i] = x]
         /\ acted'[r] = acted[r] \cup done
         /\ seen[r] \subseteq seen'[r]
         /\ \A q \in Runs : tool'[q] = tool[q] /\ target'[q] = target[q] /\ baseline'[q] = baseline[q]
         /\ Plan(r)' = Plan(r)
         /\ grounds \subseteq grounds'
<1>1. /\ answer \in [Runs -> Seq(GuestResults(Lines))] /\ acted \in [Runs -> SUBSET Nat]
      /\ seen \in [Runs -> SUBSET Units]
      /\ reply \in [Runs -> [made : BOOLEAN, ok : BOOLEAN, exit : {NoExit, 0, 1}]]
  BY DEF TypeOK
<1>2. /\ \A q \in Runs \ {r} : answer'[q] = answer[q] /\ acted'[q] = acted[q]
      /\ answer'[r] = [answer[r] EXCEPT ![i] = x]
      /\ acted'[r] = acted[r] \cup done
  BY <1>1 DEF Performed
<1>3. /\ \A q \in Runs \ {r} : seen'[q] = seen[q]
      /\ seen[r] \subseteq seen'[r]
  BY <1>1 DEF Performed
<1>4. \A q \in Runs \ {r} : reply'[q] = reply[q]
  BY <1>1 DEF Performed
<1>5. /\ tool' = tool /\ target' = target /\ baseline' = baseline
      /\ grounds \subseteq grounds'
  BY DEF Performed
<1>6. Plan(r)' = Plan(r)
  BY <1>5 DEF Plan
<1> QED
  BY <1>2, <1>3, <1>4, <1>5, <1>6 DEF Kept

\* Each answer, the new one included, tells what Tells says of it.
LEMMA PerformTells ==
  ASSUME TypeOK, NEW r \in Runs, NEW i \in DOMAIN answer[r], NEW x, NEW done \in SUBSET {i},
         CallInv(r), Performed(r, i, x, done)
  PROVE  \A j \in DOMAIN answer'[r] :
           /\ Plan(r)'.steps[j].act = "start" => target'[r] \in Names
           /\ Answered(answer'[r], j) => Tells(r, j)'
<1> DEFINE step == Plan(r).steps[i]
<1>1. /\ answer'[r] = [answer[r] EXCEPT ![i] = x] /\ Plan(r)' = Plan(r)
      /\ acted'[r] = acted[r] \cup done
      /\ seen[r] \subseteq seen'[r] /\ target'[r] = target[r] /\ grounds \subseteq grounds'
  BY PerformKeeps
<1>2. answer[r] \in Seq(GuestResults(Lines)) /\ DOMAIN answer'[r] = DOMAIN answer[r]
  BY <1>1 DEF TypeOK
<1>3. \A s : On(r, s)' = On(r, s)
  BY <1>1 DEF On
<1>4. Call(r)
  BY DEF Performed
<1>5. ASSUME NEW j \in DOMAIN answer[r], j # i, Answered(answer'[r], j)
      PROVE  Tells(r, j)'
  <2>1. answer'[r][j] = answer[r][j]
    BY <1>1, <1>2, <1>5
  <2>2. Tells(r, j)
    BY <1>4, <1>5, <2>1 DEF CallInv, AnswersTell, Answered
  <2> QED
    BY <1>1, <1>3, <2>1, <2>2 DEF Tells
<1>6. Tells(r, i)'
  <2>1. answer'[r][i] = x
    BY <1>1, <1>2
  <2>2. Says(r, step, x)
    BY DEF Performed
  <2>3. /\ step.act = "services" => up \cap Services \subseteq seen'[r]
        /\ step.act = "containers" => up \cap Containers \subseteq seen'[r]
        /\ step.act = "is-active" => up \cap {On(r, step)} \subseteq seen'[r]
        /\ step.act = "start" /\ x.ok => target[r] \in grounds'
    BY DEF Performed, TypeOK
  <2> QED
    BY <1>1, <1>3, <2>1, <2>2, <2>3 DEF Tells, Says
<1> QED
  BY <1>1, <1>2, <1>4, <1>5, <1>6 DEF CallInv, Targeted

\* A reply that is made of answers is made.
LEMMA ReplyIsMade ==
  ASSUME TypeOK, NEW r \in Runs, Call(r), NEW a
  PROVE  ReplyFrom(r, a).made = TRUE
<1>1. Plan(r).verdict \in Verdicts
  BY CallIs DEF IsPlan
<1> QED
  BY <1>1 DEF ReplyFrom, Verdicts, Reply

\* The reply of a call whose last step is answered is made of its answers.
LEMMA PerformReplies ==
  ASSUME TypeOK, NEW r \in Runs, NEW i \in DOMAIN answer[r], NEW x, NEW done \in SUBSET {i},
         CallInv(r), Performed(r, i, x, done)
  PROVE  ReplyIsOfAnswers(r)'
<1> DEFINE a == [answer[r] EXCEPT ![i] = x]
<1>1. answer'[r] = a /\ tool'[r] = tool[r] /\ baseline'[r] = baseline[r]
  BY PerformKeeps
<1>2. ReplyFrom(r, answer[r])' = ReplyFrom(r, a)
  BY <1>1 DEF ReplyFrom, Plan, Healthy, TextHealthy, Missing
<1>3. reply[r] \in [made : BOOLEAN, ok : BOOLEAN, exit : {NoExit, 0, 1}] /\ ~reply[r].made
  BY DEF TypeOK, Performed
<1>4. CASE Due(r, a) = {}
  <2>1. reply' = [reply EXCEPT ![r] = ReplyFrom(r, a)]
    BY <1>4 DEF Performed
  <2>2. reply'[r] = ReplyFrom(r, a)
    BY <2>1 DEF TypeOK
  <2> QED
    BY <1>2, <2>2 DEF ReplyIsOfAnswers
<1>5. CASE Due(r, a) # {}
  <2>1. reply' = reply
    BY <1>5 DEF Performed
  <2>2. reply[r] = NoReply
    <3>1. Call(r) /\ ReplyIsOfAnswers(r)
      BY DEF Performed, CallInv
    <3>2. ReplyFrom(r, answer[r]).made = TRUE /\ Reply(TRUE, NoExit).made = TRUE
      BY <3>1, ReplyIsMade DEF Reply
    <3> QED
      BY <1>3, <3>1, <3>2 DEF ReplyIsOfAnswers
  <2> QED
    BY <2>1, <2>2 DEF ReplyIsOfAnswers
<1> QED
  BY <1>4, <1>5

\* A drift check's first answer lists the services it had looked at.
LEMMA PerformDrift ==
  ASSUME TypeOK, NEW r \in Runs, NEW i \in DOMAIN answer[r], NEW x, NEW done \in SUBSET {i},
         CallInv(r), Performed(r, i, x, done), tool[r] = "vm_drift_check"
  PROVE  /\ ~Answered(answer'[r], 1) => seen'[r] \cap Services = {}
         /\ answer'[r][1].exit = 0 => seen'[r] \cap Services = answer'[r][1].lines
<1> DEFINE steps == <<Step("services"), If("containers", Shell(Step("containers")))>>
           step == Plan(r).steps[i]
<1>1. Plan(r).steps = steps
  BY NamedPlans DEF Plan, Chain
<1>2. Call(r) /\ Says(r, step, x) /\ answer'[r] = [answer[r] EXCEPT ![i] = x]
  <2>1. answer'[r] = [answer[r] EXCEPT ![i] = x]
    BY PerformKeeps
  <2> QED
    BY <2>1 DEF Performed
<1>3. answer[r] \in Seq(GuestResults(Lines)) /\ DOMAIN answer[r] = {1, 2}
  BY <1>1, <1>2, CallIs DEF TypeOK
<1>4. seen[r] \subseteq Units /\ Services \cap Containers = {}
  BY NamesAssumption DEF TypeOK, Names
<1>5. CASE i = 1
  <2>1. step.act = "services" /\ ~step.shell
    BY <1>1, <1>5 DEF Step
  <2>2. answer'[r][1] = x /\ x # Pending /\ (x.exit = 0 => x.lines = up \cap Services)
    BY <1>2, <1>3, <1>5, <2>1 DEF Says
  <2>3. seen'[r] = seen[r] \cup (up \cap Services)
    BY <2>1 DEF Performed, TypeOK
  <2>4. seen[r] \cap Services = {}
    BY <1>5 DEF CallInv, DriftSees, Performed
  <2> QED
    BY <2>2, <2>3, <2>4 DEF Answered
<1>6. CASE i = 2
  <2>1. step.act = "containers"
    BY <1>1, <1>6, StepFields, StepsAre DEF Acts
  <2>2. answer'[r][1] = answer[r][1]
    BY <1>2, <1>3, <1>6
  <2>3. seen'[r] = seen[r] \cup (up \cap Containers)
    BY <2>1 DEF Performed, TypeOK
  <2>4. seen'[r] \cap Services = seen[r] \cap Services
    BY <1>4, <2>3
  <2> QED
    BY <2>2, <2>4 DEF CallInv, DriftSees, Answered
<1> QED
  BY <1>3, <1>5, <1>6

\* What a tool reads of an answer is what the command printed, or qm's text.
LEMMA ListedIs ==
  ASSUME NEW a, NEW j
  PROVE  Listed(a, j) \subseteq a[j].lines \cup {Envelope} /\ (~Answered(a, j) => Listed(a, j) = {})
BY DEF Listed, GuestStdout

\* What a call learns is typed and grounded, if its answers are.
LEMMA LearnedIs ==
  ASSUME NEW r \in Runs, NEW a, NEW i, NEW G,
         tool[r] = "vm_service_enable_now" => target[r] \in Names,
         \A j \in DOMAIN Plan(r).steps :
           Answered(a, j) =>
             /\ Plan(r).steps[j].shell => a[j].lines = {}
             /\ Plan(r).steps[j].act = "services" => a[j].lines \subseteq G
             /\ Plan(r).steps[j].act = "start" /\ a[j].ok => target[r] \in G
  PROVE  /\ Learned(r, a, i) \in Records
         /\ Learned(r, a, i).services \subseteq G
         /\ Learned(r, a, i).containers \subseteq {Envelope}
<1> DEFINE L == Learned(r, a, i)
<1>1. ASSUME NEW j \in DOMAIN Plan(r).steps, Plan(r).steps[j].shell
      PROVE  Listed(a, j) \subseteq {Envelope}
  BY <1>1, ListedIs
<1>2. Envelope \notin Services
  BY NamesAssumption DEF Names
<1>3. CASE tool[r] = "vm_sysinfo" /\ i = Len(a)
  <2>1. Plan(r).steps[5] = Shell(Step("hostname")) /\ 5 \in DOMAIN Plan(r).steps
    BY <1>3, NamedPlans DEF Plan, SystemTools, Chain
  <2>2. Listed(a, 5) \subseteq {Envelope}
    BY <1>1, <2>1, StepFields, StepsAre DEF Acts
  <2>3. L = [NoRecord EXCEPT !.hostnames = Listed(a, 5)]
    BY <1>3 DEF Learned
  <2> QED
    BY <2>2, <2>3 DEF NoRecord, Records
<1>4. CASE tool[r] = "vm_service_enable_now" /\ i = 2 /\ a[1].ok
  <2>1. Plan(r).steps[1].act = "start" /\ 1 \in DOMAIN Plan(r).steps
    BY <1>4, NamedPlans, StepFields DEF Plan, Chain, Start
  <2>2. Answered(a, 1)
    BY <1>4 DEF Answered, Pending
  <2>3. target[r] \in G /\ target[r] \in Names
    BY <1>4, <2>1, <2>2
  <2>4. L = [NoRecord EXCEPT !.services = {target[r]}]
    BY <1>4 DEF Learned
  <2> QED
    BY <2>3, <2>4 DEF NoRecord, Records
<1>5. CASE tool[r] = "vm_autodiscover" /\ i \in {2, 5}
  <2>1. /\ Plan(r).steps[2] = If("agent", Shell(Step("hostname")))
        /\ Plan(r).steps[4] = If("agent", Shell(Step("containers")))
        /\ Plan(r).steps[5] = If("agent", Step("services"))
        /\ {2, 4, 5} \subseteq DOMAIN Plan(r).steps
    BY <1>5, NamedPlans DEF Plan, DiscoveryTools
  <2>2. Plan(r).steps[2].shell /\ Plan(r).steps[4].shell /\ Plan(r).steps[5].act = "services"
    BY <2>1, StepFields, StepsAre DEF Acts
  <2>3. Listed(a, 2) \subseteq {Envelope} /\ Listed(a, 4) \subseteq {Envelope}
    BY <1>1, <2>1, <2>2
  <2>4. ListedServices(a, 5) \subseteq G \cap Names
    BY <1>2, <2>1, <2>2, ListedIs DEF ListedServices, Names
  <2>5. \/ L = [NoRecord EXCEPT !.hostnames = Listed(a, 2)]
        \/ L = [services |-> ListedServices(a, 5), containers |-> Listed(a, 4),
                hostnames |-> Listed(a, 2)]
    BY <1>5 DEF Learned
  <2> QED
    BY <2>3, <2>4, <2>5 DEF NoRecord, Records
<1>6. CASE L = NoRecord
  BY <1>6 DEF NoRecord, Records
<1>7. \/ tool[r] = "vm_sysinfo" /\ i = Len(a)
      \/ tool[r] = "vm_service_enable_now" /\ i = 2 /\ a[1].ok
      \/ tool[r] = "vm_autodiscover" /\ i \in {2, 5}
      \/ L = NoRecord
  BY DEF Learned
<1> QED
  BY <1>3, <1>4, <1>5, <1>6, <1>7

\* The memory stays a record of what has run, or was accepted.
LEMMA AnnotateKeeps ==
  ASSUME memory \in Records, MemoryIsGrounded, NEW rec \in Records, NEW G, grounds \subseteq G,
         rec.services \subseteq G, rec.containers \subseteq {Envelope}
  PROVE  /\ Annotate(rec) \in Records
         /\ Annotate(rec).services \subseteq G
         /\ Annotate(rec).containers \subseteq G \cup {Envelope}
BY DEF Annotate, Records, MemoryIsGrounded

LEMMA PerformGrounds ==
  ASSUME TypeOK, RunsAreGrounds, MemoryIsGrounded, NEW r \in Runs, NEW i \in DOMAIN answer[r],
         NEW x, NEW done \in SUBSET {i}, CallInv(r), Performed(r, i, x, done)
  PROVE  /\ up' \in SUBSET Units /\ grounds' \in SUBSET (Units \cup FullNames) /\ memory' \in Records
         /\ seen' \in [Runs -> SUBSET Units]
         /\ RunsAreGrounds' /\ MemoryIsGrounded'
<1> DEFINE step == Plan(r).steps[i]
           a == [answer[r] EXCEPT ![i] = x]
<1>1. Call(r) /\ up \subseteq Units /\ grounds \subseteq Units \cup FullNames /\ seen \in [Runs -> SUBSET Units]
  BY DEF Performed, TypeOK
<1>2. step.act = "start" => target[r] \in Units \cup FullNames /\ Unit(target[r]) \in Units
  BY <1>1, UnitIs DEF CallInv, Targeted, Units, Names
<1>3. up' \in SUBSET Units /\ grounds' \in SUBSET (Units \cup FullNames) /\ up' \subseteq grounds' /\ up \subseteq up'
  BY <1>1, <1>2 DEF Performed
<1>4. \E S \in SUBSET up : seen' = [seen EXCEPT ![r] = @ \cup S]
  BY DEF Performed
<1>5. seen' \in [Runs -> SUBSET Units] /\ \A q \in Runs : seen'[q] \subseteq seen[q] \cup up
  BY <1>1, <1>4
<1>6. RunsAreGrounds'
  <2>1. grounds \subseteq grounds'
    BY DEF Performed
  <2> QED
    BY <1>3, <1>5, <2>1 DEF RunsAreGrounds
<1>7. /\ answer'[r] = a /\ Plan(r)' = Plan(r) /\ target'[r] = target[r]
      /\ grounds \subseteq grounds'
  BY PerformKeeps
<1>8. /\ DOMAIN a = DOMAIN answer[r] /\ DOMAIN answer[r] = DOMAIN Plan(r).steps
      /\ \A j \in DOMAIN a :
           /\ Plan(r)'.steps[j].act = "start" => target'[r] \in Names
           /\ Answered(a, j) => Tells(r, j)'
  BY <1>1, <1>7, CallIs, PerformTells DEF Answered
<1>9. \A j \in DOMAIN Plan(r).steps :
        Answered(a, j) =>
          /\ Plan(r).steps[j].shell => a[j].lines = {}
          /\ Plan(r).steps[j].act = "services" => a[j].lines \subseteq grounds'
          /\ Plan(r).steps[j].act = "start" /\ a[j].ok => target[r] \in grounds'
  BY <1>6, <1>7, <1>8 DEF Tells, RunsAreGrounds
<1>10. tool[r] = "vm_service_enable_now" => target[r] \in Names
  <2>1. ASSUME tool[r] = "vm_service_enable_now" PROVE target[r] \in Names
    <3>1. Plan(r).steps[1].act = "start" /\ 1 \in DOMAIN Plan(r).steps
      BY <2>1, NamedPlans, StepFields DEF Plan, Chain, Start
    <3> QED
      BY <1>1, <1>8, <3>1 DEF CallInv, Targeted
  <2> QED
    BY <2>1
<1>11. /\ Learned(r, a, i) \in Records
       /\ Learned(r, a, i).services \subseteq grounds'
       /\ Learned(r, a, i).containers \subseteq {Envelope}
  BY <1>9, <1>10, LearnedIs
<1>12. /\ memory' = Annotate(Learned(r, a, i)) /\ memory \in Records /\ grounds \subseteq grounds'
  BY DEF Performed, TypeOK
<1>13. memory' \in Records /\ MemoryIsGrounded'
  BY <1>11, <1>12, AnnotateKeeps DEF MemoryIsGrounded
<1> QED
  BY <1>3, <1>5, <1>6, <1>13

LEMMA ReplyTypes ==
  ASSUME TypeOK, NEW r \in Runs, Call(r), NEW a \in Seq(GuestResults(Lines)),
         DOMAIN a = DOMAIN Plan(r).steps
  PROVE  ReplyFrom(r, a) \in [made : BOOLEAN, ok : BOOLEAN, exit : {NoExit, 0, 1}]
<1> DEFINE verdict == Plan(r).verdict
           R == [made : BOOLEAN, ok : BOOLEAN, exit : {NoExit, 0, 1}]
<1>1. verdict \in Verdicts /\ (verdict \notin {"health", "text"} => 1 \in DOMAIN a)
  BY CallIs DEF IsPlan
<1>2. \A ok \in BOOLEAN, exit \in {NoExit, 0, 1} : Reply(ok, exit) \in R
  BY DEF Reply
<1>3. \A j \in DOMAIN a : a[j].ok \in BOOLEAN /\ a[j].exit \in {NoExit, 0, 1}
  <2>1. \A j \in DOMAIN a : a[j] \in GuestResults(Lines)
    OBVIOUS
  <2>2. \A b \in GuestResults(Lines) : b.ok \in BOOLEAN /\ b.exit \in {NoExit, 0, 1}
    BY DEF GuestResults
  <2> QED
    BY <2>1, <2>2, Zenon
<1>4. \A b : FmtOk(b) \in BOOLEAN
  BY DEF FmtOk
<1>5. /\ Healthy(r, a) \in BOOLEAN /\ TextHealthy(r, a) \in BOOLEAN
      /\ (Missing(r, a) = {}) \in BOOLEAN
  BY DEF Healthy, TextHealthy
<1>6. CASE verdict \in {"always", "health", "text", "drift"}
  <2>1. ReplyFrom(r, a) \in {Reply(TRUE, NoExit), Reply(Healthy(r, a), NoExit),
                            Reply(TextHealthy(r, a), NoExit), Reply(Missing(r, a) = {}, NoExit)}
    BY <1>6 DEF ReplyFrom
  <2> QED
    BY <1>2, <1>5, <2>1
<1>7. CASE verdict \in {"raw", "fmt", "agent"}
  <2>1. ReplyFrom(r, a) \in {Reply(a[1].ok, NoExit), Reply(FmtOk(a[1]), a[1].exit),
                            Reply(FmtOk(a[1]), NoExit)}
    BY <1>7 DEF ReplyFrom
  <2> QED
    BY <1>1, <1>2, <1>3, <1>4, <1>7, <2>1
<1>8. CASE verdict = "latest"
  <2>1. \E j \in {1, Len(a)} : ReplyFrom(r, a) = Reply(FmtOk(a[j]), a[j].exit)
    BY <1>8 DEF ReplyFrom
  <2>2. Len(a) \in DOMAIN a
    BY <1>1, <1>8
  <2> QED
    BY <1>1, <1>2, <1>3, <1>4, <1>8, <2>1, <2>2
<1> QED
  BY <1>1, <1>6, <1>7, <1>8 DEF Verdicts

LEMMA PerformTypes ==
  ASSUME GuestInv, NEW r \in Runs, NEW i \in DOMAIN answer[r], NEW x, NEW done \in SUBSET {i},
         Performed(r, i, x, done)
  PROVE  TypeOK'
<1> DEFINE a == [answer[r] EXCEPT ![i] = x]
<1>1. TypeOK /\ Call(r) /\ x \in GuestResults(Lines) /\ CallInv(r)
  BY DEF GuestInv, Performed, Says
<1>2. answer[r] \in Seq(GuestResults(Lines)) /\ i \in Nat /\ DOMAIN answer[r] = DOMAIN Plan(r).steps
  BY <1>1, CallIs DEF TypeOK
<1>3. a \in Seq(GuestResults(Lines)) /\ DOMAIN a = DOMAIN answer[r]
  BY <1>1, <1>2
<1>4. answer' \in [Runs -> Seq(GuestResults(Lines))] /\ acted' \in [Runs -> SUBSET Nat]
  BY <1>1, <1>2, <1>3 DEF TypeOK, Performed
<1>5. /\ up' \in SUBSET Units /\ grounds' \in SUBSET (Units \cup FullNames) /\ memory' \in Records
      /\ seen' \in [Runs -> SUBSET Units]
  BY <1>1, PerformGrounds DEF GuestInv
<1>6. reply' \in [Runs -> [made : BOOLEAN, ok : BOOLEAN, exit : {NoExit, 0, 1}]]
  <2>1. ReplyFrom(r, a) \in [made : BOOLEAN, ok : BOOLEAN, exit : {NoExit, 0, 1}]
    BY <1>1, <1>2, <1>3, ReplyTypes
  <2> QED
    BY <1>1, <2>1 DEF TypeOK, Performed
<1>9. answer'[r] = a /\ acted'[r] = acted[r] \cup done
  BY <1>1, PerformKeeps
<1>7. ASSUME NEW q \in Runs, tool'[q] # NoTool
      PROVE  DOMAIN answer'[q] = DOMAIN Plan(q)'.steps /\ acted'[q] \subseteq DOMAIN answer'[q]
  <2>1. tool' = tool /\ Plan(q)' = Plan(q)
    BY DEF Performed, Plan
  <2>2. DOMAIN answer[q] = DOMAIN Plan(q).steps /\ acted[q] \subseteq DOMAIN answer[q]
    BY <1>1, <1>7, <2>1 DEF TypeOK
  <2>3. CASE q = r
    BY <1>3, <1>9, <2>1, <2>2, <2>3
  <2>4. CASE q # r
    <3>1. Kept(q)
      BY <1>1, <2>4, PerformKeeps
    <3> QED
      BY <2>1, <2>2, <3>1 DEF Kept
  <2> QED
    BY <2>3, <2>4
<1>8. /\ tool' \in [Runs -> DOMAIN Catalogue \cup {NoTool}]
      /\ target' \in [Runs -> Names \cup {NoService}]
      /\ baseline' \in [Runs -> Records]
      /\ changes' \in 0..MaxChanges /\ edits' \in 0..MaxEdits
  BY <1>1 DEF TypeOK, Performed
<1> QED
  BY <1>4, <1>5, <1>6, <1>7, <1>8 DEF TypeOK

LEMMA PerformInv ==
  ASSUME GuestInv, NEW r \in Runs, NEW i \in DOMAIN answer[r], Perform(r, i)
  PROVE  GuestInv'
<1>1. TypeOK /\ \A q \in Runs : CallInv(q)
  BY DEF GuestInv
<1>2. PICK x \in GuestResults(Lines), done \in SUBSET {i} : Performed(r, i, x, done)
  BY <1>1, PerformIs
<1>3. TypeOK'
  BY <1>2, PerformTypes
<1>4. CallInv(r)'
  <2>1. Call(r) /\ tool'[r] = tool[r]
    BY <1>1, <1>2, PerformKeeps DEF Performed
  <2>2. \A j \in DOMAIN answer'[r] :
          /\ Plan(r)'.steps[j].act = "start" => target'[r] \in Names
          /\ Answered(answer'[r], j) => Tells(r, j)'
    BY <1>1, <1>2, PerformTells
  <2>3. ReplyIsOfAnswers(r)'
    BY <1>1, <1>2, PerformReplies
  <2>4. tool[r] = "vm_drift_check" =>
          /\ ~Answered(answer'[r], 1) => seen'[r] \cap Services = {}
          /\ answer'[r][1].exit = 0 => seen'[r] \cap Services = answer'[r][1].lines
    BY <1>1, <1>2, PerformDrift
  <2>5. Call(r)'
    BY <2>1 DEF Call
  <2>6. \A j : Answered(answer[r], j)' = Answered(answer'[r], j)
    BY DEF Answered
  <2> QED
    BY <2>1, <2>2, <2>3, <2>4, <2>5, <2>6
       DEF CallInv, Uncalled, Targeted, AnswersTell, DriftSees
<1>5. \A q \in Runs \ {r} : CallInv(q)'
  BY <1>1, <1>2, PerformKeeps, KeptCall
<1>6. \A q \in Runs : CallInv(q)'
  BY <1>4, <1>5
<1>7. RunsAreGrounds' /\ MemoryIsGrounded'
  BY <1>1, <1>2, PerformGrounds DEF GuestInv
<1> QED
  BY <1>3, <1>6, <1>7 DEF GuestInv

--------------------------------------------------------------------------------
(* The other actions.                                                       *)
LEMMA InvokeInv ==
  ASSUME GuestInv, NEW r \in Runs, NEW t \in Picks[r], Invoke(r, t)
  PROVE  GuestInv'
<1> DEFINE all == [i \in DOMAIN Catalogue[t].steps |-> Pending]
<1>1. TypeOK /\ \A q \in Runs : CallInv(q)
  BY DEF GuestInv
<1>2. t \in DOMAIN Catalogue /\ t # NoTool /\ IsPlan(Catalogue[t])
  BY PicksAssumption, NoToolApart, CatalogueIs
<1>3. all \in Seq(GuestResults(Lines)) /\ DOMAIN all = DOMAIN Catalogue[t].steps
  <2>1. Pending \in GuestResults(Lines)
    BY DEF Pending, GuestResults, Lines
  <2>2. Catalogue[t].steps \in Seq(Steps)
    BY <1>2 DEF IsPlan
  <2> QED
    BY <2>1, <2>2
<1>4. /\ tool[r] = NoTool /\ reply[r] = NoReply /\ seen[r] = {} /\ acted[r] = {}
      /\ reply \in [Runs -> [made : BOOLEAN, ok : BOOLEAN, exit : {NoExit, 0, 1}]]
  BY <1>1 DEF Invoke, CallInv, Uncalled, Call, TypeOK
<1>5. PICK s \in Names \cup {NoService} :
        target' = [target EXCEPT ![r] = s] /\ (NamesService(t) => s \in Names)
  BY DEF Invoke
<1>6. /\ tool' = [tool EXCEPT ![r] = t]
      /\ answer' = [answer EXCEPT ![r] = all]
      /\ baseline' = IF t = "vm_drift_check" THEN [baseline EXCEPT ![r] = memory] ELSE baseline
      /\ reply' = IF /\ t = "vm_drift_check"
                     /\ memory.services \cup memory.containers = {}
                  THEN [reply EXCEPT ![r] = Reply(TRUE, NoExit)]
                  ELSE reply
      /\ UNCHANGED <<up, memory, acted, seen, grounds, changes, edits>>
  BY DEF Invoke, history
<1>7. /\ tool'[r] = t /\ target'[r] = s /\ answer'[r] = all
      /\ \A q \in Runs \ {r} : Kept(q)
  BY <1>1, <1>5, <1>6 DEF TypeOK, Kept
<1>8. Plan(r)' = Catalogue[t]
  BY <1>7 DEF Plan
<1>9. TypeOK'
  <2>1. /\ tool' \in [Runs -> DOMAIN Catalogue \cup {NoTool}]
        /\ answer' \in [Runs -> Seq(GuestResults(Lines))]
        /\ target' \in [Runs -> Names \cup {NoService}]
        /\ baseline' \in [Runs -> Records]
    BY <1>1, <1>2, <1>3, <1>5, <1>6 DEF TypeOK
  <2>2. Reply(TRUE, NoExit) \in [made : BOOLEAN, ok : BOOLEAN, exit : {NoExit, 0, 1}]
    BY DEF Reply
  <2>3. reply' \in [Runs -> [made : BOOLEAN, ok : BOOLEAN, exit : {NoExit, 0, 1}]]
    BY <1>4, <1>6, <2>2
  <2>4. ASSUME NEW q \in Runs, tool'[q] # NoTool
        PROVE  DOMAIN answer'[q] = DOMAIN Plan(q)'.steps /\ acted'[q] \subseteq DOMAIN answer'[q]
    <3>1. CASE q = r
      BY <1>3, <1>4, <1>6, <1>7, <1>8, <3>1
    <3>2. CASE q # r
      <4>1. Kept(q) /\ Plan(q)' = Plan(q)
        BY <1>7, <3>2 DEF Kept, Plan
      <4>2. DOMAIN answer[q] = DOMAIN Plan(q).steps /\ acted[q] \subseteq DOMAIN answer[q]
        BY <1>1, <2>4, <4>1 DEF TypeOK, Kept
      <4> QED
        BY <4>1, <4>2 DEF Kept
    <3> QED
      BY <3>1, <3>2
  <2> QED
    BY <1>1, <1>6, <2>1, <2>3, <2>4 DEF TypeOK
<1>12. CallInv(r)'
  <2>1. \A i \in DOMAIN answer'[r] : answer'[r][i] = Pending
    BY <1>3, <1>7
  <2>2. Uncalled(r)' /\ AnswersTell(r)'
    BY <1>2, <1>7, <2>1 DEF Uncalled, AnswersTell, Answered, Call
  <2>3. Targeted(r)'
    BY <1>3, <1>5, <1>7, <1>8 DEF Targeted, NamesService
  <2>4. CASE t = "vm_drift_check"
    <3>1. answer'[r][1] = Pending
      BY <1>2, <1>3, <1>7, <2>1, <2>4, NamedPlans DEF IsPlan, Chain
    <3>2. reply'[r] \in {NoReply, Reply(TRUE, NoExit)} /\ seen'[r] = {}
      BY <1>4, <1>6
    <3>3. ReplyIsOfAnswers(r)'
      BY <1>7, <2>4, <3>1, <3>2 DEF ReplyIsOfAnswers
    <3>4. answer'[r][1].exit # 0 /\ seen'[r] \cap Services = {}
      BY <3>1, <3>2 DEF Pending, NoExit
    <3>5. DriftSees(r)'
      BY <3>4 DEF DriftSees
    <3> QED
      BY <2>2, <2>3, <3>3, <3>5 DEF CallInv
  <2>5. CASE t # "vm_drift_check"
    <3>1. reply'[r] = NoReply
      BY <1>4, <1>6, <2>5
    <3> QED
      BY <1>7, <2>2, <2>3, <2>5, <3>1 DEF CallInv, ReplyIsOfAnswers, DriftSees
  <2> QED
    BY <2>4, <2>5
<1>10. \A q \in Runs \ {r} : CallInv(q)'
  BY <1>1, <1>7, KeptCall
<1>11. RunsAreGrounds' /\ MemoryIsGrounded'
  BY <1>6 DEF GuestInv, RunsAreGrounds, MemoryIsGrounded
<1> QED
  BY <1>9, <1>10, <1>11, <1>12 DEF GuestInv

\* What is kept when no call takes a step
LEMMA CallsKept ==
  ASSUME GuestInv, UNCHANGED <<tool, target, baseline, answer, reply, acted, seen>>,
         grounds \subseteq grounds'
  PROVE  \A q \in Runs : CallInv(q)'
<1>1. \A q \in Runs : Kept(q) /\ CallInv(q)
  BY DEF Kept, GuestInv
<1> QED
  BY <1>1, KeptCall

LEMMA ElsewhereInv ==
  ASSUME GuestInv, NEW u,
         \/ u \in Units /\ GuestChanges(u)
         \/ u \in Units \cup FullNames /\ vm_memory_set(u)
         \/ vm_memory_clear
  PROVE  GuestInv'
<1>1. /\ UNCHANGED <<tool, target, baseline, answer, reply, acted, seen>>
      /\ grounds \subseteq grounds' /\ grounds' \subseteq Units \cup FullNames
      /\ up' \subseteq grounds' /\ up' \subseteq Units
  BY DEF GuestInv, TypeOK, RunsAreGrounds, GuestChanges, vm_memory_set, vm_memory_clear, calls
<1>2. changes' \in 0..MaxChanges /\ edits' \in 0..MaxEdits
  BY MaxChangesAssumption, MaxEditsAssumption
     DEF GuestInv, TypeOK, GuestChanges, vm_memory_set, vm_memory_clear
<1>3. memory' \in Records /\ MemoryIsGrounded'
  <2>1. CASE u \in Units /\ GuestChanges(u)
    BY <1>1, <2>1 DEF GuestChanges, GuestInv, TypeOK, MemoryIsGrounded
  <2>2. CASE u \in Units \cup FullNames /\ vm_memory_set(u)
    BY <2>2 DEF vm_memory_set, GuestInv, TypeOK, MemoryIsGrounded, Units, Names, Records
  <2>3. CASE vm_memory_clear
    BY <2>3 DEF vm_memory_clear, NoRecord, Records, MemoryIsGrounded
  <2> QED
    BY <2>1, <2>2, <2>3
<1>4. TypeOK'
  BY <1>1, <1>2, <1>3 DEF GuestInv, TypeOK, Plan
<1>5. RunsAreGrounds'
  BY <1>1 DEF GuestInv, RunsAreGrounds
<1> QED
  BY <1>1, <1>3, <1>4, <1>5, CallsKept DEF GuestInv

LEMMA StutterInv == GuestInv /\ UNCHANGED vars => GuestInv'
<1> SUFFICES ASSUME GuestInv, UNCHANGED vars PROVE GuestInv'
  OBVIOUS
<1>1. UNCHANGED <<tool, target, baseline, answer, reply, up, memory, acted, seen, grounds,
                  changes, edits>>
  BY DEF vars, calls, history
<1>2. TypeOK' /\ RunsAreGrounds' /\ MemoryIsGrounded'
  BY <1>1 DEF GuestInv, TypeOK, Plan, RunsAreGrounds, MemoryIsGrounded
<1> QED
  BY <1>1, <1>2, CallsKept DEF GuestInv

\* The invariant is one of the specification.
THEOREM GuestInvariant == Spec => []GuestInv
<1>1. Init => GuestInv
  BY InitInv
<1>2. GuestInv /\ [Next]_vars => GuestInv'
  <2> SUFFICES ASSUME GuestInv, [Next]_vars PROVE GuestInv'
    OBVIOUS
  <2>1. ASSUME NEW r \in Runs, NEW t \in Picks[r], Invoke(r, t) PROVE GuestInv'
    BY <2>1, InvokeInv
  <2>2. ASSUME NEW r \in Runs, NEW i \in DOMAIN answer[r], Perform(r, i) PROVE GuestInv'
    BY <2>2, PerformInv
  <2>3. ASSUME NEW u, \/ u \in Units /\ GuestChanges(u)
                      \/ u \in Units \cup FullNames /\ vm_memory_set(u)
        PROVE  GuestInv'
    BY <2>3, ElsewhereInv
  <2>4. CASE vm_memory_clear
    BY <2>4, ElsewhereInv
  <2>5. CASE UNCHANGED vars
    BY <2>5, StutterInv
  <2> QED
    BY <2>1, <2>2, <2>3, <2>4, <2>5 DEF Next
<1> QED
  BY <1>1, <1>2, PTL DEF Spec

--------------------------------------------------------------------------------
(* What it is for.                                                          *)
\* Every variable has its type.  (mcp_server.py 205-2629)
THEOREM GuestToolsTypes == Spec => []TypeOK
<1>1. GuestInv => TypeOK
  BY DEF GuestInv
<1> QED
  BY <1>1, GuestInvariant, PTL

\* The memory only names what ran, what qm accepted to enable, or what it was told of.
\* (mcp_server.py 2308-2316, 2476-2514)
THEOREM MemoryIsGroundedHolds == Spec => []MemoryIsGrounded
<1>1. GuestInv => MemoryIsGrounded
  BY DEF GuestInv
<1> QED
  BY <1>1, GuestInvariant, PTL

\* A call with a reply that is ok has been made, and so has its reply.
LEMMA OkIsMade ==
  ASSUME GuestInv, NEW r \in Runs, reply[r].made \/ reply[r].ok
  PROVE  /\ Call(r) /\ CallInv(r) /\ TypeOK
         /\ \/ reply[r] = ReplyFrom(r, answer[r])
            \/ /\ tool[r] = "vm_drift_check" /\ answer[r][1] = Pending
               /\ reply[r] = Reply(TRUE, NoExit)
<1>1. CallInv(r) /\ TypeOK /\ reply[r] # NoReply
  BY DEF GuestInv, NoReply
<1> QED
  BY <1>1 DEF CallInv, Uncalled, ReplyIsOfAnswers

\* What the words of a text with names of containers say that a call has seen
LEMMA OccursSees ==
  ASSUME NEW r \in Runs, NEW text, Occurs(text), NEW c \in AskedContainers,
         text \subseteq (seen[r] \cap Containers) \cup {Detail, Envelope},
         Detail \in text => seen[r] \cap Containers # {}
  PROVE  \/ \E d \in seen[r] : <<c, d>> \in Within
         \/ <<c, Detail>> \in Within /\ seen[r] \cap Containers # {}
         \/ <<c, Envelope>> \in Within
<1>1. PICK word \in text : <<c, word>> \in Within
  BY DEF Occurs
<1> QED
  BY <1>1

\* What a health check has seen, if its answers satisfy it
LEMMA HealthSeen ==
  ASSUME GuestInv, NEW r \in Runs, Call(r), Plan(r).steps = HealthCheck,
         Healthy(r, answer[r]) \/ TextHealthy(r, answer[r])
  PROVE  /\ \A i \in DOMAIN AskedServices : Unit(AskedServices[i]) \in seen[r]
         /\ \A c \in AskedContainers :
              \/ \E d \in seen[r] : <<c, d>> \in Within
              \/ <<c, Detail>> \in Within /\ seen[r] \cap Containers # {}
              \/ <<c, Envelope>> \in Within
<1> DEFINE a == answer[r]
           n == Len(AskedServices) + 1
<1>1. /\ \A i \in DOMAIN a : Answered(a, i) => Tells(r, i)
      /\ DOMAIN a = DOMAIN HealthCheck
  BY CallIs DEF GuestInv, CallInv, AnswersTell
<1>2. ASSUME NEW i \in DOMAIN AskedServices PROVE Unit(AskedServices[i]) \in seen[r]
  <2>1. i \in DOMAIN a /\ Plan(r).steps[i] = IsActive(AskedServices[i])
    BY <1>1, HealthCheckIs
  <2>2. GuestStdout(a[i]) = {"active"}
    <3>1. CASE Healthy(r, a)
      BY <1>2, <3>1 DEF Healthy
    <3>2. CASE TextHealthy(r, a)
      BY <1>2, <3>2 DEF TextHealthy
    <3> QED
      BY <3>1, <3>2
  <2>3. a[i].data /\ "active" \in a[i].lines
    BY <2>2 DEF GuestStdout, Envelope
  <2>4. Answered(a, i)
    BY <2>3 DEF Answered, Pending
  <2>5. On(r, Plan(r).steps[i]) \in seen[r]
    BY <1>1, <2>1, <2>3, <2>4, StepFields DEF Tells
  <2>6. AskedServices[i] # "target"
    BY AskedAssumption, NamesAssumption
  <2> QED
    BY <2>1, <2>5, <2>6, StepFields DEF On
<1>3. ASSUME NEW c \in AskedContainers
      PROVE  \E text : /\ Occurs(text)
                       /\ text \subseteq (seen[r] \cap Containers) \cup {Detail, Envelope}
                       /\ Detail \in text => seen[r] \cap Containers # {}
  <2>1. n \in DOMAIN a /\ Plan(r).steps[n] = Step("containers")
    BY <1>1, <1>3, HealthCheckIs
  <2>2. Detail # Envelope
    BY DEF Detail, Envelope
  <2>3. Answered(a, n) =>
          /\ a[n].lines \subseteq (seen[r] \cap Containers) \cup {Detail}
          /\ a[n].lines # {} => seen[r] \cap Containers # {}
    BY <1>1, <2>1, StepFields DEF Tells
  <2>4. CASE Healthy(r, a)
    <3>1. Occurs(Listed(a, n))
      BY <2>4 DEF Healthy
    <3>2. /\ Listed(a, n) \subseteq a[n].lines \cup {Envelope}
          /\ ~Answered(a, n) => Listed(a, n) = {}
      BY ListedIs
    <3> HIDE DEF n, a
    <3> QED
      BY <2>2, <2>3, <3>1, <3>2
  <2>5. CASE TextHealthy(r, a)
    <3>1. n = 1
      BY <2>5 DEF TextHealthy
    <3>2. Answered(a, n) /\ Occurs(a[n].lines \cup {Envelope})
      BY <1>3, <2>5, <3>1 DEF TextHealthy
    <3> HIDE DEF n, a
    <3> QED
      BY <2>2, <2>3, <3>2
  <2> QED
    BY <2>4, <2>5
<1> QED
  BY <1>2, <1>3, OccursSees

\* A health check that ends well has seen what it was asked about.
\* (mcp_server.py 218-254, slo.py 51-73)
THEOREM HealthMeansSeenHolds == Spec => []HealthMeansSeen
<1>1. GuestInv => HealthMeansSeen
  <2> SUFFICES ASSUME GuestInv, NEW r \in Runs, reply[r].ok,
                      tool[r] \in {"vm_slo_check", "check_guest_health", "vmctl_slo"}
               PROVE  /\ \A i \in DOMAIN AskedServices : Unit(AskedServices[i]) \in seen[r]
                      /\ \A c \in AskedContainers :
                           \/ \E d \in seen[r] : <<c, d>> \in Within
                           \/ <<c, Detail>> \in Within /\ seen[r] \cap Containers # {}
                           \/ <<c, Envelope>> \in Within
    BY DEF HealthMeansSeen
  <2>1. Call(r) /\ reply[r] = ReplyFrom(r, answer[r])
    BY OkIsMade
  <2>2. Plan(r).steps = HealthCheck /\ Plan(r).verdict \in {"health", "text"}
    BY NamedPlans DEF Plan, Chain
  <2>3. Healthy(r, answer[r]) \/ TextHealthy(r, answer[r])
    <3>1. CASE Plan(r).verdict = "health"
      <4>1. reply[r] = Reply(Healthy(r, answer[r]), NoExit)
        BY <2>1, <3>1 DEF ReplyFrom
      <4> QED
        BY <4>1 DEF Reply
    <3>2. CASE Plan(r).verdict = "text"
      <4>1. reply[r] = Reply(TextHealthy(r, answer[r]), NoExit)
        BY <2>1, <3>2 DEF ReplyFrom
      <4> QED
        BY <4>1 DEF Reply
    <3> QED
      BY <2>2, <3>1, <3>2
  <2> QED
    BY <2>1, <2>2, <2>3, HealthSeen
<1> QED
  BY <1>1, GuestInvariant, PTL

\* What a drift check's answers say of what it had looked at
LEMMA DriftKnows ==
  ASSUME GuestInv, NEW r \in Runs, tool[r] = "vm_drift_check", answer[r][1] # Pending
  PROVE  LET listed == ListedServices(answer[r], 1) IN
         /\ listed \subseteq seen[r]
         /\ answer[r][1].exit = 0 => seen[r] \cap Services = listed
         /\ Listed(answer[r], 2) \subseteq {Envelope}
<1> DEFINE a == answer[r]
<1>1. Call(r) /\ CallInv(r) /\ TypeOK
  BY NoToolApart, NamedPlans DEF GuestInv, Call, NoTool
<1>2. /\ Plan(r).steps[1] = Step("services")
      /\ Plan(r).steps[2] = If("containers", Shell(Step("containers")))
      /\ 1 \in DOMAIN Plan(r).steps /\ 2 \in DOMAIN Plan(r).steps
  BY NamedPlans DEF Plan, Chain
<1>3. 1 \in DOMAIN a /\ 2 \in DOMAIN a /\ \A i \in DOMAIN a : Answered(a, i) => Tells(r, i)
  BY <1>1, <1>2, CallIs DEF CallInv, AnswersTell
<1>4. /\ a[1].lines \subseteq seen[r] \cap Services /\ (a[1].lines # {} => a[1].data)
      /\ Answered(a, 1)
  BY <1>2, <1>3, StepFields DEF Tells, Answered
<1>5. ListedServices(a, 1) = a[1].lines
  BY <1>4, NamesAssumption DEF ListedServices, Listed, GuestStdout, Names
<1>6. Listed(a, 2) \subseteq {Envelope}
  <2>1. Plan(r).steps[2].shell
    BY <1>2, StepFields, StepsAre DEF Acts
  <2> QED
    BY <1>3, <2>1, ListedIs DEF Tells
<1>7. a[1].exit = 0 => seen[r] \cap Services = a[1].lines
  BY <1>1 DEF CallInv, DriftSees
<1> QED
  BY <1>4, <1>5, <1>6, <1>7

\* A drift check tells the truth about services.  (mcp_server.py 2552-2603)
THEOREM DriftTellsTruthHolds == Spec => []DriftTellsTruth
<1>1. GuestInv => DriftTellsTruth
  <2> SUFFICES ASSUME GuestInv, NEW r \in Runs, tool[r] = "vm_drift_check", reply[r].made,
                      answer[r][1] # Pending
               PROVE  LET expected == baseline[r].services
                          unseen == {Unit(n) : n \in expected} \ seen[r]
                      IN IF reply[r].ok
                         THEN unseen = {} /\ baseline[r].containers \subseteq {Envelope}
                         ELSE \/ unseen # {} \/ answer[r][1].exit # 0
                              \/ baseline[r].containers # {} \/ expected \cap FullNames # {}
    BY DEF DriftTellsTruth
  <2> DEFINE expected == baseline[r].services
             listed == ListedServices(answer[r], 1)
  <2>1. reply[r] = ReplyFrom(r, answer[r]) /\ expected \subseteq Names
    BY OkIsMade DEF TypeOK, Records
  <2>2. Plan(r).verdict = "drift"
    BY NamedPlans DEF Plan, Chain
  <2>3. reply[r] = Reply(Missing(r, answer[r]) = {}, NoExit)
    BY <2>1, <2>2 DEF ReplyFrom
  <2>4. reply[r].ok <=> Missing(r, answer[r]) = {}
    <3> DEFINE none == Missing(r, answer[r]) = {}
    <3> HIDE DEF none
    <3>1. reply[r].ok = none
      BY <2>3 DEF Reply, none
    <3> QED
      BY <3>1, Zenon DEF none
  <2>5. Missing(r, answer[r]) = (expected \ listed) \cup (baseline[r].containers \ Listed(answer[r], 2))
    BY DEF Missing
  <2>6. /\ listed \subseteq seen[r]
        /\ answer[r][1].exit = 0 => seen[r] \cap Services = listed
        /\ Listed(answer[r], 2) \subseteq {Envelope}
    BY DriftKnows
  <2>7. listed \subseteq Services /\ \A n \in Services : Unit(n) = n
    BY NamesAssumption DEF ListedServices, Unit
  <2> HIDE DEF expected, listed
  <2>8. ASSUME reply[r].ok
        PROVE  {Unit(n) : n \in expected} \ seen[r] = {} /\ baseline[r].containers \subseteq {Envelope}
    BY <2>4, <2>5, <2>6, <2>7, <2>8
  <2>9. ASSUME ~reply[r].ok, answer[r][1].exit = 0, baseline[r].containers = {},
               expected \cap FullNames = {}
        PROVE  {Unit(n) : n \in expected} \ seen[r] # {}
    <3>1. PICK n \in expected : n \notin listed
      BY <2>4, <2>5, <2>9
    <3>2. n \in Services
      BY <2>1, <2>9 DEF Names, expected
    <3> QED
      BY <2>6, <2>7, <2>9, <3>1, <3>2
  <2> QED
    BY <2>8, <2>9 DEF expected
<1> QED
  BY <1>1, GuestInvariant, PTL

\* Only vm_memory_clear forgets.  (mcp_server.py 2508-2514)
THEOREM OnlyClearForgetsHolds == Spec => OnlyClearForgets
<1> DEFINE Remembers ==
             memory' # NoRecord =>
               /\ memory.services \subseteq memory'.services
               /\ memory.containers \subseteq memory'.containers
<1>1. TypeOK /\ [Next]_vars => [Remembers]_vars
  <2> SUFFICES ASSUME TypeOK, Next PROVE Remembers
    OBVIOUS
  <2>1. ASSUME NEW r \in Runs, NEW i \in DOMAIN answer[r], Perform(r, i) PROVE Remembers
    <3>1. \E rec : memory' = Annotate(rec)
      BY <2>1 DEF Perform
    <3> QED
      BY <3>1 DEF Annotate
  <2>2. ASSUME NEW r \in Runs, NEW t \in Picks[r], Invoke(r, t) PROVE Remembers
    BY <2>2 DEF Invoke
  <2>3. ASSUME NEW u, GuestChanges(u) \/ vm_memory_set(u) PROVE Remembers
    BY <2>3 DEF GuestChanges, vm_memory_set, TypeOK, Records
  <2>4. CASE vm_memory_clear
    BY <2>4 DEF vm_memory_clear
  <2> QED
    BY <2>1, <2>2, <2>3, <2>4 DEF Next
<1> QED
  BY <1>1, GuestToolsTypes, PTL DEF Spec, OnlyClearForgets
================================================================================
