------------------------------ MODULE GuestTools ------------------------------
(***************************************************************************)
(* The tools that look into a guest or change something in it               *)
(* (mcp_server.py, power_tools.py, analysis_tools.py, orchestration.py,     *)
(* cli.py). Each is a plan: some guest commands, awaited one after the      *)
(* other or together, and a rule that makes a reply of their answers. Calls *)
(* of tools interleave at every await, with each other and with what        *)
(* happens in the guest, and four of them read or write the VM's memory.    *)
(*                                                                         *)
(* A command is split into words and run without a shell, in the guest      *)
(* (ProxmoxGuestExec.exec) as on the host.  A step whose text is written for *)
(* a shell, with pipes, redirections, "&&" or assignments, hands these to   *)
(* its first word as arguments: whatever that program makes of them, the    *)
(* step does not do, or print, what its text is meant to.                   *)
(***************************************************************************)
EXTENDS GuestExec, Sequences

CONSTANTS
  Runs,          \* calls of tools
  Picks,         \* Picks[r]: the tools call r may be of
  Alone,         \* bound: tools that are not called next to others; they share no state with them
  Services,      \* the guest's services, by what systemctl calls them without ".service"
  FullNames,     \* names of services with ".service"
  Stripped,      \* Stripped[n]: full name n without it
  Containers,    \* containers of the guest
  AskedServices, \* the names of services vm_slo_check is asked about, in order
  AskedContainers, \* the names of containers it is asked about
  Within,        \* pairs of such a name and a word of docker's or qm's text it occurs in
  MaxChanges,    \* bound: changes in the guest from elsewhere
  MaxEdits       \* bound: calls of vm_memory_set and vm_memory_clear

ASSUME MaxChangesAssumption == MaxChanges \in Nat
ASSUME MaxEditsAssumption == MaxEdits \in Nat

\* The word that stands for what docker ps prints of a container besides its name: its
\* number and its status.
Detail == "detail"

\* A service may be named in both ways, and only the program in the guest knows that they
\* are the same.
Names == Services \cup FullNames
Unit(n) == IF n \in FullNames THEN Stripped[n] ELSE n

ASSUME AskedAssumption == AskedServices \in Seq(Names)
ASSUME WithinAssumption == \A c \in AskedContainers \cap Containers : <<c, c>> \in Within
ASSUME StrippedAssumption == Stripped \in [FullNames -> Services]
\* The words that stand for something else here are not names.
ASSUME NamesAssumption ==
  /\ Services \cap FullNames = {} /\ Names \cap Containers = {}
  /\ {Envelope, Detail, "target"} \cap (Names \cup Containers) = {}

VARIABLES
  tool,     \* tool[r]: the tool call r is of, once made
  target,   \* target[r]: the name of the service it is about, where it is about one
  baseline, \* baseline[r]: the VM's memory when it was made, where the tool reads it
  answer,   \* answer[r][i]: the answer to step i of its plan
  reply,    \* reply[r]: what it returned
  up,       \* the services and containers that run
  memory,   \* the VM's record in the memory file
  \* History.
  acted,    \* acted[r]: the steps that changed in the guest what their text is meant to
  seen,     \* seen[r]: the services and containers that ran when call r had them looked at
  grounds,  \* services and containers that ever ran, and names that qm accepted to enable
            \* or that vm_memory_set was told of
  changes, edits

history == <<acted, seen, grounds, changes, edits>>
calls == <<tool, target, baseline, answer, reply>>
vars == <<calls, up, memory, history>>

--------------------------------------------------------------------------------
(* Plans.  A step's "act" is what its text is meant to do:                  *)
(*   look        read something that only the reply's text is made of       *)
(*   ask         the same, and the reply's verdict depends on the answer    *)
(*   change      change something: a file, a package, a container           *)
(*   start       start a service                                            *)
(*   is-active, services, containers, hostname                              *)
(*               print what it says                                         *)
(*   host        a command that is not for the guest                        *)
(* "shell": the text is written for a shell.  "when": the step is left out   *)
(* unless this holds.                                                       *)
Step(act) == [act |-> act, on |-> "target", shell |-> FALSE, when |-> "always"]
Look == Step("look")
Ask == Step("ask")
Change == Step("change")
Start == Step("start")
IsActive(s) == [Step("is-active") EXCEPT !.on = s]
Shell(step) == [step EXCEPT !.shell = TRUE]
If(condition, step) == [step EXCEPT !.when = condition]

\* Steps one after the other, or all at once; "verdict" is how the reply is found.
Chain(steps, verdict) ==
  [steps |-> steps, after |-> [i \in DOMAIN steps |-> 1..(i - 1)], verdict |-> verdict]
Together(steps, verdict) ==
  [steps |-> steps, after |-> [i \in DOMAIN steps |-> {}], verdict |-> verdict]
Query == Chain(<<Ask>>, "fmt")

\* vm_exec, vm_guest_exec
ExecTools == [
  vm_exec |-> Chain(<<Step("host")>>, "fmt"),
  vm_guest_exec |-> Chain(<<Change>>, "fmt")]

\* vm_service, vm_docker: the result of qm is the reply.
UnitTools == [
  vm_service_status |-> Chain(<<IsActive("target")>>, "raw"),
  vm_service_journal_tail |-> Chain(<<Ask>>, "raw"),
  vm_service_enable_or_disable |-> Chain(<<Change>>, "raw"),
  vm_docker_ps |-> Chain(<<Step("containers")>>, "raw"),
  vm_docker_logs |-> Chain(<<Ask>>, "raw"),
  vm_docker_restart_or_compose_up |-> Chain(<<Change>>, "raw")]

\* _guest_health_check: every service by itself, then all containers at once.
HealthCheck ==
  [i \in DOMAIN AskedServices |-> IsActive(AskedServices[i])]
    \o IF AskedContainers = {} THEN <<>> ELSE <<Step("containers")>>

\* vm_slo_check, its part about the guest
SloTools == [vm_slo_check |-> Chain(HealthCheck, "health")]

\* vm_ripgrep, vm_find
SearchTools == [
  vm_ripgrep |-> Chain(<<Ask, If("missing", Ask)>>, "latest"),
  vm_find |-> Query]

\* vm_ps, vm_top, vm_disk
ProcessTools == [
  vm_ps |-> Query,
  vm_top |-> Chain(<<Shell(Ask), Look, Look>>, "raw"),
  vm_disk |-> Chain(<<Ask, Shell(Look)>>, "raw")]

\* vm_network, vm_tail, vm_write, vm_env
InspectionTools == [
  vm_network |-> Together(<<Look, Look, Look>>, "always"),
  vm_tail |-> Query,
  vm_write |-> Chain(<<Shell(Change)>>, "fmt"),
  vm_env |-> Query]

\* vm_network_audit, vm_list, vm_port_check
AuditTools == [
  vm_network_audit |-> Together(<<Look, Look, Shell(Look), Look>>, "always"),
  vm_list |-> Chain(<<Step("host")>>, "fmt"),
  vm_port_check |-> Chain(<<Ask>>, "raw")]

\* vm_service_restart, vm_install_package, vm_sysinfo (os, kernel, uptime, cpu, hostname,
\* ip, mem, df)
SystemTools == [
  vm_service_restart |-> Chain(<<Start, Look>>, "raw"),
  vm_install_package_apt |-> Chain(<<Shell(Change)>>, "fmt"),
  vm_install_package |-> Chain(<<Change>>, "fmt"),
  vm_sysinfo |-> Chain(<<Shell(Look), Look, Shell(Look), Look, Shell(Step("hostname")),
                         Look, Shell(Look), Shell(Look)>>, "always")]

\* vm_dmesg, vm_journal, vm_lsof
LogTools == [
  vm_dmesg |-> Chain(<<Shell(Ask)>>, "fmt"),
  vm_journal |-> Query,
  vm_lsof |-> Query]

\* vm_traceroute, vm_dns_check: another program if the first one is missing.
RouteTools == [
  vm_traceroute |-> Chain(<<Ask, If("missing", Ask)>>, "latest"),
  vm_dns_check |-> Chain(<<Ask, If("missing", Ask)>>, "latest")]

\* vm_curl, vm_iptables
HttpAndFirewallTools == [
  vm_curl |-> Query,
  vm_iptables |-> Chain(<<Ask, If("nothing", Look)>>, "fmt")]

\* vm_tar_extract
FileTools == [vm_tar_extract |-> Chain(<<Shell(Change)>>, "fmt")]

\* vm_docker_exec, vm_docker_pull, vm_docker_inspect
DockerTools == [
  vm_docker_exec |-> Chain(<<Change>>, "fmt"),
  vm_docker_pull |-> Chain(<<Change>>, "fmt"),
  vm_docker_inspect |-> Query]

\* vm_service_enable_now, vm_agent_probe, vm_cgroup_mem
ControlTools == [
  vm_service_enable_now |-> Chain(<<Start, Look>>, "fmt"),
  vm_agent_probe |-> Chain(<<Step("host")>>, "fmt"),
  vm_cgroup_mem |-> Chain(<<Shell(Ask)>>, "fmt")]

\* vm_autodiscover: the agent; then vm_sysinfo, which is one step here, together with
\* vm_network, vm_disk and vm_ps, which are another one; then containers; then services.
DiscoveryTools == [
  vm_autodiscover |->
    [steps |-> <<Step("host"), If("agent", Shell(Step("hostname"))), If("agent", Look),
                 If("agent", Shell(Step("containers"))), If("agent", Step("services"))>>,
     after |-> <<{}, {1}, {1}, {2, 3}, {4}>>,
     verdict |-> "agent"]]

\* vm_drift_check
DriftTools == [
  vm_drift_check |->
    Chain(<<Step("services"), If("containers", Shell(Step("containers")))>>, "drift")]

\* vm_deploy_compose, vm_pcap_analyze
PowerTools == [
  vm_deploy_compose |-> Chain(<<Shell(Change)>>, "fmt"),
  vm_pcap_analyze |-> Chain(<<Shell(Ask)>>, "raw")]

\* vm_disk_reclaim, and gitlab_cleanup with a VM of its own
ReclaimTools == [vm_disk_reclaim |-> Chain(<<Change>>, "fmt")]

\* vm_etc_diff
EtcTools == [vm_etc_diff |-> Chain(<<Shell(Ask)>>, "raw")]

\* vm_run_kp14_pipeline
PipelineTools == [vm_run_kp14_pipeline |-> Chain(<<Change>>, "fmt")]

\* VMServiceManager, VMContainerManager
ManagerTools == [
  manager_status |-> Chain(<<IsActive("target")>>, "raw"),
  manager_journal_tail_or_logs |-> Chain(<<Ask>>, "raw"),
  manager_enable_disable_restart_or_compose_up |-> Chain(<<Change>>, "raw"),
  manager_ps |-> Chain(<<Step("containers")>>, "raw")]

\* check_guest_health, and vmctl slo: the same commands as vm_slo_check
TextHealthTools == [
  check_guest_health |-> Chain(HealthCheck, "text"),
  vmctl_slo |-> Chain(HealthCheck, "text")]

\* vmctl guest-exec
VmctlExecTools == [vmctl_guest_exec |-> Chain(<<Change>>, "raw")]

\* vmctl service and docker
VmctlUnitTools == [
  vmctl_service_status |-> Chain(<<IsActive("target")>>, "raw"),
  vmctl_service_journal |-> Chain(<<Ask>>, "raw"),
  vmctl_service_enable_or_disable |-> Chain(<<Change>>, "raw"),
  vmctl_service_restart |-> Chain(<<Start>>, "raw"),
  vmctl_docker_ps |-> Chain(<<Step("containers")>>, "raw"),
  vmctl_docker_logs |-> Chain(<<Ask>>, "raw"),
  vmctl_docker_restart_or_compose_up |-> Chain(<<Change>>, "raw")]

\* vmctl ps, top, disk, network and tail: unlike the server's, top asks for nothing more.
VmctlProcessTools == [
  vmctl_ps_disk_or_tail |-> Chain(<<Ask>>, "raw"),
  vmctl_top |-> Chain(<<Shell(Ask)>>, "raw"),
  vmctl_network |-> Chain(<<Look, Look, Look>>, "always")]

\* vmctl sysinfo: it remembers nothing.
VmctlSysinfo == [
  vmctl_sysinfo |-> Chain(<<Shell(Look), Look, Shell(Look), Look, Shell(Look),
                            Look, Shell(Look), Shell(Look)>>, "always")]

\* vmctl env, ripgrep, find and port: unlike the server's, ripgrep has no second program.
VmctlSearchTools == [vmctl_env_ripgrep_find_or_port |-> Chain(<<Ask>>, "raw")]

\* vmctl install
VmctlInstall == [
  vmctl_install_apt |-> Chain(<<Shell(Change)>>, "raw"),
  vmctl_install |-> Chain(<<Change>>, "raw")]

Families ==
  {ExecTools, UnitTools, SloTools, SearchTools, ProcessTools, InspectionTools, AuditTools,
   SystemTools, LogTools, RouteTools, HttpAndFirewallTools, FileTools, DockerTools,
   ControlTools, DiscoveryTools, DriftTools, PowerTools, ReclaimTools, EtcTools,
   PipelineTools, ManagerTools, TextHealthTools, VmctlExecTools, VmctlUnitTools,
   VmctlProcessTools, VmctlSysinfo, VmctlSearchTools, VmctlInstall}

Catalogue ==
  [t \in UNION {DOMAIN f : f \in Families} |-> (CHOOSE f \in Families : t \in DOMAIN f)[t]]

ASSUME PicksAssumption == \A r \in Runs : Picks[r] \subseteq DOMAIN Catalogue

Plan(r) == Catalogue[tool[r]]

--------------------------------------------------------------------------------
Units == Services \cup Containers
NoTool == "none"
NoService == "none"
Pending == [ok |-> FALSE, exit |-> NoExit, data |-> FALSE, lines |-> {"pending"}, missing |-> FALSE]
\* A step that is left out when the others are over has this for an answer too.
Answered(a, i) == a[i] # Pending

GuestName == "name"
Lines == Units \cup {Detail, "active", "inactive", GuestName, Envelope, "pending"}
Looked == Failed(FALSE)

\* A record of the memory: of what these tools put there.
Records == [services : SUBSET Names, containers : SUBSET (Containers \cup {Envelope}),
            hostnames : SUBSET {GuestName, Envelope}]
NoRecord == [services |-> {}, containers |-> {}, hostnames |-> {}]

\* vm_service_restart and others: a reply, with the guest's exit code if _fmt found one.
NoReply == [made |-> FALSE, ok |-> FALSE, exit |-> NoExit]
Reply(ok, exit) == [made |-> TRUE, ok |-> ok, exit |-> exit]

TypeOK ==
  /\ tool \in [Runs -> DOMAIN Catalogue \cup {NoTool}]
  /\ answer \in [Runs -> Seq(GuestResults(Lines))]
  /\ acted \in [Runs -> SUBSET Nat]
  /\ \A r \in Runs :
       tool[r] # NoTool =>
         DOMAIN answer[r] = DOMAIN Plan(r).steps /\ acted[r] \subseteq DOMAIN answer[r]
  /\ target \in [Runs -> Names \cup {NoService}]
  /\ baseline \in [Runs -> Records]
  /\ reply \in [Runs -> [made : BOOLEAN, ok : BOOLEAN, exit : {NoExit, 0, 1}]]
  /\ up \in SUBSET Units
  /\ memory \in Records
  /\ seen \in [Runs -> SUBSET Units]
  /\ grounds \in SUBSET (Units \cup FullNames)
  /\ changes \in 0..MaxChanges
  /\ edits \in 0..MaxEdits

Init ==
  /\ tool = [r \in Runs |-> NoTool]
  /\ target = [r \in Runs |-> NoService]
  /\ baseline = [r \in Runs |-> NoRecord]
  /\ answer = [r \in Runs |-> <<>>]
  /\ reply = [r \in Runs |-> NoReply]
  /\ up \in SUBSET Units
  /\ memory = NoRecord
  /\ acted = [r \in Runs |-> {}]
  /\ seen = [r \in Runs |-> {}]
  /\ grounds = up
  /\ changes = 0
  /\ edits = 0

NamesService(t) ==
  \E i \in DOMAIN Catalogue[t].steps :
    Catalogue[t].steps[i].act = "start" \/ Catalogue[t].steps[i] = IsActive("target")

\* The service a step is about.
On(r, step) == Unit(IF step.on = "target" THEN target[r] ELSE step.on)

\* What a step's program prints when it does what the step's text is meant to do.  Only
\* vm_drift_check's and vm_autodiscover's docker ps prints names alone, and is written for
\* a shell.
Prints(r, step) ==
  CASE step.act = "services" -> up \cap Services
    [] step.act = "containers" ->
         IF up \cap Containers = {} THEN {} ELSE (up \cap Containers) \cup {Detail}
    [] step.act = "is-active" -> {IF On(r, step) \in up THEN "active" ELSE "inactive"}
    [] step.act = "hostname" -> {GuestName}
    [] OTHER -> {}

\* systemctl is-active ends with an error, and says so, if the service is not.
MaySucceed(r, step) == step.act = "is-active" => On(r, step) \in up

\* No tool that has these read looks at the guest's exit code, and an answer without output
\* tells it no more than that of a command that failed or is still running.
OnlyTextCounts(step) == step.act \in {"containers", "hostname"}

\* What may come of a step: qm fails or is refused; it succeeds and says with what the
\* command ended, or not; the runner gives qm up, or qm the command.
AnswersTo(r, step) ==
  LET printed == IF step.shell THEN {} ELSE Prints(r, step)
      tells(lines) == OnlyTextCounts(step) => lines # {}
  IN CASE step.act = "look" -> {Looked}
       [] step.act = "host" -> {Failed(FALSE), HostOutput}
       [] OTHER ->
            {Failed(FALSE), StillRunning}
              \cup (IF step.act = "ask" THEN {Failed(TRUE)} ELSE {})
              \cup (IF tells({}) THEN Ended(1, printed \cap {"inactive"}) ELSE {})
              \cup (IF MaySucceed(r, step) /\ tells(printed) THEN Ended(0, printed) ELSE {})

\* Whether, given its answer, the step changed in the guest what its text is meant to: who
\* gives up waiting for it does not know.
MayHaveActed(step, a) ==
  IF step.shell \/ step.act \notin {"change", "start"} THEN {FALSE}
  ELSE IF a.exit = 0 THEN {TRUE}
  ELSE IF a.exit = NoExit THEN BOOLEAN
  ELSE {FALSE}

\* What the answers so far, and the memory when the call was made, say of a step that is
\* only wanted sometimes.
Wanted(r, a, i) ==
  LET when == Plan(r).steps[i].when IN
  CASE when = "missing" -> ~a[1].ok /\ a[1].missing
    [] when = "nothing" -> GuestStdout(a[1]) = {} \/ a[1].missing
    [] when = "agent" -> FmtOk(a[1])
    [] when = "containers" -> baseline[r].containers # {}
    [] OTHER -> TRUE

\* The steps a call may take next, given the answers it has.
Due(r, a) ==
  {i \in DOMAIN a :
     /\ ~Answered(a, i)
     /\ \A j \in Plan(r).after[i] : Answered(a, j) \/ ~Wanted(r, a, j)
     /\ Wanted(r, a, i)}

Listed(a, i) == IF Answered(a, i) THEN GuestStdout(a[i]) ELSE {}

\* The services a listing names: its words end in ".service", which is cut off.
ListedServices(a, i) == Listed(a, i) \cap Services

\* Mutation: a listing that could not be had is taken for one without surprises.
MissingTrustsFailure(r, a) ==
  IF a[1].exit # 0
  THEN {}
  ELSE (baseline[r].services \ ListedServices(a, 1)) \cup (baseline[r].containers \ Listed(a, 2))

\* vm_drift_check: the names that are expected and not listed.  An expected name is as it
\* was given, with ".service" or without.
Missing(r, a) ==
  (baseline[r].services \ ListedServices(a, 1)) \cup (baseline[r].containers \ Listed(a, 2))

\* A container counts as running if its name occurs anywhere in a text.
Occurs(text) == \A c \in AskedContainers : \E word \in text : <<c, word>> \in Within

\* Mutation: a service counts as active if its name was understood.
HealthyIfKnown(r, a) ==
  /\ \A i \in DOMAIN AskedServices : a[i].ok
  /\ Occurs(Listed(a, Len(AskedServices) + 1))

\* _guest_health_check: a service is active if that is all the command printed; the text
\* searched for containers is what docker ps printed or, if it printed nothing, qm's.
Healthy(r, a) ==
  /\ \A i \in DOMAIN AskedServices : a[i].ok /\ GuestStdout(a[i]) = {"active"}
  /\ Occurs(Listed(a, Len(AskedServices) + 1))

\* check_guest_health, and vmctl's: a service is active if that is all qm printed, which
\* it never is: qm's text holds more than the command's output.  The text searched for
\* containers is qm's, around what docker ps printed.
TextHealthy(r, a) ==
  /\ AskedServices = <<>>
  /\ AskedContainers # {} =>
       /\ Answered(a, 1) /\ a[1].ok
       /\ Occurs(a[1].lines \cup {Envelope})

\* The reply, from the answers.  "raw": whether qm succeeded; "fmt": _fmt of the first answer;
\* "latest": _fmt of the last one.
ReplyFrom(r, a) ==
  LET last == IF Answered(a, Len(a)) THEN a[Len(a)] ELSE a[1]
      verdict == Plan(r).verdict
  IN CASE verdict = "raw" -> Reply(a[1].ok, NoExit)
       [] verdict = "fmt" -> Reply(FmtOk(a[1]), a[1].exit)
       [] verdict = "latest" -> Reply(FmtOk(last), last.exit)
       [] verdict = "always" -> Reply(TRUE, NoExit)
       [] verdict = "agent" -> Reply(FmtOk(a[1]), NoExit)
       [] verdict = "health" -> Reply(Healthy(r, a), NoExit)
       [] verdict = "text" -> Reply(TextHealthy(r, a), NoExit)
       [] verdict = "drift" -> Reply(Missing(r, a) = {}, NoExit)

\* Mutation: discovery takes every line of the list for a service.
LearnedFromAnyLine(r, a, i) ==
  CASE tool[r] = "vm_autodiscover" /\ i = 5 ->
         [NoRecord EXCEPT !.containers = Listed(a, 4), !.services = Listed(a, 5)]
    [] OTHER -> NoRecord

\* Mutation: the service is remembered whatever qm said.
LearnedUnchecked(r, a, i) ==
  CASE tool[r] = "vm_service_enable_now" /\ i = 2 -> [NoRecord EXCEPT !.services = {target[r]}]
    [] OTHER -> NoRecord

\* What a call puts into the memory when step i is over: vm_sysinfo, by itself and within
\* vm_autodiscover, the host's name; vm_service_enable_now the service by the name it was
\* given, if qm succeeded; vm_autodiscover what it found.
Learned(r, a, i) ==
  CASE tool[r] = "vm_sysinfo" /\ i = Len(a) -> [NoRecord EXCEPT !.hostnames = Listed(a, 5)]
    [] tool[r] = "vm_service_enable_now" /\ i = 2 /\ a[1].ok ->
         [NoRecord EXCEPT !.services = {target[r]}]
    [] tool[r] = "vm_autodiscover" /\ i = 2 -> [NoRecord EXCEPT !.hostnames = Listed(a, 2)]
    [] tool[r] = "vm_autodiscover" /\ i = 5 ->
         [services |-> ListedServices(a, 5), containers |-> Listed(a, 4),
          hostnames |-> Listed(a, 2)]
    [] OTHER -> NoRecord

\* Mutation: a list that is given takes the place of the remembered one.
AnnotateReplaces(rec) ==
  [services |-> IF rec.services = {} THEN memory.services ELSE rec.services,
   containers |-> memory.containers \cup rec.containers,
   hostnames |-> memory.hostnames]

\* annotate_vm: read the record, merge, write it, without an await.
Annotate(rec) ==
  [services |-> memory.services \cup rec.services,
   containers |-> memory.containers \cup rec.containers,
   hostnames |-> IF rec.hostnames = {} THEN memory.hostnames ELSE rec.hostnames]

--------------------------------------------------------------------------------
\* A tool is called.  A drift check without a baseline returns at once.
Invoke(r, t) ==
  /\ tool[r] = NoTool
  /\ t \in Picks[r]
  /\ \A q \in Runs : tool[q] # NoTool => {t, tool[q]} \cap Alone = {}
  /\ target' \in {[target EXCEPT ![r] = s] : s \in IF NamesService(t) THEN Names ELSE {NoService}}
  /\ tool' = [tool EXCEPT ![r] = t]
  /\ baseline' = IF t = "vm_drift_check" THEN [baseline EXCEPT ![r] = memory] ELSE baseline
  /\ answer' = [answer EXCEPT ![r] = [i \in DOMAIN Catalogue[t].steps |-> Pending]]
  /\ reply' = IF /\ t = "vm_drift_check"
                 /\ memory.services \cup memory.containers = {}
              THEN [reply EXCEPT ![r] = Reply(TRUE, NoExit)]
              ELSE reply
  /\ UNCHANGED <<up, memory, history>>

\* Step i of a call is answered.  After the last one the reply is made, without an await.
Perform(r, i) ==
  LET step == Plan(r).steps[i] IN
  /\ tool[r] # NoTool /\ ~reply[r].made
  /\ i \in Due(r, answer[r])
  /\ \E x \in AnswersTo(r, step) : \E acts \in MayHaveActed(step, x) :
       LET a == [answer[r] EXCEPT ![i] = x] IN
       /\ answer' = [answer EXCEPT ![r] = a]
       /\ up' = IF acts /\ step.act = "start" THEN up \cup {Unit(target[r])} ELSE up
       /\ acted' = IF acts THEN [acted EXCEPT ![r] = @ \cup {i}] ELSE acted
       /\ seen' = [seen EXCEPT ![r] = @ \cup
                     CASE step.act = "services" -> up \cap Services
                       [] step.act = "containers" -> up \cap Containers
                       [] step.act = "is-active" -> up \cap {On(r, step)}
                       [] OTHER -> {}]
       /\ grounds' = grounds \cup up'
            \cup IF step.act = "start" /\ x.ok THEN {target[r]} ELSE {}
       /\ memory' = Annotate(Learned(r, a, i))
       /\ reply' = IF Due(r, a) = {}
                   THEN [reply EXCEPT ![r] = ReplyFrom(r, a)]
                   ELSE reply
  /\ UNCHANGED <<tool, target, baseline, changes, edits>>

\* Bound: nothing is explored after the last reply.
AllReplied == \A r \in Runs : reply[r].made

\* A service or a container starts or ends by itself.
GuestChanges(u) ==
  /\ changes < MaxChanges /\ ~AllReplied
  /\ changes' = changes + 1
  /\ up' = IF u \in up THEN up \ {u} ELSE up \cup {u}
  /\ grounds' = grounds \cup up'
  /\ UNCHANGED <<calls, memory, acted, seen, edits>>

\* vm_memory_set, with one service or container, by any name
vm_memory_set(u) ==
  /\ edits < MaxEdits /\ ~AllReplied
  /\ edits' = edits + 1
  /\ grounds' = grounds \cup {u}
  /\ memory' = IF u \in Names
               THEN [memory EXCEPT !.services = @ \cup {u}]
               ELSE [memory EXCEPT !.containers = @ \cup {u}]
  /\ UNCHANGED <<calls, up, acted, seen, changes>>

\* vm_memory_clear
vm_memory_clear ==
  /\ memory # NoRecord
  /\ edits < MaxEdits /\ ~AllReplied
  /\ edits' = edits + 1
  /\ memory' = NoRecord
  /\ UNCHANGED <<calls, up, acted, seen, grounds, changes>>

Next ==
  \/ \E r \in Runs : \E t \in Picks[r] : Invoke(r, t)
  \/ \E r \in Runs : \E i \in DOMAIN answer[r] : Perform(r, i)
  \/ \E u \in Units : GuestChanges(u)
  \/ \E u \in Units \cup FullNames : vm_memory_set(u)
  \/ vm_memory_clear

Spec == Init /\ [][Next]_vars

--------------------------------------------------------------------------------
\* A drift check tells the truth about services.  If it reports no drift, every service
\* expected when it was called ran when it looked, and no container was expected by its
\* own name; if it reports drift, one expected service did not run, or the list could not
\* be had, or a container was expected, or a service by its full name, which no list has.
\* (mcp_server.py 2552-2603)
DriftTellsTruth ==
  \A r \in Runs :
    tool[r] = "vm_drift_check" /\ reply[r].made /\ answer[r][1] # Pending =>
      LET expected == baseline[r].services
          unseen == {Unit(n) : n \in expected} \ seen[r]
      IN IF reply[r].ok
         THEN unseen = {} /\ baseline[r].containers \subseteq {Envelope}
         ELSE \/ unseen # {} \/ answer[r][1].exit # 0
              \/ baseline[r].containers # {} \/ expected \cap FullNames # {}

\* A health check that ends well has seen every service run, each at its own time; and the
\* name of every container it was asked about occurs in the name of one it has seen run, in
\* what docker ps says of one besides its name, or in qm's own text.
\* (mcp_server.py 218-254, slo.py 51-73)
HealthMeansSeen ==
  \A r \in Runs :
    tool[r] \in {"vm_slo_check", "check_guest_health", "vmctl_slo"} /\ reply[r].ok =>
      /\ \A i \in DOMAIN AskedServices : Unit(AskedServices[i]) \in seen[r]
      /\ \A c \in AskedContainers :
           \/ \E d \in seen[r] : <<c, d>> \in Within
           \/ <<c, Detail>> \in Within /\ seen[r] \cap Containers # {}
           \/ <<c, Envelope>> \in Within

\* Whatever tools run at the same time, the memory only holds services and containers that
\* ran at some time, and names that qm accepted to enable or that it was told of; and,
\* among the containers, qm's text.  (mcp_server.py 2308-2316, 2476-2514)
MemoryIsGrounded ==
  /\ memory.services \subseteq grounds
  /\ memory.containers \subseteq grounds \cup {Envelope}

\* Nothing but vm_memory_clear takes a service or a container out of the memory: no tool
\* writes back what it read before others wrote.  (mcp_server.py 2508-2514)
OnlyClearForgets ==
  [][memory' # NoRecord =>
       /\ memory.services \subseteq memory'.services
       /\ memory.containers \subseteq memory'.containers]_vars

\* mcp_server.py 95: "It also handles qm guest exec JSON output to reflect the guest-side
\* status."  Here: a guest command's result that _fmt calls ok is that of a command which
\* ended in the guest with code 0.
OkReflectsGuest ==
  \A r \in Runs :
    LET ofGuest == Plan(r).verdict \in {"fmt", "latest"} /\ Plan(r).steps[1].act # "host" IN
    reply[r].made /\ reply[r].ok /\ ofGuest => reply[r].exit = 0

\* mcp_server.py 2544: "Services that are expected (in memory) but not running", of what
\* vm_drift_check detects.  Here: if only services are expected and they were listed, drift
\* is reported only when one of them did not run.
DriftIsReal ==
  \A r \in Runs :
    tool[r] = "vm_drift_check" /\ reply[r].made /\ ~reply[r].ok
      /\ answer[r][1].exit = 0 /\ baseline[r].containers = {} =>
        \E n \in baseline[r].services : Unit(n) \notin seen[r]

\* docs/tools.md 93: "Write or append text content to a guest file."  Here: a write that is
\* reported with the guest's exit code 0 has been made.
WriteIsWritten ==
  \A r \in Runs :
    tool[r] = "vm_write" /\ reply[r].ok /\ reply[r].exit = 0 => 1 \in acted[r]
================================================================================
