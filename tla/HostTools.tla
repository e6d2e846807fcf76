------------------------------- MODULE HostTools ------------------------------
(***************************************************************************)
(* The tools that have the host do something with whole VMs: power, clones, *)
(* snapshots, configuration, first boot, sandboxes, workflows and commands  *)
(* on many VMs (mcp_server.py, analysis_tools.py, power_tools.py,           *)
(* workflows.py, federation.py, cli.py).  Each is a plan: host commands      *)
(* awaited one after the other, some of which end the tool when they are    *)
(* not ok, or all at once.  Calls interleave at every await.                *)
(*                                                                         *)
(* A command that the runner gives up may still do its work later, and one   *)
(* that it has started a second time may do it twice (see CommandRunner).    *)
(***************************************************************************)
EXTENDS Integers, Sequences, FiniteSets

CONSTANTS
  Runs,     \* calls of tools
  Picks,    \* Picks[r]: the tools call r may be of
  Alone,    \* bound: tools that are not called next to others; they change nothing here
  Vms,
  Existing, \* the VMs there are at first
  Orders,   \* the lists of VMs that a command is run on
  MaxLate   \* bound: commands given up whose work is still to come

ASSUME HostAssumption ==
  /\ Existing \subseteq Vms
  /\ Orders \subseteq Seq(Vms)
  /\ MaxLate \in Nat

VARIABLES
  tool,     \* tool[r]: the tool call r is of, once made
  args,     \* args[r]: its VM, the VM to clone, its list of VMs, danger_mode
  answer,   \* answer[r][i]: the answer to step i of its plan
  reply,    \* reply[r]: how it ended
  world,    \* the host: its VMs and their snapshots
  late,     \* commands given up whose work is still to come
  \* History.
  meddled,  \* meddled[r]: what others did to call r's VM since it was made
  collected \* collected[r]: whose output call r returned

calls == <<tool, args, answer, reply>>
history == <<meddled, collected>>
vars == <<calls, world, late, history>>

None == "none"

--------------------------------------------------------------------------------
(* Plans.  "must": the tool ends when the step is not ok.  The commands that  *)
(* change nothing here are told apart by what the policy says of them only:  *)
(* "look" passes, "unlisted" (zpool, iostat, socat, pvesm, pveam) does not,   *)
(* "unchecked" is not submitted to it.                                      *)
Try(op) == [op |-> op, must |-> FALSE]
Must(op) == [op |-> op, must |-> TRUE]
Plan(steps, verdict) == [steps |-> steps, verdict |-> verdict]
\* Tools of one command, whose result is the reply.
Single(op) == Plan(<<Must(op)>>, "last")

\* vm_state, vm_create, vm_clone, vm_migrate
LifecycleTools == [
  vm_state_status |-> Single("look"),
  vm_state_start |-> Single("start"),
  vm_state_stop |-> Single("stop"),
  vm_state_reboot |-> Single("reboot"),
  vm_state_shutdown |-> Single("shutdown"),
  vm_create |-> Single("create"),
  vm_clone |-> Single("clone"),
  vm_migrate |-> Single("look")]

\* vm_backup, vm_snapshot, vm_config
SnapshotTools == [
  vm_backup |-> Single("look"),
  vm_snapshot_list |-> Single("look"),
  vm_snapshot_create |-> Single("snapshot"),
  vm_snapshot_rollback |-> Single("rollback"),
  vm_snapshot_delete |-> Single("delsnapshot"),
  vm_config_get |-> Single("look"),
  vm_config_set |-> Single("config")]

\* vm_bootstrap, with and without auto_start; vm_console_read
BootTools == [
  vm_bootstrap |-> Plan(<<Must("write"), Must("seed"), Must("start")>>, "last"),
  vm_bootstrap_staged |-> Plan(<<Must("write"), Must("seed")>>, "last"),
  vm_console_read |-> Single("look")]

\* Mutation: the clone is started before it is isolated.
ForkStartsFirst == [
  vm_fork_sandbox |-> Plan(<<Must("clone"), Try("start"), Try("isolate")>>, "always")]

\* vm_fork_sandbox: once it has a clone it goes on whatever comes of the rest.
ForkTools == [
  vm_fork_sandbox |-> Plan(<<Must("clone"), Try("isolate"), Try("start")>>, "always")]

\* vm_ram_dump, vm_network_quarantine
ForensicTools == [
  vm_ram_dump |-> Single("look"),
  vm_network_quarantine |-> Single("look")]

\* vm_sandbox_sync: the result of the first get is asked for an attribute it has not.
SyncTools == [vm_sandbox_sync |-> Plan(<<Try("unchecked")>>, "raises")]

\* host_zfs_status, host_io_metrics, host_zfs_scrub_control
ZfsTools == [
  host_zfs_status |-> Single("unlisted"),
  host_io_metrics |-> Single("unlisted"),
  host_zfs_scrub_control |-> Single("unlisted")]

\* vm_expose_port: the guest's address, the host's, the forwarding
ExposeTools == [
  vm_expose_port |-> Plan(<<Must("look"), Must("look"), Try("unlisted")>>, "always")]

\* host_storage_list, host_iso_download
StorageTools == [
  host_storage_list |-> Single("unlisted"),
  host_iso_download |-> Single("unlisted")]

\* remote_tail, remote_log_capture, remote_file_get, vm_remote_tail: commands on other
\* hosts.  All but the second ask their result for an attribute it has not.
RemoteTools == [
  remote_tail |-> Plan(<<Try("unchecked")>>, "raises"),
  remote_log_capture |-> Plan(<<Try("unchecked")>>, "always"),
  remote_file_get |-> Plan(<<Try("unchecked")>>, "raises"),
  vm_remote_tail |-> Plan(<<Try("unchecked")>>, "raises")]

\* run_generate_outputs: upload a script, run it, collect its output, all under fixed names.
GenerateTools == [
  run_workflow_generate |-> Plan(<<Must("put"), Must("run"), Must("get")>>, "last")]

\* run_eval_scorecard
ScorecardTools == [run_eval_scorecard |-> Single("look")]

\* The same command on every VM of a list, at once or, until one is not ok, in order.
OnAll(order) == Plan([i \in DOMAIN order |-> Try("look")], "table")
OnEach(order) == Plan([i \in DOMAIN order |-> Must("look")], "last")

\* vm_fan_out, vm_orchestrate
ListTools(order) == [vm_fan_out |-> OnAll(order), vm_orchestrate |-> OnEach(order)]

\* fan_out_exec, cross_vm_dependency_exec
FederationTools(order) == [
  fan_out_exec |-> OnAll(order),
  cross_vm_dependency_exec |-> OnEach(order)]

\* vmctl create, clone, migrate, backup, config
VmctlHostTools == [
  vmctl_create |-> Single("create"),
  vmctl_clone |-> Single("clone"),
  vmctl_migrate |-> Single("look"),
  vmctl_backup |-> Single("look"),
  vmctl_config_get |-> Single("look"),
  vmctl_config_set |-> Single("config")]

\* vmctl state and snapshot
VmctlStateTools == [
  vmctl_state_status |-> Single("look"),
  vmctl_state_start |-> Single("start"),
  vmctl_state_stop |-> Single("stop"),
  vmctl_state_reboot |-> Single("reboot"),
  vmctl_state_shutdown |-> Single("shutdown"),
  vmctl_snapshot_list |-> Single("look"),
  vmctl_snapshot_create |-> Single("snapshot"),
  vmctl_snapshot_rollback |-> Single("rollback"),
  vmctl_snapshot_delete |-> Single("delsnapshot")]

\* vmctl exec and list
VmctlExecTools == [vmctl_exec |-> Single("look"), vmctl_list |-> Single("look")]

Families ==
  {LifecycleTools, SnapshotTools, BootTools, ForkTools, ForensicTools, SyncTools,
   ZfsTools, ExposeTools, StorageTools, RemoteTools, GenerateTools, ScorecardTools,
   VmctlHostTools, VmctlStateTools, VmctlExecTools}

Catalogue ==
  [t \in UNION {DOMAIN f : f \in Families} |-> (CHOOSE f \in Families : t \in DOMAIN f)[t]]

ListNames == {"vm_fan_out", "vm_orchestrate", "fan_out_exec", "cross_vm_dependency_exec"}
BootNames == {"vm_bootstrap", "vm_bootstrap_staged"}
CloneNames == {"vm_clone", "vm_fork_sandbox", "vmctl_clone"}

VmctlNames == DOMAIN VmctlHostTools \cup DOMAIN VmctlStateTools \cup {"vmctl_exec", "vmctl_list"}

Tools == DOMAIN Catalogue \cup ListNames
ASSUME PicksAssumption == \A r \in Runs : Picks[r] \subseteq Tools

PlanFor(t, order) ==
  CASE t \in DOMAIN Catalogue -> Catalogue[t]
    [] t \in {"vm_fan_out", "vm_orchestrate"} -> ListTools(order)[t]
    [] OTHER -> FederationTools(order)[t]
PlanOf(r) == PlanFor(tool[r], args[r].order)

--------------------------------------------------------------------------------
(* What the commands do.  A command's effects are the worlds it may leave;   *)
(* there is none if qm turns it down.                                       *)
Life == {"absent", "stopped", "running"}
\* What an interface of a VM is on, if the VM has it
Nets == {"none", "lan", "isolated"}
Machines == [life : Life, net0 : Nets, net1 : Nets,
             script : Runs \cup {None}, output : Runs \cup {None}]
NoMachine == [life |-> "absent", net0 |-> "lan", net1 |-> "none", script |-> None, output |-> None]
\* Bound: of the VMs that callers configure, some have a second interface.
NewMachines == {[NoMachine EXCEPT !.life = "stopped", !.net1 = n] : n \in {"none", "lan"}}

\* saved[v] is the state of v in its snapshot: absent if there is none.  A snapshot is
\* taken without the VM's memory, so it is never that of a running VM.
Worlds == [vm : [Vms -> Machines], saved : [Vms -> {m \in Machines : m.life # "running"}]]

\* Commands that change nothing here, or that the policy always refuses
Passive == {"look", "get", "unchecked", "unlisted", "write"}
Changing == {"start", "stop", "shutdown", "reboot", "create", "clone", "snapshot", "rollback",
             "delsnapshot", "seed", "isolate", "config", "put", "run"}
Commands == [op : Passive \cup Changing, vm : Vms, from : Vms, by : Runs]

If(condition, worlds) == IF condition THEN worlds ELSE {}
Becomes(w, v, machine) == {[w EXCEPT !.vm[v] = machine]}

\* ProxmoxLifecycle
LifecycleEffects(w, c) ==
  LET m == w.vm[c.vm] IN
  CASE c.op = "start" ->
         If(m.life = "stopped", Becomes(w, c.vm, [m EXCEPT !.life = "running"]))
    [] c.op \in {"stop", "shutdown"} ->
         If(m.life = "running", Becomes(w, c.vm, [m EXCEPT !.life = "stopped"]))
    [] c.op = "reboot" -> If(m.life = "running", {w})
    [] c.op = "create" -> If(m.life = "absent", UNION {Becomes(w, c.vm, n) : n \in NewMachines})
    [] c.op = "clone" ->
         If(m.life = "absent" /\ w.vm[c.from].life # "absent",
            Becomes(w, c.vm, [w.vm[c.from] EXCEPT !.life = "stopped"]))

\* Mutation: the snapshot has the VM's memory, so that a rollback has the VM running.
SnapshotWithMemory(w, c) ==
  LET m == w.vm[c.vm]
      there == w.saved[c.vm].life # "absent"
  IN CASE c.op = "snapshot" -> If(m.life # "absent" /\ ~there, {[w EXCEPT !.saved[c.vm] = m]})
       [] c.op = "rollback" -> If(there, Becomes(w, c.vm, w.saved[c.vm]))
       [] c.op = "delsnapshot" -> If(there, {[w EXCEPT !.saved[c.vm] = NoMachine]})

\* ProxmoxSnapshot
SnapshotEffects(w, c) ==
  LET m == w.vm[c.vm]
      there == w.saved[c.vm].life # "absent"
  IN CASE c.op = "snapshot" ->
            If(m.life # "absent" /\ ~there, {[w EXCEPT !.saved[c.vm] = [m EXCEPT !.life = "stopped"]]})
       [] c.op = "rollback" -> If(there, Becomes(w, c.vm, w.saved[c.vm]))
       [] c.op = "delsnapshot" -> If(there, {[w EXCEPT !.saved[c.vm] = NoMachine]})

\* ProxmoxConfig.set, of what matters here the interfaces: callers set either of them, or
\* what is none of them, as the user data is; vm_fork_sandbox sets the first.
ConfigEffects(w, c) ==
  LET m == w.vm[c.vm] IN
  CASE c.op = "seed" -> If(m.life # "absent", {w})
    [] c.op = "isolate" -> If(m.life # "absent", Becomes(w, c.vm, [m EXCEPT !.net0 = "isolated"]))
    [] c.op = "config" ->
         If(m.life # "absent",
            {w} \cup UNION {Becomes(w, c.vm, [m EXCEPT !.net0 = n]) \cup
                           Becomes(w, c.vm, [m EXCEPT !.net1 = n]) : n \in Nets})

\* The upload of a script, a run of what is under its name, and the download of what is
\* under the name of the output.  The first two are ok when qm had the guest begin: the
\* guest's part may fail, or not be done yet (see Perform).
GuestEffects(w, c) ==
  LET m == w.vm[c.vm] IN
  CASE c.op = "put" ->
         If(m.life = "running", {w} \cup Becomes(w, c.vm, [m EXCEPT !.script = c.by]))
    [] c.op = "run" ->
         If(m.life = "running",
            {w} \cup If(m.script # None, Becomes(w, c.vm, [m EXCEPT !.output = m.script])))
    [] c.op = "get" -> If(m.life = "running" /\ m.output # None, {w})

Effects(w, c) ==
  CASE c.op \in {"start", "stop", "shutdown", "reboot", "create", "clone"} -> LifecycleEffects(w, c)
    [] c.op \in {"snapshot", "rollback", "delsnapshot"} -> SnapshotEffects(w, c)
    [] c.op \in {"seed", "isolate", "config"} -> ConfigEffects(w, c)
    [] c.op \in {"put", "run", "get"} -> GuestEffects(w, c)
    [] OTHER -> {w}

\* Words of the denylist, waived by danger_mode
Denied == {"shutdown", "reboot"}

\* The commands whose text begins with nothing on the allowlist.  VMService.build gives the
\* server no other list than PolicyConfig's own.
Unlisted == {"unlisted", "write"}

Refused(r, op) ==
  /\ op # "unchecked"
  /\ op \in Unlisted \/ (op \in Denied /\ ~args[r].danger)

--------------------------------------------------------------------------------
Answers == {"pending", "ok", "failed"}
Replies == {None, "ok", "failed", "raised"}
NoArgs == [vm |-> None, from |-> None, order |-> <<>>, danger |-> FALSE]
Excuses == {"start", "reboot", "config", "rollback", "put", "run"}

Args == [vm : Vms, from : Vms, order : Orders, danger : BOOLEAN]

CallTypes ==
  /\ tool \in [Runs -> Tools \cup {None}]
  /\ args \in [Runs -> Args \cup {NoArgs}]
  /\ answer \in [Runs -> Seq(Answers)]
  /\ \A r \in Runs :
       tool[r] # None => args[r] \in Args /\ DOMAIN answer[r] = DOMAIN PlanOf(r).steps
  /\ reply \in [Runs -> Replies]

LateTypes == late \subseteq Commands /\ IsFiniteSet(late) /\ Cardinality(late) <= MaxLate

HostTypes ==
  /\ world \in Worlds
  /\ meddled \in [Runs -> SUBSET Excuses]
  /\ collected \in [Runs -> Runs \cup {None}]

\* The variables have their types: in particular a call has one answer for each step of its
\* plan, and no snapshot is that of a running VM.  (mcp_server.py 154-202, proxmox.py 169-194)
TypeOK == CallTypes /\ HostTypes /\ LateTypes

Init ==
  /\ tool = [r \in Runs |-> None]
  /\ args = [r \in Runs |-> NoArgs]
  /\ answer = [r \in Runs |-> <<>>]
  /\ reply = [r \in Runs |-> None]
  /\ \E m \in NewMachines, l \in {"stopped", "running"} :
       world = [vm |-> [v \in Vms |-> IF v \in Existing THEN [m EXCEPT !.life = l] ELSE NoMachine],
                saved |-> [v \in Vms |-> NoMachine]]
  /\ late = {}
  /\ meddled = [r \in Runs |-> {}]
  /\ collected = [r \in Runs |-> None]

\* The steps a call may take next: all that are left of a command on all VMs, the next one
\* of any other plan, none after one that failed and had to be ok.
Due(r, a) ==
  {i \in DOMAIN a :
     /\ a[i] = "pending"
     /\ PlanOf(r).verdict # "table" =>
          \A j \in 1..(i - 1) : a[j] = "ok" \/ (a[j] = "failed" /\ ~PlanOf(r).steps[j].must)}

ReplyFrom(r, a) ==
  LET broken == \E i \in DOMAIN a : a[i] = "failed" /\ PlanOf(r).steps[i].must
      verdict == PlanOf(r).verdict
  IN CASE verdict = "raises" -> "raised"
       [] verdict = "table" -> "ok"
       [] broken -> "failed"
       [] OTHER -> "ok"

Command(r, i) ==
  [op |-> PlanOf(r).steps[i].op, vm |-> args[r].vm, from |-> args[r].from, by |-> r]

\* The other calls that a command interferes with
Touched(c) == {q \in Runs : q # c.by /\ tool[q] # None /\ args[q].vm = c.vm}

\* A command does its work.
Work(c, w) ==
  /\ world' = w
  /\ meddled' = IF c.op \in Excuses
                THEN [q \in Runs |-> IF q \in Touched(c) THEN meddled[q] \cup {c.op} ELSE meddled[q]]
                ELSE meddled
  /\ collected' = IF c.op = "get"
                  THEN [collected EXCEPT ![c.by] = world.vm[c.vm].output]
                  ELSE collected

NoWork == UNCHANGED <<world, history>>

\* danger_mode, where it decides something: vmctl always has "maintenance", which waives the
\* denylist.
DangerModes(t, plan) ==
  IF \A i \in DOMAIN plan.steps : plan.steps[i].op \notin Denied THEN {FALSE}
  ELSE IF t \in VmctlNames THEN {TRUE}
  ELSE BOOLEAN

\* Bound: what a tool is not given is the same for all its calls.
ArgsOf(t) ==
  {a \in Args :
     /\ t \notin CloneNames => a.from = a.vm
     /\ t \notin ListNames => a.order = CHOOSE o \in Orders : TRUE
     /\ a.danger \in DangerModes(t, PlanFor(t, a.order))}

--------------------------------------------------------------------------------
\* A tool is called.
Invoke(r, t) ==
  /\ tool[r] = None
  /\ t \in Picks[r]
  /\ \A q \in Runs : tool[q] # None => {t, tool[q]} \cap Alone = {}
  /\ \E a \in ArgsOf(t) :
       /\ args' = [args EXCEPT ![r] = a]
       /\ answer' = [answer EXCEPT ![r] = [i \in DOMAIN PlanFor(t, a.order).steps |-> "pending"]]
  /\ tool' = [tool EXCEPT ![r] = t]
  /\ UNCHANGED <<reply, world, late, history>>

\* Step i of a call is answered: the policy or qm turned it down, or it was done, perhaps
\* twice; or the runner gave it up and its work is to come or never comes.  After the last
\* one the reply is made, without an await.
Perform(r, i) ==
  LET c == Command(r, i) IN
  /\ tool[r] # None /\ reply[r] = None
  /\ i \in Due(r, answer[r])
  /\ \E ok \in BOOLEAN :
       LET a == [answer[r] EXCEPT ![i] = IF ok THEN "ok" ELSE "failed"] IN
       /\ answer' = [answer EXCEPT ![r] = a]
       /\ reply' = IF Due(r, a) = {} THEN [reply EXCEPT ![r] = ReplyFrom(r, a)] ELSE reply
       /\ IF ok
          THEN /\ ~Refused(r, c.op)
               /\ \E w \in Effects(world, c) : Work(c, w)
          ELSE NoWork
       /\ \/ late' = late
          \/ /\ ~Refused(r, c.op) /\ c.op \notin Passive
             /\ Cardinality(late \cup {c}) <= MaxLate
             /\ late' = late \cup {c}
  /\ UNCHANGED <<tool, args>>

\* A command given up does its work after all, if qm still takes it.
Arrive(c) ==
  /\ c \in late
  /\ \E w \in Effects(world, c) : Work(c, w)
  /\ late' = late \ {c}
  /\ UNCHANGED calls

Next ==
  \/ \E r \in Runs : \E t \in Picks[r] : Invoke(r, t)
  \/ \E r \in Runs : \E i \in DOMAIN answer[r] : Perform(r, i)
  \/ \E c \in late : Arrive(c)

Spec == Init /\ [][Next]_vars

--------------------------------------------------------------------------------
Unmeddled(r, ops) == meddled[r] \cap ops = {}

\* The first interface of a sandbox that vm_fork_sandbox made is not on the LAN while the VM
\* runs, before its isolation is answered or after that was ok, whatever is given up and
\* takes effect late, unless another call started the VM, changed its configuration or
\* rolled it back.  (analysis_tools.py 34-47)
SandboxStaysOff ==
  \A r \in Runs :
    /\ tool[r] = "vm_fork_sandbox" /\ answer[r][1] = "ok" /\ answer[r][2] # "failed"
    /\ Unmeddled(r, {"start", "reboot", "config", "rollback"})
    => ~(world.vm[args[r].vm].life = "running" /\ world.vm[args[r].vm].net0 = "lan")

\* What the docs say, that the clone is placed on an isolated network: no reply says so of
\* a clone that runs with its first interface on the LAN.  Not so: the answer to the
\* isolation is not looked at.  (docs/tools.md:208, analysis_tools.py 41-47)
SandboxIsIsolated ==
  \A r \in Runs :
    /\ tool[r] = "vm_fork_sandbox" /\ reply[r] = "ok"
    /\ Unmeddled(r, {"start", "reboot", "config", "rollback"})
    => ~(world.vm[args[r].vm].life = "running" /\ world.vm[args[r].vm].net0 = "lan")

\* What the docs say, that the sandbox is airgapped: one that runs has no interface on the
\* LAN if its isolation was ok.  Not so: only the first interface is set.
\* (docs/tools.md:208, analysis_tools.py 41-43)
SandboxIsAirgapped ==
  \A r \in Runs :
    /\ tool[r] = "vm_fork_sandbox" /\ reply[r] = "ok" /\ answer[r][2] = "ok"
    /\ Unmeddled(r, {"start", "reboot", "config", "rollback"})
    => ~(world.vm[args[r].vm].life = "running" /\ world.vm[args[r].vm].net1 = "lan")

\* What the docs say, "One-shot cloud-init provisioning and boot": a bootstrap fails only by
\* a command that was tried.  Not so: the policy the server is built with refuses the first.
\* (docs/tools.md:198, mcp_server.py 1403-1413, service.py:35)
BootstrapIsTried ==
  \A r \in Runs :
    tool[r] \in BootNames /\ reply[r] = "failed" =>
      \E i \in DOMAIN answer[r] : answer[r][i] = "failed" /\ ~Refused(r, PlanOf(r).steps[i].op)

\* What the docstring says, "upload script, run it, collect output": the workflow returns the
\* output of its own script, unless another call used the VM meanwhile.  Not so: an upload
\* and a run that failed in the guest, or are not done yet, are ok, and the output of an
\* earlier script is returned.  (workflows.py 102-152, proxmox.py 282-287)
OutputIsOwn ==
  \A r \in Runs :
    collected[r] \notin {None, r} => ~Unmeddled(r, {"put", "run", "rollback"})
================================================================================
