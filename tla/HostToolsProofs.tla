---------------------------- MODULE HostToolsProofs ----------------------------
(***************************************************************************)
(* What the tools on whole VMs promise, for any number of calls, VMs and    *)
(* lists and any number of commands left behind.  The invariant says how far *)
(* a sandbox has come after each of its steps, as long as no other call has  *)
(* interfered: a command of its own that arrives late does not take that     *)
(* away, because it does again what its step did.                            *)
(***************************************************************************)
EXTENDS HostTools, FiniteSetTheorems, TLAPS

--------------------------------------------------------------------------------
(* What a command may do to the host.                                       *)
Well(c) == c.vm \in Vms /\ c.from \in Vms /\ c.by \in Runs

\* What becomes of a machine m that is there: n.
Remade(c, m, n) ==
  /\ n.life # "absent"
  /\ c.op # "clone"
  /\ c.op \notin {"start", "rollback"} /\ m.life = "stopped" => n.life = "stopped"
  /\ c.op \notin {"isolate", "config", "rollback"} => n.net0 = m.net0

Done(c, m, n) ==
  /\ m.life # "absent" => Remade(c, m, n)
  /\ c.op \in {"clone", "isolate"} => n.life # "absent"
  /\ c.op = "clone" => n.life = "stopped"
  /\ c.op = "isolate" => n.net0 = "isolated"

Effect(w, c, x) ==
  /\ x \in Worlds
  /\ \A u \in Vms : u # c.vm => x.vm[u] = w.vm[u]
  /\ Done(c, w.vm[c.vm], x.vm[c.vm])

\* A command that only changes its VM.
LEMMA Changes ==
  ASSUME NEW w \in Worlds, NEW c, Well(c), NEW m \in Machines, NEW x \in Becomes(w, c.vm, m),
         Done(c, w.vm[c.vm], m)
  PROVE  Effect(w, c, x)
<1>1. x \in Worlds /\ x.vm[c.vm] = m /\ \A u \in Vms : u # c.vm => x.vm[u] = w.vm[u]
  BY DEF Becomes, Worlds, Well
<1> QED
  BY <1>1 DEF Effect

\* A command that changes no VM.
LEMMA ChangesNoVm ==
  ASSUME NEW w \in Worlds, NEW c, Well(c), NEW x \in Worlds, x.vm = w.vm,
         c.op \notin {"clone", "isolate"}
  PROVE  Effect(w, c, x)
<1>1. Done(c, w.vm[c.vm], x.vm[c.vm])
  BY DEF Done, Remade
<1> QED
  BY <1>1 DEF Effect

\* What commands may set a field to
LEMMA MachineFields ==
  ASSUME NEW m \in Machines
  PROVE  /\ \A l \in Life : [m EXCEPT !.life = l] \in Machines
         /\ \A n \in Nets : [m EXCEPT !.net0 = n] \in Machines /\ [m EXCEPT !.net1 = n] \in Machines
         /\ \A r \in Runs : [m EXCEPT !.script = r] \in Machines
         /\ \A r \in Runs \cup {None} : [m EXCEPT !.output = r] \in Machines
         /\ m.life \in Life
         /\ m.script \in Runs \cup {None}
BY DEF Machines

\* A VM that is made is a machine that is stopped, and none is a machine too.
LEMMA NewMachinesAre ==
  /\ NoMachine \in Machines /\ NoMachine.life = "absent"
  /\ \A m \in NewMachines : m \in Machines /\ m.life = "stopped"
BY DEF NewMachines, NoMachine, Machines, Life, Nets

\* (proxmox.py 66-144)
LEMMA LifecycleIs ==
  ASSUME NEW w \in Worlds, NEW c, Well(c), NEW x \in LifecycleEffects(w, c),
         c.op \in {"start", "stop", "shutdown", "reboot", "create", "clone"}
  PROVE  Effect(w, c, x)
<1> DEFINE m == w.vm[c.vm]
           copy == w.vm[c.from]
<1>1. m \in Machines /\ copy \in Machines
  BY DEF Worlds, Well
<1>2. "stopped" \in Life /\ "running" \in Life
  BY DEF Life
<1>3. CASE c.op = "start"
  <2> DEFINE n == [m EXCEPT !.life = "running"]
  <2>1. m.life = "stopped" /\ x \in Becomes(w, c.vm, n)
    BY <1>3 DEF LifecycleEffects, If
  <2>2. Done(c, m, n)
    BY <1>1, <1>3 DEF Done, Remade, Machines
  <2> QED
    BY <1>1, <1>2, <1>3, <2>1, <2>2, MachineFields, Changes
<1>4. CASE c.op \in {"stop", "shutdown"}
  <2> DEFINE n == [m EXCEPT !.life = "stopped"]
  <2>1. m.life = "running" /\ x \in Becomes(w, c.vm, n)
    BY <1>4 DEF LifecycleEffects, If
  <2>2. Done(c, m, n)
    BY <1>1, <1>4 DEF Done, Remade, Machines
  <2> QED
    BY <1>1, <1>2, <1>4, <2>1, <2>2, MachineFields, Changes
<1>5. CASE c.op = "reboot"
  <2>1. x = w
    BY <1>5 DEF LifecycleEffects, If
  <2> QED
    BY <1>5, <2>1, ChangesNoVm
<1>6. CASE c.op = "create"
  <2>1. m.life = "absent" /\ \E n \in NewMachines : x \in Becomes(w, c.vm, n)
    BY <1>6 DEF LifecycleEffects, If
  <2>2. PICK n \in NewMachines : x \in Becomes(w, c.vm, n)
    BY <2>1
  <2>3. Done(c, m, n)
    BY <1>6, <2>1 DEF Done
  <2> QED
    BY <2>2, <2>3, NewMachinesAre, Changes
<1>7. CASE c.op = "clone"
  <2> DEFINE n == [copy EXCEPT !.life = "stopped"]
  <2>1. m.life = "absent" /\ x \in Becomes(w, c.vm, n)
    BY <1>7 DEF LifecycleEffects, If
  <2>2. Done(c, m, n)
    BY <1>1, <1>7, <2>1 DEF Done, Machines
  <2> QED
    BY <1>1, <1>2, <1>7, <2>1, <2>2, MachineFields, Changes
<1> QED
  BY <1>3, <1>4, <1>5, <1>6, <1>7

\* (proxmox.py 159-194)
LEMMA SnapshotIs ==
  ASSUME NEW w \in Worlds, NEW c, Well(c), NEW x \in SnapshotEffects(w, c),
         c.op \in {"snapshot", "rollback", "delsnapshot"}
  PROVE  Effect(w, c, x)
<1> DEFINE m == w.vm[c.vm]
           was == w.saved[c.vm]
<1>1. m \in Machines /\ was \in Machines
  BY DEF Worlds, Well
<1>2. CASE c.op = "snapshot"
  <2> DEFINE n == [m EXCEPT !.life = "stopped"]
  <2>1. x = [w EXCEPT !.saved[c.vm] = n]
    BY <1>2 DEF SnapshotEffects, If
  <2>2. n \in Machines /\ n.life # "running"
    BY <1>1, MachineFields DEF Life, Machines
  <2> HIDE DEF n
  <2>3. x \in Worlds /\ x.vm = w.vm
    BY <2>1, <2>2 DEF Worlds, Well
  <2> QED
    BY <1>2, <2>3, ChangesNoVm
<1>3. CASE c.op = "rollback"
  <2>1. was.life # "absent" /\ x \in Becomes(w, c.vm, was)
    BY <1>3 DEF SnapshotEffects, If
  <2>2. Done(c, m, was)
    BY <1>3, <2>1 DEF Done, Remade
  <2> QED
    BY <1>1, <1>3, <2>1, <2>2, Changes
<1>4. CASE c.op = "delsnapshot"
  <2>1. x = [w EXCEPT !.saved[c.vm] = NoMachine]
    BY <1>4 DEF SnapshotEffects, If
  <2>2. NoMachine \in Machines /\ NoMachine.life # "running"
    BY NewMachinesAre
  <2>3. x \in Worlds /\ x.vm = w.vm
    BY <2>1, <2>2 DEF Worlds, Well
  <2> QED
    BY <1>4, <2>3, ChangesNoVm
<1> QED
  BY <1>2, <1>3, <1>4

\* (proxmox.py 382-400)
LEMMA ConfigIs ==
  ASSUME NEW w \in Worlds, NEW c, Well(c), NEW x \in ConfigEffects(w, c),
         c.op \in {"seed", "isolate", "config"}
  PROVE  Effect(w, c, x)
<1> DEFINE m == w.vm[c.vm]
<1>1. m \in Machines
  BY DEF Worlds, Well
<1>2. CASE c.op = "seed"
  <2>1. x = w
    BY <1>2 DEF ConfigEffects, If
  <2> QED
    BY <1>2, <2>1, ChangesNoVm
<1>3. CASE c.op = "isolate"
  <2> DEFINE n == [m EXCEPT !.net0 = "isolated"]
  <2>1. m.life # "absent" /\ x \in Becomes(w, c.vm, n)
    BY <1>3 DEF ConfigEffects, If
  <2>2. Done(c, m, n)
    BY <1>1, <1>3, <2>1 DEF Done, Remade, Machines
  <2>3. n \in Machines
    BY <1>1, MachineFields DEF Nets
  <2> QED
    BY <2>1, <2>2, <2>3, Changes
<1>4. CASE c.op = "config"
  <2>1. /\ m.life # "absent"
        /\ \/ x = w
           \/ \E n \in Nets : \/ x \in Becomes(w, c.vm, [m EXCEPT !.net0 = n])
                            \/ x \in Becomes(w, c.vm, [m EXCEPT !.net1 = n])
    BY <1>4 DEF ConfigEffects, If
  <2>2. CASE x = w
    BY <1>4, <2>2, ChangesNoVm
  <2>3. ASSUME NEW n \in Nets, x \in Becomes(w, c.vm, [m EXCEPT !.net0 = n])
        PROVE  Effect(w, c, x)
    <3>1. Done(c, m, [m EXCEPT !.net0 = n])
      BY <1>1, <1>4, <2>1 DEF Done, Remade, Machines
    <3> QED
      BY <1>1, <2>3, <3>1, MachineFields, Changes
  <2>4. ASSUME NEW n \in Nets, x \in Becomes(w, c.vm, [m EXCEPT !.net1 = n])
        PROVE  Effect(w, c, x)
    <3>1. Done(c, m, [m EXCEPT !.net1 = n])
      BY <1>1, <1>4, <2>1 DEF Done, Remade, Machines
    <3> QED
      BY <1>1, <2>4, <3>1, MachineFields, Changes
  <2> QED
    BY <2>1, <2>2, <2>3, <2>4
<1> QED
  BY <1>2, <1>3, <1>4

\* (proxmox.py 258-321, workflows.py 102-152)
LEMMA GuestIs ==
  ASSUME NEW w \in Worlds, NEW c, Well(c), NEW x \in GuestEffects(w, c),
         c.op \in {"put", "run", "get"}
  PROVE  Effect(w, c, x)
<1> DEFINE m == w.vm[c.vm]
           taken == [m EXCEPT !.script = c.by]
           written == [m EXCEPT !.output = m.script]
<1>1. m \in Machines /\ c.by \in Runs
  BY DEF Worlds, Well
<1>2. /\ m.life = "running"
      /\ \/ x = w
         \/ c.op = "put" /\ x \in Becomes(w, c.vm, taken)
         \/ c.op = "run" /\ x \in Becomes(w, c.vm, written)
  BY DEF GuestEffects, If
<1>3. taken \in Machines /\ written \in Machines
  BY <1>1, MachineFields
<1>4. CASE x = w
  BY <1>4, ChangesNoVm
<1>5. CASE c.op = "put" /\ x \in Becomes(w, c.vm, taken)
  <2>1. Done(c, m, taken)
    BY <1>1, <1>2, <1>5 DEF Done, Remade, Machines
  <2> QED
    BY <1>3, <1>5, <2>1, Changes
<1>6. CASE c.op = "run" /\ x \in Becomes(w, c.vm, written)
  <2>1. Done(c, m, written)
    BY <1>1, <1>2, <1>6 DEF Done, Remade, Machines
  <2> QED
    BY <1>3, <1>6, <2>1, Changes
<1> QED
  BY <1>2, <1>4, <1>5, <1>6

\* What any command may do (see Effect).
LEMMA EffectsAre ==
  ASSUME NEW w \in Worlds, NEW c, Well(c), NEW x \in Effects(w, c)
  PROVE  Effect(w, c, x)
<1>1. CASE c.op \in {"start", "stop", "shutdown", "reboot", "create", "clone"}
  BY <1>1, LifecycleIs DEF Effects
<1>2. CASE c.op \in {"snapshot", "rollback", "delsnapshot"}
  BY <1>2, SnapshotIs DEF Effects
<1>3. CASE c.op \in {"seed", "isolate", "config"}
  BY <1>3, ConfigIs DEF Effects
<1>4. CASE c.op \in {"put", "run", "get"}
  BY <1>4, GuestIs DEF Effects
<1>5. CASE c.op \notin {"start", "stop", "shutdown", "reboot", "create", "clone", "snapshot",
                        "rollback", "delsnapshot", "seed", "isolate", "config",
                        "put", "run", "get"}
  <2>1. x = w
    BY <1>5 DEF Effects
  <2> QED
    BY <1>5, <2>1, ChangesNoVm
<1> QED
  BY <1>1, <1>2, <1>3, <1>4, <1>5

--------------------------------------------------------------------------------
(* The plans.                                                               *)
Ops == Passive \cup Changing
Steps == [op : Ops, must : BOOLEAN]
Verdicts == {"last", "always", "raises", "table"}
Plans == [steps : Seq(Steps), verdict : Verdicts]

\* What Try and Must make
LEMMA StepsAre == \A op \in Ops : Try(op) \in Steps /\ Must(op) \in Steps
BY DEF Try, Must, Steps

\* What Plan makes of up to three steps
LEMMA PlansAre ==
  \A verdict \in Verdicts, a, b, c \in Steps :
    /\ Plan(<<a>>, verdict) \in Plans
    /\ Plan(<<a, b>>, verdict) \in Plans
    /\ Plan(<<a, b, c>>, verdict) \in Plans
BY DEF Plan, Plans

\* What Single makes
LEMMA SinglePlan == \A op \in Ops : Single(op) \in Plans
BY StepsAre, PlansAre DEF Single, Verdicts

\* The tools of one command
LEMMA SinglesArePlans ==
  ASSUME NEW f \in {LifecycleTools, SnapshotTools, ForensicTools, ZfsTools, StorageTools,
                    ScorecardTools, VmctlHostTools, VmctlStateTools, VmctlExecTools}
  PROVE  \A t \in DOMAIN f : f[t] \in Plans
<1>1. \A t \in DOMAIN LifecycleTools : LifecycleTools[t] \in Plans
  BY SinglePlan DEF LifecycleTools, Ops, Passive, Changing
<1>2. \A t \in DOMAIN SnapshotTools : SnapshotTools[t] \in Plans
  BY SinglePlan DEF SnapshotTools, Ops, Passive, Changing
<1>3. \A t \in DOMAIN ForensicTools : ForensicTools[t] \in Plans
  BY SinglePlan DEF ForensicTools, Ops, Passive, Changing
<1>4. \A t \in DOMAIN ZfsTools : ZfsTools[t] \in Plans
  BY SinglePlan DEF ZfsTools, Ops, Passive, Changing
<1>5. \A t \in DOMAIN StorageTools : StorageTools[t] \in Plans
  BY SinglePlan DEF StorageTools, Ops, Passive, Changing
<1>6. \A t \in DOMAIN ScorecardTools : ScorecardTools[t] \in Plans
  BY SinglePlan DEF ScorecardTools, Ops, Passive, Changing
<1>7. \A t \in DOMAIN VmctlHostTools : VmctlHostTools[t] \in Plans
  BY SinglePlan DEF VmctlHostTools, Ops, Passive, Changing
<1>8. \A t \in DOMAIN VmctlStateTools : VmctlStateTools[t] \in Plans
  BY SinglePlan DEF VmctlStateTools, Ops, Passive, Changing
<1>9. \A t \in DOMAIN VmctlExecTools : VmctlExecTools[t] \in Plans
  BY SinglePlan DEF VmctlExecTools, Ops, Passive, Changing
<1> QED
  BY <1>1, <1>2, <1>3, <1>4, <1>5, <1>6, <1>7, <1>8, <1>9

\* (mcp_server.py 1403-1433)
LEMMA BootToolsArePlans == \A t \in DOMAIN BootTools : BootTools[t] \in Plans
<1>1. {Must("write"), Must("seed"), Must("start")} \subseteq Steps
  BY StepsAre DEF Ops, Passive, Changing
<1>2. /\ Plan(<<Must("write"), Must("seed"), Must("start")>>, "last") \in Plans
      /\ Plan(<<Must("write"), Must("seed")>>, "last") \in Plans
  BY <1>1, PlansAre DEF Verdicts
<1>3. Single("look") \in Plans
  BY SinglePlan DEF Ops, Passive
<1> QED
  BY <1>2, <1>3 DEF BootTools

\* (analysis_tools.py 34-47)
LEMMA ForkToolsArePlans == \A t \in DOMAIN ForkTools : ForkTools[t] \in Plans
<1>1. {Must("clone"), Try("isolate"), Try("start")} \subseteq Steps
  BY StepsAre DEF Ops, Passive, Changing
<1>2. Plan(<<Must("clone"), Try("isolate"), Try("start")>>, "always") \in Plans
  BY <1>1, PlansAre DEF Verdicts
<1> QED
  BY <1>2 DEF ForkTools

\* (analysis_tools.py 206-239)
LEMMA SyncToolsArePlans == \A t \in DOMAIN SyncTools : SyncTools[t] \in Plans
<1>1. Try("unchecked") \in Steps
  BY StepsAre DEF Ops, Passive, Changing
<1>2. Plan(<<Try("unchecked")>>, "raises") \in Plans
  BY <1>1, PlansAre DEF Verdicts
<1> QED
  BY <1>2 DEF SyncTools

\* (power_tools.py 55-83)
LEMMA ExposeToolsArePlans == \A t \in DOMAIN ExposeTools : ExposeTools[t] \in Plans
<1>1. {Must("look"), Try("unlisted")} \subseteq Steps
  BY StepsAre DEF Ops, Passive, Changing
<1>2. Plan(<<Must("look"), Must("look"), Try("unlisted")>>, "always") \in Plans
  BY <1>1, PlansAre DEF Verdicts
<1> QED
  BY <1>2 DEF ExposeTools

\* Commands on other hosts
LEMMA RemoteToolsArePlans == \A t \in DOMAIN RemoteTools : RemoteTools[t] \in Plans
<1>1. Try("unchecked") \in Steps
  BY StepsAre DEF Ops, Passive, Changing
<1>2. Plan(<<Try("unchecked")>>, "raises") \in Plans /\ Plan(<<Try("unchecked")>>, "always") \in Plans
  BY <1>1, PlansAre DEF Verdicts
<1> QED
  BY <1>2 DEF RemoteTools

\* (workflows.py 102-152)
LEMMA GenerateToolsArePlans == \A t \in DOMAIN GenerateTools : GenerateTools[t] \in Plans
<1>1. {Must("put"), Must("run"), Must("get")} \subseteq Steps
  BY StepsAre DEF Ops, Passive, Changing
<1>2. Plan(<<Must("put"), Must("run"), Must("get")>>, "last") \in Plans
  BY <1>1, PlansAre DEF Verdicts
<1> QED
  BY <1>2 DEF GenerateTools

\* A tool is in one of the families, with its plan.
LEMMA CatalogueIs ==
  ASSUME NEW t \in DOMAIN Catalogue
  PROVE  /\ Catalogue[t] \in Plans
         /\ \E f \in Families : t \in DOMAIN f /\ Catalogue[t] = f[t]
<1>1. \A f \in Families : \A u \in DOMAIN f : f[u] \in Plans
  BY SinglesArePlans, BootToolsArePlans, ForkToolsArePlans, SyncToolsArePlans,
     ExposeToolsArePlans, RemoteToolsArePlans, GenerateToolsArePlans DEF Families
<1>2. \E f \in Families : t \in DOMAIN f /\ Catalogue[t] = f[t]
  BY DEF Catalogue
<1> QED
  BY <1>1, <1>2

\* The tools that take a list of VMs are no others.
LEMMA ListsApart == \A t \in ListNames : t \notin DOMAIN Catalogue
<1>1. \A f \in Families : \A t \in ListNames : t \notin DOMAIN f
  BY DEF Families, LifecycleTools, SnapshotTools, BootTools, ForkTools, ForensicTools, SyncTools,
         ZfsTools, ExposeTools, StorageTools, RemoteTools, GenerateTools, ScorecardTools,
         VmctlHostTools, VmctlStateTools, VmctlExecTools, ListNames
<1> QED
  BY <1>1 DEF Catalogue

\* The plans are sequences of steps; a list has one step for each of its VMs.
LEMMA PlanForIs ==
  ASSUME HostAssumption, NEW t \in Tools, NEW order \in Orders
  PROVE  PlanFor(t, order) \in Plans
<1>1. CASE t \in DOMAIN Catalogue
  <2>1. PlanFor(t, order) = Catalogue[t]
    BY <1>1, ListsApart DEF PlanFor, ListNames
  <2> QED
    BY <1>1, <2>1, CatalogueIs
<1>2. CASE t \notin DOMAIN Catalogue
  <2>1. order \in Seq(Vms) /\ Try("look") \in Steps /\ Must("look") \in Steps
    BY HostAssumption, StepsAre DEF Ops, Passive
  <2>2. /\ [i \in DOMAIN order |-> Try("look")] \in Seq(Steps)
        /\ [i \in DOMAIN order |-> Must("look")] \in Seq(Steps)
    BY <2>1
  <2>3. OnAll(order) \in Plans /\ OnEach(order) \in Plans
    BY <2>2 DEF OnAll, OnEach, Plan, Plans, Verdicts
  <2>4. PlanFor(t, order) \in {OnAll(order), OnEach(order)}
    BY <1>2 DEF PlanFor, Tools, ListNames, ListTools, FederationTools
  <2> QED
    BY <2>3, <2>4
<1> QED
  BY <1>1, <1>2

\* The tool that the invariant is about
LEMMA ForkPlan ==
  ASSUME NEW order
  PROVE  PlanFor("vm_fork_sandbox", order) =
           Plan(<<Must("clone"), Try("isolate"), Try("start")>>, "always")
<1>1. \A f \in Families : "vm_fork_sandbox" \in DOMAIN f => f = ForkTools
  BY DEF Families, LifecycleTools, SnapshotTools, BootTools, ForkTools, ForensicTools, SyncTools,
         ZfsTools, ExposeTools, StorageTools, RemoteTools, GenerateTools, ScorecardTools,
         VmctlHostTools, VmctlStateTools, VmctlExecTools
<1>2. ForkTools \in Families /\ DOMAIN ForkTools = {"vm_fork_sandbox"}
  BY DEF Families, ForkTools
<1>3. "vm_fork_sandbox" \in DOMAIN Catalogue
  BY <1>1, <1>2 DEF Catalogue
<1>4. Catalogue["vm_fork_sandbox"] = ForkTools["vm_fork_sandbox"]
  BY <1>1, <1>3, CatalogueIs
<1> QED
  BY <1>3, <1>4 DEF PlanFor, ForkTools

--------------------------------------------------------------------------------
(* Types.                                                                   *)
LEMMA InitTypes == Init => TypeOK
<1> SUFFICES ASSUME Init PROVE TypeOK
  OBVIOUS
<1>1. CallTypes
  BY DEF Init, CallTypes, Replies
<1>2. LateTypes
  BY HostAssumption, FS_EmptySet DEF Init, LateTypes
<1>3. world \in Worlds
  <2>1. PICK m \in NewMachines, l \in {"stopped", "running"} :
          world = [vm |-> [v \in Vms |-> IF v \in Existing THEN [m EXCEPT !.life = l]
                                         ELSE NoMachine],
                   saved |-> [v \in Vms |-> NoMachine]]
    BY DEF Init
  <2>2. m \in Machines /\ l \in Life /\ NoMachine \in Machines /\ NoMachine.life # "running"
    BY NewMachinesAre DEF Life
  <2>3. [m EXCEPT !.life = l] \in Machines
    BY <2>2, MachineFields
  <2> QED
    BY <2>1, <2>2, <2>3 DEF Worlds
<1>4. HostTypes
  BY <1>3 DEF Init, HostTypes
<1> QED
  BY <1>1, <1>2, <1>4 DEF TypeOK

\* A step of a call is one of its plan, its command one of Commands.
LEMMA CommandTypes ==
  ASSUME HostAssumption, TypeOK, NEW r \in Runs, tool[r] # None, NEW i \in DOMAIN answer[r]
  PROVE  /\ Command(r, i) \in Commands
         /\ PlanOf(r).steps[i] \in Steps
         /\ Len(PlanOf(r).steps) = Len(answer[r])
<1>1. /\ tool[r] \in Tools /\ args[r] \in Args /\ DOMAIN answer[r] = DOMAIN PlanOf(r).steps
      /\ answer[r] \in Seq(Answers)
  BY DEF TypeOK, CallTypes
<1>2. PlanOf(r) \in Plans
  BY <1>1, PlanForIs DEF PlanOf, Args
<1>3. PlanOf(r).steps \in Seq(Steps)
  BY <1>2 DEF Plans
<1>4. PlanOf(r).steps[i] \in Steps /\ Len(PlanOf(r).steps) = Len(answer[r])
  BY <1>1, <1>3
<1>5. PlanOf(r).steps[i].op \in Passive \cup Changing
  BY <1>4 DEF Steps, Ops
<1> QED
  BY <1>1, <1>4, <1>5 DEF Command, Commands, Args

\* Work leaves a world, and does what Effect says.
LEMMA WorkTypes ==
  ASSUME TypeOK, NEW c \in Commands, NEW w \in Effects(world, c), Work(c, w)
  PROVE  HostTypes' /\ Effect(world, c, w) /\ Well(c)
<1>1. Well(c)
  BY DEF Well, Commands
<1>2. world \in Worlds
  BY DEF TypeOK, HostTypes
<1>3. Effect(world, c, w)
  BY <1>1, <1>2, EffectsAre
<1>4. world' \in Worlds
  BY <1>3 DEF Work, Effect
<1>5. world.vm[c.vm] \in Machines
  BY <1>1, <1>2 DEF Worlds, Well
<1>6. collected' \in [Runs -> Runs \cup {None}]
  BY <1>1, <1>5 DEF Work, Machines, TypeOK, HostTypes, Well
<1>7. meddled' \in [Runs -> SUBSET Excuses]
  BY DEF Work, TypeOK, HostTypes
<1> QED
  BY <1>1, <1>3, <1>4, <1>6, <1>7 DEF HostTypes

\* A call that is made has no answers yet.
LEMMA InvokeTypes ==
  ASSUME HostAssumption, PicksAssumption, TypeOK, NEW r \in Runs, NEW t \in Picks[r], Invoke(r, t)
  PROVE  /\ TypeOK'
         /\ tool[r] = None
         /\ \A i \in DOMAIN answer'[r] : answer'[r][i] = "pending"
<1>1. t \in Tools
  BY PicksAssumption
<1>2. PICK a \in Args :
        /\ args' = [args EXCEPT ![r] = a]
        /\ answer' = [answer EXCEPT ![r] = [i \in DOMAIN PlanFor(t, a.order).steps |-> "pending"]]
  BY DEF Invoke, ArgsOf
<1> DEFINE steps == PlanFor(t, a.order).steps
           all == [i \in DOMAIN steps |-> "pending"]
<1>3. steps \in Seq(Steps)
  BY <1>1, PlanForIs DEF Args, Plans
<1>4. all \in Seq(Answers)
  BY <1>3 DEF Answers
<1>5. /\ tool' = [tool EXCEPT ![r] = t] /\ tool[r] = None
      /\ UNCHANGED <<reply, world, late, history>>
  BY DEF Invoke
<1>6. /\ tool' \in [Runs -> Tools \cup {None}]
      /\ args' \in [Runs -> Args \cup {NoArgs}]
      /\ answer' \in [Runs -> Seq(Answers)]
      /\ reply' \in [Runs -> Replies]
      /\ tool'[r] = t /\ args'[r] = a /\ answer'[r] = all
      /\ \A q \in Runs \ {r} :
           tool'[q] = tool[q] /\ args'[q] = args[q] /\ answer'[q] = answer[q]
  BY <1>1, <1>2, <1>4, <1>5 DEF TypeOK, CallTypes
<1>7. ASSUME NEW q \in Runs, tool'[q] # None
      PROVE  args'[q] \in Args /\ DOMAIN answer'[q] = DOMAIN PlanOf(q)'.steps
  BY <1>6, <1>7 DEF TypeOK, CallTypes, PlanOf
<1>8. CallTypes'
  BY <1>6, <1>7 DEF CallTypes
<1>9. TypeOK'
  BY <1>5, <1>8 DEF TypeOK, HostTypes, LateTypes, history
<1> QED
  BY <1>5, <1>6, <1>9

\* A step answered leaves its command behind, or does not.
LeavesLate(c) ==
  \/ late' = late
  \/ late' = late \cup {c} /\ c.op \notin Passive

\* A command that is given up is counted.
LEMMA LateGrows ==
  ASSUME HostAssumption, LateTypes, NEW c \in Commands,
         \/ late' = late
         \/ Cardinality(late \cup {c}) <= MaxLate /\ late' = late \cup {c}
  PROVE  LateTypes'
BY FS_AddElement DEF LateTypes

\* What an answered step changes
LEMMA PerformIs ==
  ASSUME HostAssumption, TypeOK, NEW r \in Runs, NEW i \in DOMAIN answer[r], Perform(r, i)
  PROVE  LET c == Command(r, i) IN
         /\ TypeOK'
         /\ tool[r] # None /\ reply[r] = None /\ i \in Due(r, answer[r])
         /\ c \in Commands /\ Well(c)
         /\ UNCHANGED <<tool, args>>
         /\ LeavesLate(c)
         /\ \/ reply' = reply
            \/ Due(r, answer'[r]) = {} /\ \E x \in Replies : reply' = [reply EXCEPT ![r] = x]
         /\ \/ /\ answer' = [answer EXCEPT ![r] = [answer[r] EXCEPT ![i] = "ok"]]
               /\ Effect(world, c, world') /\ Work(c, world')
            \/ /\ answer' = [answer EXCEPT ![r] = [answer[r] EXCEPT ![i] = "failed"]]
               /\ NoWork
<1> DEFINE c == Command(r, i)
<1>1. /\ tool[r] # None /\ reply[r] = None /\ i \in Due(r, answer[r])
      /\ UNCHANGED <<tool, args>>
  BY DEF Perform
<1>2. c \in Commands /\ answer[r] \in Seq(Answers)
  BY <1>1, CommandTypes DEF TypeOK, CallTypes
<1>3. PICK ok \in BOOLEAN :
        LET a == [answer[r] EXCEPT ![i] = IF ok THEN "ok" ELSE "failed"] IN
        /\ answer' = [answer EXCEPT ![r] = a]
        /\ reply' = IF Due(r, a) = {} THEN [reply EXCEPT ![r] = ReplyFrom(r, a)] ELSE reply
        /\ IF ok THEN \E w \in Effects(world, c) : Work(c, w) ELSE NoWork
        /\ \/ late' = late
           \/ /\ c.op \notin Passive
              /\ Cardinality(late \cup {c}) <= MaxLate
              /\ late' = late \cup {c}
  BY DEF Perform
<1> DEFINE a == [answer[r] EXCEPT ![i] = IF ok THEN "ok" ELSE "failed"]
<1>4. a \in Seq(Answers) /\ DOMAIN a = DOMAIN answer[r] /\ answer'[r] = a
  BY <1>2, <1>3 DEF Answers, TypeOK, CallTypes
<1>5. ReplyFrom(r, a) \in Replies
  BY DEF ReplyFrom, Replies
<1>6. CallTypes'
  <2>1. answer' \in [Runs -> Seq(Answers)] /\ \A q \in Runs : DOMAIN answer'[q] = DOMAIN answer[q]
    BY <1>3, <1>4 DEF TypeOK, CallTypes
  <2>2. reply' \in [Runs -> Replies]
    BY <1>3, <1>5 DEF TypeOK, CallTypes
  <2>3. \A q \in Runs : PlanOf(q)' = PlanOf(q)
    BY <1>1 DEF PlanOf
  <2> QED
    BY <1>1, <2>1, <2>2, <2>3 DEF TypeOK, CallTypes
<1>7. LateTypes'
  BY <1>2, <1>3, LateGrows DEF TypeOK
<1>8. LeavesLate(c)
  BY <1>3 DEF LeavesLate
<1>9. /\ HostTypes' /\ Well(c)
      /\ IF ok THEN Effect(world, c, world') /\ Work(c, world') ELSE NoWork
  <2>1. CASE ok
    <3>1. PICK w \in Effects(world, c) : Work(c, w)
      BY <1>3, <2>1
    <3>2. world' = w
      BY <3>1 DEF Work
    <3> QED
      BY <1>2, <2>1, <3>1, <3>2, WorkTypes
  <2>2. CASE ~ok
    BY <1>2, <1>3, <2>2 DEF NoWork, history, TypeOK, HostTypes, Well, Commands
  <2> QED
    BY <2>1, <2>2
<1>10. TypeOK'
  BY <1>1, <1>6, <1>7, <1>9 DEF TypeOK
<1>11. \/ reply' = reply
       \/ Due(r, answer'[r]) = {} /\ \E x \in Replies : reply' = [reply EXCEPT ![r] = x]
  BY <1>3, <1>4, <1>5
<1> QED
  BY <1>1, <1>2, <1>3, <1>8, <1>9, <1>10, <1>11

\* What a command that arrives late changes
LEMMA ArriveIs ==
  ASSUME HostAssumption, TypeOK, NEW c \in late, Arrive(c)
  PROVE  /\ TypeOK' /\ c \in Commands /\ Well(c)
         /\ Effect(world, c, world') /\ Work(c, world')
         /\ late' = late \ {c} /\ UNCHANGED calls
<1>1. c \in Commands
  BY DEF TypeOK, LateTypes
<1>2. /\ \E w \in Effects(world, c) : Work(c, w)
      /\ late' = late \ {c} /\ UNCHANGED calls
  BY DEF Arrive
<1>3. PICK w \in Effects(world, c) : Work(c, w)
  BY <1>2
<1>4. world' = w
  BY <1>3 DEF Work
<1>5. HostTypes' /\ Effect(world, c, world') /\ Well(c)
  BY <1>1, <1>3, <1>4, WorkTypes
<1>6. LateTypes'
  <2>1. IsFiniteSet(late) /\ late \subseteq Commands /\ Cardinality(late) <= MaxLate
    BY DEF TypeOK, LateTypes
  <2>2. /\ IsFiniteSet(late \ {c})
        /\ Cardinality(late \ {c}) = Cardinality(late) - 1
        /\ Cardinality(late) \in Nat
    BY <2>1, FS_RemoveElement, FS_CardinalityType
  <2>3. Cardinality(late \ {c}) <= MaxLate
    BY <2>1, <2>2, HostAssumption
  <2> QED
    BY <1>2, <2>1, <2>2, <2>3 DEF LateTypes
<1>7. CallTypes'
  BY <1>2 DEF TypeOK, CallTypes, calls, PlanOf
<1> QED
  BY <1>1, <1>2, <1>3, <1>4, <1>5, <1>6, <1>7 DEF TypeOK

--------------------------------------------------------------------------------
(* The invariant.                                                           *)
\* A command that is given up is that of a step that was answered.
LateOfSteps ==
  \A c \in late :
    /\ tool[c.by] # None /\ c.op \notin Passive
    /\ \E i \in DOMAIN answer[c.by] : c = Command(c.by, i) /\ answer[c.by][i] # "pending"

\* The steps of a plan are answered in their order, and none after one that had to be ok.
InOrder(r) ==
  tool[r] # None /\ PlanOf(r).verdict # "table" =>
    \A i \in DOMAIN answer[r] : answer[r][i] # "pending" =>
      \A j \in 1..(i - 1) :
        answer[r][j] = "ok" \/ (answer[r][j] = "failed" /\ ~PlanOf(r).steps[j].must)

Machine(r) == world.vm[args[r].vm]

\* How far a sandbox has come that nobody else interferes with: it is not started before its
\* isolation is answered.
ForkKnows(r) ==
  answer[r][1] = "ok" /\ answer[r][2] # "failed" =>
    /\ Machine(r).life # "absent"
    /\ answer[r][2] = "pending" => Machine(r).life = "stopped"
    /\ answer[r][2] = "ok" => Machine(r).net0 = "isolated"
ForkInv(r) ==
  /\ tool[r] = "vm_fork_sandbox"
  /\ Unmeddled(r, {"start", "reboot", "config", "rollback"})
  => ForkKnows(r)

CallInv(r) == InOrder(r) /\ ForkInv(r)

HInv == TypeOK /\ LateOfSteps /\ \A r \in Runs : CallInv(r)

--------------------------------------------------------------------------------
(* A command that does its work, of a step that is answered by it or was     *)
(* answered before.                                                         *)
OfStep(c, i) ==
  /\ i \in DOMAIN answer[c.by] /\ c = Command(c.by, i)
  /\ \/ answer[c.by][i] # "pending" /\ answer' = answer
     \/ /\ i \in Due(c.by, answer[c.by])
        /\ answer' = [answer EXCEPT ![c.by] = [answer[c.by] EXCEPT ![i] = "ok"]]

Works(c) ==
  /\ c \in Commands /\ Well(c) /\ tool[c.by] # None
  /\ Effect(world, c, world') /\ Work(c, world')
  /\ UNCHANGED <<tool, args>>
  /\ \E i \in Nat : OfStep(c, i)

\* What work of any call's means for the machine of call r and what is kept of it.
LEMMA WorkIs ==
  ASSUME TypeOK, NEW c, Works(c), NEW r \in Runs, tool[r] # None
  PROVE  /\ meddled[r] \subseteq meddled'[r]
         /\ c.by # r /\ c.op \in Excuses /\ c.vm = args[r].vm => c.op \in meddled'[r]
         /\ c.vm # args[r].vm => Machine(r)' = Machine(r)
         /\ c.vm = args[r].vm => Done(c, Machine(r), Machine(r)')
<1>1. /\ Well(c) /\ Effect(world, c, world') /\ Work(c, world') /\ UNCHANGED <<tool, args>>
  BY DEF Works
<1>2. meddled \in [Runs -> SUBSET Excuses] /\ args[r].vm \in Vms
  BY DEF TypeOK, HostTypes, CallTypes, Args
<1>3. meddled[r] \subseteq meddled'[r]
  BY <1>1, <1>2 DEF Work
<1>4. c.by # r /\ c.op \in Excuses /\ c.vm = args[r].vm => c.op \in meddled'[r]
  <2>1. ASSUME c.op \in Excuses, r \in Touched(c) PROVE c.op \in meddled'[r]
    BY <1>1, <1>2, <2>1 DEF Work
  <2> QED
    BY <2>1 DEF Touched
<1>5. /\ c.vm # args[r].vm => Machine(r)' = Machine(r)
      /\ c.vm = args[r].vm => Done(c, Machine(r), Machine(r)')
  BY <1>1, <1>2 DEF Effect, Machine
<1> QED
  BY <1>3, <1>4, <1>5

\* Which answer the work of a command is
LEMMA OwnStep ==
  ASSUME TypeOK, NEW c, Works(c), NEW r \in Runs
  PROVE  /\ c.by # r => answer'[r] = answer[r]
         /\ c.by = r =>
              \E i \in DOMAIN answer[r] :
                /\ c = Command(r, i)
                /\ \/ answer[r][i] # "pending" /\ answer'[r] = answer[r]
                   \/ i \in Due(r, answer[r]) /\ answer'[r] = [answer[r] EXCEPT ![i] = "ok"]
<1>1. PICK i \in Nat : OfStep(c, i)
  BY DEF Works
<1>2. DOMAIN answer = Runs
  BY DEF TypeOK, CallTypes
<1>3. CASE c.by # r
  BY <1>1, <1>2, <1>3 DEF OfStep
<1>4. CASE c.by = r
  <2>1. i \in DOMAIN answer[r] /\ c = Command(r, i)
    BY <1>1, <1>4 DEF OfStep
  <2>2. \/ answer[r][i] # "pending" /\ answer'[r] = answer[r]
        \/ i \in Due(r, answer[r]) /\ answer'[r] = [answer[r] EXCEPT ![i] = "ok"]
    BY <1>1, <1>2, <1>4 DEF OfStep
  <2> QED
    BY <1>4, <2>1, <2>2
<1> QED
  BY <1>3, <1>4

\* A plan of three steps that are taken in order
LEMMA ThreeSteps ==
  ASSUME HostAssumption, TypeOK, NEW r \in Runs, tool[r] # None,
         NEW a \in Steps, NEW b \in Steps, NEW d \in Steps, NEW verdict \in Verdicts,
         PlanOf(r) = Plan(<<a, b, d>>, verdict), verdict # "table", InOrder(r)
  PROVE  /\ DOMAIN answer[r] = {1, 2, 3}
         /\ Command(r, 1).op = a.op /\ Command(r, 2).op = b.op /\ Command(r, 3).op = d.op
         /\ \A i \in {1, 2, 3} :
              /\ answer[r][i] \in Answers
              /\ Command(r, i).by = r /\ Command(r, i).vm = args[r].vm
         /\ \A i \in {2, 3} : i \in Due(r, answer[r]) \/ answer[r][i] # "pending" =>
              answer[r][1] = "ok" \/ (answer[r][1] = "failed" /\ ~a.must)
         /\ 3 \in Due(r, answer[r]) \/ answer[r][3] # "pending" =>
              answer[r][2] = "ok" \/ (answer[r][2] = "failed" /\ ~b.must)
<1>1. PlanOf(r).steps = <<a, b, d>> /\ PlanOf(r).verdict # "table"
  BY DEF Plan
<1>2. DOMAIN answer[r] = {1, 2, 3}
  <2>1. DOMAIN answer[r] = DOMAIN <<a, b, d>>
    BY <1>1 DEF TypeOK, CallTypes
  <2> QED
    BY <2>1
<1>3. \A i \in {1, 2, 3} : answer[r][i] \in Answers
  BY <1>2 DEF TypeOK, CallTypes
<1>4. \A i \in {2, 3} : i \in Due(r, answer[r]) \/ answer[r][i] # "pending" =>
        answer[r][1] = "ok" \/ (answer[r][1] = "failed" /\ ~a.must)
  BY <1>1, <1>2 DEF Due, InOrder
<1>5. 3 \in Due(r, answer[r]) \/ answer[r][3] # "pending" =>
        answer[r][2] = "ok" \/ (answer[r][2] = "failed" /\ ~b.must)
  BY <1>1, <1>2 DEF Due, InOrder
<1> QED
  BY <1>1, <1>2, <1>3, <1>4, <1>5 DEF Command

--------------------------------------------------------------------------------
(* What work does to what a call knows.                                     *)
\* A sandbox is not there to be cloned again, and is not started before it is isolated.
LEMMA ForkWork ==
  ASSUME HostAssumption, HInv, NEW c, Works(c), NEW r \in Runs
  PROVE  ForkInv(r)'
<1> DEFINE excuses == {"start", "reboot", "config", "rollback"}
<1> SUFFICES ASSUME tool[r] = "vm_fork_sandbox", Unmeddled(r, excuses)'
             PROVE  ForkKnows(r)'
  BY DEF ForkInv, Works
<1> DEFINE a == answer[r]
<1>1. TypeOK /\ tool[r] # None /\ UNCHANGED <<tool, args>>
  BY DEF HInv, Works, None
<1>2. /\ meddled[r] \subseteq meddled'[r]
      /\ c.by # r /\ c.op \in Excuses /\ c.vm = args[r].vm => c.op \in meddled'[r]
      /\ c.vm # args[r].vm => Machine(r)' = Machine(r)
      /\ c.vm = args[r].vm => Done(c, Machine(r), Machine(r)')
  BY <1>1, WorkIs
<1>3. Unmeddled(r, excuses) /\ ForkKnows(r)
  BY <1>2 DEF Unmeddled, HInv, CallInv, ForkInv
<1>4. Machine(r).life \in Life
  BY <1>1 DEF TypeOK, CallTypes, HostTypes, Worlds, Args, Machine, Machines
<1>5. /\ DOMAIN a = {1, 2, 3}
      /\ Command(r, 1).op = "clone" /\ Command(r, 2).op = "isolate" /\ Command(r, 3).op = "start"
      /\ \A i \in {1, 2, 3} :
           a[i] \in Answers /\ Command(r, i).by = r /\ Command(r, i).vm = args[r].vm
      /\ \A i \in {2, 3} : i \in Due(r, a) \/ a[i] # "pending" => a[1] = "ok"
      /\ 3 \in Due(r, a) \/ a[3] # "pending" => a[2] # "pending"
  <2>1. PlanOf(r) = Plan(<<Must("clone"), Try("isolate"), Try("start")>>, "always")
    BY ForkPlan DEF PlanOf
  <2>2. {Must("clone"), Try("isolate"), Try("start")} \subseteq Steps
    BY StepsAre DEF Ops, Passive, Changing
  <2>3. /\ Must("clone").op = "clone" /\ Try("isolate").op = "isolate" /\ Try("start").op = "start"
        /\ Must("clone").must
    BY DEF Must, Try
  <2>4. InOrder(r) /\ "always" \in Verdicts /\ "always" # "table"
    BY DEF HInv, CallInv, Verdicts
  <2> QED
    BY <1>1, <2>1, <2>2, <2>3, <2>4, ThreeSteps
<1>6. CASE c.by # r
  <2>1. answer'[r] = a
    BY <1>1, <1>6, OwnStep
  <2>2. ~(c.op \in {"start", "config", "rollback"} /\ c.vm = args[r].vm)
    BY <1>2, <1>6 DEF Unmeddled, Excuses
  <2>3. Machine(r).life # "absent" =>
          /\ Machine(r)'.life # "absent"
          /\ Machine(r).life = "stopped" => Machine(r)'.life = "stopped"
          /\ Machine(r).net0 = "isolated" => Machine(r)'.net0 = "isolated"
    BY <1>2, <2>2 DEF Done, Remade
  <2> QED
    BY <1>3, <2>1, <2>3 DEF ForkKnows
<1>7. CASE c.by = r
  <2>1. PICK i \in DOMAIN a :
          /\ c = Command(r, i)
          /\ \/ a[i] # "pending" /\ answer'[r] = a
             \/ i \in Due(r, a) /\ answer'[r] = [a EXCEPT ![i] = "ok"]
    BY <1>1, <1>7, OwnStep
  <2>2. c.vm = args[r].vm
    BY <1>5, <2>1
  <2>3. CASE i = 1
    <3>1. c.op = "clone"
      BY <1>5, <2>1, <2>3
    <3>2. Machine(r).life = "absent" /\ Machine(r)'.life = "stopped"
      BY <1>2, <2>2, <3>1 DEF Done, Remade
    <3>3. a[1] # "ok" \/ a[2] = "failed"
      BY <1>3, <3>2 DEF ForkKnows
    <3>4. answer'[r][2] = a[2] /\ (a[2] = "pending" \/ a[1] = "ok")
      BY <1>5, <2>1, <2>3
    <3>5. answer'[r][2] \in {"pending", "failed"}
      BY <3>3, <3>4
    <3> QED
      BY <3>2, <3>5 DEF ForkKnows
  <2>4. CASE i = 2
    <3>1. c.op = "isolate"
      BY <1>5, <2>1, <2>4
    <3>2. Machine(r)'.life # "absent" /\ Machine(r)'.net0 = "isolated"
      BY <1>2, <2>2, <3>1 DEF Done
    <3>3. answer'[r][2] # "pending"
      BY <1>5, <2>1, <2>4
    <3> QED
      BY <3>2, <3>3 DEF ForkKnows
  <2>5. CASE i = 3
    <3>1. c.op = "start" /\ a[2] # "pending"
      BY <1>5, <2>1, <2>5
    <3>2. Machine(r).life # "absent" =>
            Machine(r)'.life # "absent" /\ Machine(r)'.net0 = Machine(r).net0
      BY <1>2, <2>2, <3>1 DEF Done, Remade
    <3>3. answer'[r][1] = a[1] /\ answer'[r][2] = a[2]
      BY <1>5, <2>1, <2>5
    <3> QED
      BY <1>3, <3>1, <3>2, <3>3 DEF ForkKnows
  <2> QED
    BY <1>5, <2>1, <2>3, <2>4, <2>5
<1> QED
  BY <1>6, <1>7

--------------------------------------------------------------------------------
(* Every step keeps the invariant.                                          *)
LEMMA HInvInit == ASSUME HostAssumption PROVE Init => HInv
<1> SUFFICES ASSUME Init PROVE HInv
  OBVIOUS
<1>1. TypeOK
  BY InitTypes
<1>2. LateOfSteps
  BY DEF Init, LateOfSteps
<1>3. ASSUME NEW r \in Runs PROVE CallInv(r)
  BY DEF Init, CallInv, InOrder, ForkInv, None
<1> QED
  BY <1>1, <1>2, <1>3 DEF HInv

\* A call that is made knows nothing yet; late commands are those of others.
LEMMA InvokeKeeps ==
  ASSUME HostAssumption, PicksAssumption, HInv, NEW r \in Runs, NEW t \in Picks[r], Invoke(r, t)
  PROVE  HInv'
<1>1. /\ TypeOK /\ TypeOK' /\ tool[r] = None
      /\ \A i \in DOMAIN answer'[r] : answer'[r][i] = "pending"
  BY InvokeTypes DEF HInv
<1>2. /\ tool' = [tool EXCEPT ![r] = t]
      /\ UNCHANGED <<reply, world, late, history>>
      /\ \E a \in Args :
           /\ args' = [args EXCEPT ![r] = a]
           /\ answer' = [answer EXCEPT ![r] =
                           [i \in DOMAIN PlanFor(t, a.order).steps |-> "pending"]]
  BY DEF Invoke, ArgsOf
<1>3. \A q \in Runs \ {r} : tool'[q] = tool[q] /\ args'[q] = args[q] /\ answer'[q] = answer[q]
  BY <1>1, <1>2 DEF TypeOK, CallTypes
<1>4. LateOfSteps'
  <2> SUFFICES ASSUME NEW c \in late
               PROVE  /\ tool'[c.by] # None /\ c.op \notin Passive
                      /\ \E i \in DOMAIN answer'[c.by] :
                           c = Command(c.by, i)' /\ answer'[c.by][i] # "pending"
    BY <1>2 DEF LateOfSteps
  <2>1. c.by \in Runs /\ c.by # r
    BY <1>1 DEF HInv, LateOfSteps, TypeOK, LateTypes, Commands
  <2>2. \A i : Command(c.by, i)' = Command(c.by, i)
    BY <1>3, <2>1 DEF Command, PlanOf
  <2> QED
    BY <1>3, <2>1, <2>2 DEF HInv, LateOfSteps
<1>5. ASSUME NEW q \in Runs PROVE CallInv(q)'
  <2>1. CASE q = r
    <3>1. InOrder(r)'
      BY <1>1 DEF InOrder
    <3>2. tool'[r] = "vm_fork_sandbox" => DOMAIN answer'[r] = {1, 2, 3}
      <4>1. tool'[r] # None => DOMAIN answer'[r] = DOMAIN PlanFor(tool'[r], args'[r].order).steps
        BY <1>1 DEF TypeOK, CallTypes, PlanOf
      <4>2. \A x, y, z : DOMAIN <<x, y, z>> = {1, 2, 3}
        OBVIOUS
      <4> QED
        BY <4>1, <4>2, ForkPlan DEF Plan, None
    <3>3. ForkInv(r)'
      BY <1>1, <3>2 DEF ForkInv, ForkKnows
    <3> QED
      BY <2>1, <3>1, <3>3 DEF CallInv
  <2>2. CASE q # r
    <3>1. CallInv(q)
      BY DEF HInv
    <3>2. /\ tool'[q] = tool[q] /\ args'[q] = args[q] /\ answer'[q] = answer[q]
          /\ world' = world /\ meddled' = meddled
      BY <1>2, <1>3, <2>2 DEF history
    <3> QED
      BY <3>1, <3>2 DEF CallInv, InOrder, ForkInv, ForkKnows, Unmeddled, Machine, PlanOf
  <2> QED
    BY <2>1, <2>2
<1> QED
  BY <1>1, <1>4, <1>5 DEF HInv

\* A step that fails tells a call nothing.
LEMMA NoWorkKeeps ==
  ASSUME HInv, NEW r \in Runs, NEW i \in DOMAIN answer[r],
         answer[r][i] = "pending",
         answer' = [answer EXCEPT ![r] = [answer[r] EXCEPT ![i] = "failed"]],
         NoWork, UNCHANGED <<tool, args>>,
         NEW q \in Runs
  PROVE  ForkInv(q)'
<1>1. UNCHANGED <<world, meddled>> /\ ForkInv(q)
  BY DEF NoWork, history, HInv, CallInv
<1>2. answer \in [Runs -> Seq(Answers)]
  BY DEF HInv, TypeOK, CallTypes
<1>3. \A k : \/ answer'[q][k] = answer[q][k]
             \/ answer[q][k] = "pending" /\ answer'[q][k] = "failed"
  BY <1>2
<1> QED
  BY <1>1, <1>3 DEF ForkInv, ForkKnows, Unmeddled, Machine

\* A step is answered.
LEMMA PerformKeeps ==
  ASSUME HostAssumption, HInv, NEW r \in Runs, NEW i \in DOMAIN answer[r], Perform(r, i)
  PROVE  HInv'
<1> DEFINE c == Command(r, i)
<1>1. /\ TypeOK'
      /\ tool[r] # None /\ i \in Due(r, answer[r])
      /\ c \in Commands /\ Well(c)
      /\ UNCHANGED <<tool, args>>
      /\ LeavesLate(c)
      /\ \/ /\ answer' = [answer EXCEPT ![r] = [answer[r] EXCEPT ![i] = "ok"]]
            /\ Effect(world, c, world') /\ Work(c, world')
         \/ /\ answer' = [answer EXCEPT ![r] = [answer[r] EXCEPT ![i] = "failed"]]
            /\ NoWork
  BY PerformIs DEF HInv
<1>2. answer \in [Runs -> Seq(Answers)] /\ answer[r][i] = "pending"
  BY <1>1 DEF HInv, TypeOK, CallTypes, Due
<1>3. /\ \A q \in Runs \ {r} : answer'[q] = answer[q]
      /\ DOMAIN answer'[r] = DOMAIN answer[r]
      /\ answer'[r][i] \in {"ok", "failed"}
      /\ \A k \in DOMAIN answer[r] \ {i} : answer'[r][k] = answer[r][k]
  BY <1>1, <1>2
<1>4. \A q, k : PlanOf(q)' = PlanOf(q) /\ Command(q, k)' = Command(q, k)
  BY <1>1 DEF PlanOf, Command
<1>5. ASSUME NEW q \in Runs PROVE ForkInv(q)'
  <2>1. CASE /\ Effect(world, c, world') /\ Work(c, world')
             /\ answer' = [answer EXCEPT ![r] = [answer[r] EXCEPT ![i] = "ok"]]
    <3>1. c.by = r
      BY DEF Command
    <3>2. OfStep(c, i) /\ i \in Nat
      BY <1>1, <1>2, <2>1, <3>1 DEF OfStep
    <3>3. Works(c)
      BY <1>1, <2>1, <3>1, <3>2 DEF Works
    <3> QED
      BY <3>3, ForkWork
  <2>2. CASE /\ answer' = [answer EXCEPT ![r] = [answer[r] EXCEPT ![i] = "failed"]]
             /\ NoWork
    BY <1>1, <1>2, <2>2, NoWorkKeeps
  <2> QED
    BY <1>1, <2>1, <2>2
<1>6. LateOfSteps'
  <2> SUFFICES ASSUME NEW d \in late'
               PROVE  /\ tool'[d.by] # None /\ d.op \notin Passive
                      /\ \E k \in DOMAIN answer'[d.by] :
                           d = Command(d.by, k)' /\ answer'[d.by][k] # "pending"
    BY DEF LateOfSteps
  <2>1. CASE d \in late
    <3>1. d.by \in Runs
      BY <2>1 DEF HInv, TypeOK, LateTypes, Commands
    <3>2. PICK k \in DOMAIN answer[d.by] : d = Command(d.by, k) /\ answer[d.by][k] # "pending"
      BY <2>1 DEF HInv, LateOfSteps
    <3>3. tool[d.by] # None /\ d.op \notin Passive
      BY <2>1 DEF HInv, LateOfSteps
    <3>4. k \in DOMAIN answer'[d.by] /\ answer'[d.by][k] # "pending"
      BY <1>2, <1>3, <3>1, <3>2
    <3> QED
      BY <1>1, <1>4, <3>2, <3>3, <3>4
  <2>2. CASE d \notin late
    <3>1. d = c /\ c.op \notin Passive
      BY <1>1, <2>2 DEF LeavesLate
    <3>2. c.by = r
      BY DEF Command
    <3> QED
      BY <1>1, <1>3, <1>4, <3>1, <3>2
  <2> QED
    BY <2>1, <2>2
<1>7. ASSUME NEW q \in Runs PROVE InOrder(q)'
  <2>1. InOrder(q)
    BY DEF HInv, CallInv
  <2>2. CASE q # r
    BY <1>1, <1>3, <1>4, <2>1, <2>2 DEF InOrder
  <2>3. CASE q = r
    <3> SUFFICES ASSUME PlanOf(r).verdict # "table",
                        NEW k \in DOMAIN answer[r], answer'[r][k] # "pending",
                        NEW j \in 1..(k - 1)
                 PROVE  \/ answer'[r][j] = "ok"
                        \/ answer'[r][j] = "failed" /\ ~PlanOf(r).steps[j].must
      BY <1>1, <1>3, <1>4, <2>3 DEF InOrder
    <3>1. \/ answer[r][j] = "ok"
          \/ answer[r][j] = "failed" /\ ~PlanOf(r).steps[j].must
      <4>1. CASE k = i
        BY <1>1, <4>1 DEF Due
      <4>2. CASE k # i
        BY <1>1, <1>3, <2>1, <2>3, <4>2 DEF InOrder
      <4> QED
        BY <4>1, <4>2
    <3>2. j \in DOMAIN answer[r]
      BY <1>2
    <3> QED
      BY <1>2, <1>3, <3>1, <3>2
  <2> QED
    BY <2>2, <2>3
<1> QED
  BY <1>1, <1>5, <1>6, <1>7 DEF HInv, CallInv

\* A late command is that of a step answered before.
LEMMA ArriveKeeps ==
  ASSUME HostAssumption, HInv, NEW c \in late, Arrive(c)
  PROVE  HInv'
<1>1. /\ TypeOK' /\ c \in Commands /\ Well(c)
      /\ Effect(world, c, world') /\ Work(c, world')
      /\ late' = late \ {c} /\ UNCHANGED calls
  BY ArriveIs DEF HInv
<1>2. UNCHANGED <<tool, args, answer>>
  BY <1>1 DEF calls
<1>3. PICK i \in DOMAIN answer[c.by] : c = Command(c.by, i) /\ answer[c.by][i] # "pending"
  BY DEF HInv, LateOfSteps
<1>4. i \in Nat /\ tool[c.by] # None
  BY <1>1, <1>3 DEF HInv, LateOfSteps, TypeOK, CallTypes, Well
<1>5. Works(c)
  BY <1>1, <1>2, <1>3, <1>4 DEF Works, OfStep
<1>6. \A q \in Runs : ForkInv(q)'
  BY <1>5, ForkWork
<1>7. \A q, k : PlanOf(q)' = PlanOf(q) /\ Command(q, k)' = Command(q, k)
  BY <1>2 DEF PlanOf, Command
<1>8. LateOfSteps'
  BY <1>1, <1>2, <1>7 DEF HInv, LateOfSteps
<1>9. \A q \in Runs : InOrder(q)'
  BY <1>2, <1>7 DEF HInv, CallInv, InOrder
<1> QED
  BY <1>1, <1>6, <1>8, <1>9 DEF HInv, CallInv

\* The invariant is inductive.
LEMMA HInvStep == ASSUME HostAssumption, PicksAssumption PROVE HInv /\ [Next]_vars => HInv'
<1> SUFFICES ASSUME HInv, [Next]_vars PROVE HInv'
  OBVIOUS
<1>1. ASSUME NEW r \in Runs, NEW t \in Picks[r], Invoke(r, t) PROVE HInv'
  BY <1>1, InvokeKeeps
<1>2. ASSUME NEW r \in Runs, NEW i \in DOMAIN answer[r], Perform(r, i) PROVE HInv'
  BY <1>2, PerformKeeps
<1>3. ASSUME NEW c \in late, Arrive(c) PROVE HInv'
  BY <1>3, ArriveKeeps
<1>4. CASE UNCHANGED vars
  <2>1. UNCHANGED <<tool, args, answer, reply, world, late, meddled, collected>>
    BY <1>4 DEF vars, calls, history
  <2>2. \A q, k : PlanOf(q)' = PlanOf(q) /\ Command(q, k)' = Command(q, k)
    BY <2>1 DEF PlanOf, Command
  <2>3. TypeOK'
    BY <2>1, <2>2 DEF HInv, TypeOK, CallTypes, HostTypes, LateTypes
  <2>4. LateOfSteps'
    BY <2>1, <2>2 DEF HInv, LateOfSteps
  <2>5. \A q \in Runs : CallInv(q)'
    BY <2>1, <2>2 DEF HInv, CallInv, InOrder, ForkInv, ForkKnows, Unmeddled, Machine
  <2> QED
    BY <2>3, <2>4, <2>5 DEF HInv
<1> QED
  BY <1>1, <1>2, <1>3, <1>4 DEF Next

\* It holds of every behaviour.
LEMMA HInvHolds == Spec => []HInv
<1>1. Init => HInv
  BY HostAssumption, HInvInit
<1>2. HInv /\ [Next]_vars => HInv'
  BY HostAssumption, PicksAssumption, HInvStep
<1> QED
  BY <1>1, <1>2, PTL DEF Spec

--------------------------------------------------------------------------------
\* The variables have their types: in particular a call has one answer for each step of its
\* plan, and no snapshot is that of a running VM.  (mcp_server.py 154-202, proxmox.py 169-194)
THEOREM HostToolsTypes == Spec => []TypeOK
<1>1. HInv => TypeOK
  BY DEF HInv
<1> QED
  BY <1>1, HInvHolds, PTL

\* The first interface of a sandbox is not on the LAN while it runs before its isolation is
\* answered or after that was ok, unless another call interfered.  (analysis_tools.py 34-47)
THEOREM SandboxStaysOffHolds == Spec => []SandboxStaysOff
<1>1. ASSUME HInv PROVE SandboxStaysOff
  <2> SUFFICES ASSUME NEW r \in Runs, tool[r] = "vm_fork_sandbox", answer[r][1] = "ok",
                      Machine(r).life = "running", Machine(r).net0 = "lan",
                      answer[r][2] # "failed",
                      Unmeddled(r, {"start", "reboot", "config", "rollback"})
               PROVE  FALSE
    BY DEF SandboxStaysOff, Machine
  <2>1. ForkKnows(r)
    BY <1>1 DEF HInv, CallInv, ForkInv
  <2>2. answer[r][2] \in Answers
    <3>1. DOMAIN answer[r] = DOMAIN PlanFor("vm_fork_sandbox", args[r].order).steps
      BY <1>1 DEF HInv, TypeOK, CallTypes, PlanOf, None
    <3>2. 2 \in DOMAIN answer[r]
      BY <3>1, ForkPlan DEF Plan
    <3> QED
      BY <1>1, <3>2 DEF HInv, TypeOK, CallTypes
  <2> QED
    BY <2>1, <2>2 DEF ForkKnows, Answers
<1> QED
  BY <1>1, HInvHolds, PTL
================================================================================
