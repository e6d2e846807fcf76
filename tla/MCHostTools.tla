------------------------------- MODULE MCHostTools ----------------------------
EXTENDS HostTools

MCOrders == {<<"100", "101">>, <<"100", "101", "100">>}
\* One call of any tool; next to one that changes a VM, another that does.
Changers ==
  {"vm_bootstrap", "vm_fork_sandbox", "run_workflow_generate", "vm_state_start", "vm_clone",
   "vm_config_set"}
MCPicks == [r \in Runs |-> IF r = "any" THEN Tools ELSE Changers]
MCAlone ==
  {t \in Tools :
     LET steps == PlanFor(t, <<"100">>).steps IN
     \A i \in DOMAIN steps : steps[i].op \in Passive}
================================================================================
