------------------------------ MODULE MCGuestTools -----------------------------
EXTENDS GuestTools

MCServices == {"nginx", "db"}
MCFullNames == {"db.service"}
MCStripped == [n \in MCFullNames |-> "db"]
MCContainers == {"web"}
MCAskedServices == <<"nginx", "db.service">>
\* The second name is no container's, but a word of what docker ps says of a healthy one.
MCAskedContainers == {"web", "healthy"}
MCWithin == {<<"web", "web">>, <<"healthy", Detail>>}
\* One call of any tool; next to one that uses the memory, another such one.
MemoryTools == {"vm_autodiscover", "vm_drift_check", "vm_service_enable_now"}
MCPicks == [r \in Runs |-> IF r = "any" THEN DOMAIN Catalogue ELSE MemoryTools]
\* One call of vm_write; of vm_drift_check; of any tool.
MCWritePicks == [r \in Runs |-> {"vm_write"}]
MCDriftPicks == [r \in Runs |-> {"vm_drift_check"}]
MCAnyPicks == [r \in Runs |-> DOMAIN Catalogue]
MCAlone == DOMAIN Catalogue \ MemoryTools
================================================================================
