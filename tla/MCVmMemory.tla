------------------------------- MODULE MCVmMemory ------------------------------
(***************************************************************************)
(* VmMemory on a small instance: the server and a vmctl command, records of *)
(* two VMs, two facts, enough operations for each process to come back to   *)
(* what the other did.  Processes, VMs and facts are interchangeable, and   *)
(* no liveness property is checked.                                         *)
(***************************************************************************)
EXTENDS VmMemory, TLC

Interchangeable == Permutations(Procs) \cup Permutations(Vms) \cup Permutations(Facts)
================================================================================
