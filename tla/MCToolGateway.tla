----------------------------- MODULE MCToolGateway -----------------------------
(***************************************************************************)
(* ToolGateway on a small instance: two concurrent requests through any     *)
(* wrapper, with one crash.  Commands that end with 0 are enough: failures   *)
(* come from the policy, from execute() and from the deadline.              *)
(***************************************************************************)
EXTENDS ToolGateway

MCExitCodes == {0}
\* An allowlisted command, one with a denylisted substring, one nobody listed.
MCCommands == {[denied |-> FALSE, allowed |-> TRUE],
               [denied |-> TRUE,  allowed |-> TRUE],
               [denied |-> FALSE, allowed |-> FALSE]}

AllEntries == {"server", "cli", "service", "direct"}
================================================================================
