------------------------------ MODULE HostProcess ------------------------------
(***************************************************************************)
(* The values shared by every module that talks about a host command: the   *)
(* state of one operating-system process and the CommandResult that         *)
(* CommandRunner.run() builds from it (only its ok and code fields: output, *)
(* duration and the echoed command decide nothing).                         *)
(***************************************************************************)
EXTENDS Integers

CONSTANT ExitCodes   \* return codes a host process may end with

ASSUME ExitCodesAssumption == ExitCodes \subseteq Int

NotStarted == [state |-> "none",    code |-> 0]
Running    == [state |-> "running", code |-> 0]
Killed     == [state |-> "killed",  code |-> 0]
Exited(n)  == [state |-> "exited",  code |-> n]

ProcessStates == {NotStarted, Running, Killed} \cup {Exited(n) : n \in ExitCodes}

\* The two codes run() makes up itself: unusable command line, attempts used up.
UnusableCommand == 2
AttemptsUsedUp == 124

\* run() builds every result with ok = (code == 0), here and nowhere else: what a
\* caller makes of it may differ (ToolGateway.Returned).  A call not answered yet
\* holds NoAnswer, which is no Result.
Result(n) == [ok |-> n = 0, code |-> n]
NoAnswer  == [ok |-> FALSE, code |-> 0]

Results == {Result(n) : n \in ExitCodes \cup {UnusableCommand, AttemptsUsedUp}}
================================================================================
