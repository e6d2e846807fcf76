------------------------------ MODULE HostCommand ------------------------------
(***************************************************************************)
(* What the rest of PveMCP may rely on when it awaits CommandRunner.run():  *)
(* one call launches some copies of a host command, each copy ends on its   *)
(* own, and the caller is told once.  A copy may outlive the call, and a    *)
(* call may launch several copies: the contract promises neither "exactly   *)
(* once" nor "nothing left running".  CommandRunner implements it.          *)
(***************************************************************************)
EXTENDS HostProcess

CONSTANTS
  Calls,     \* identities of the calls of run()
  Copies     \* integers: the numbers of a call's copies, in launch order

VARIABLES
  phase,     \* phase[c]: where the call stands for its caller
  copy,      \* copy[c][k]: the k-th host process of call c
  answer     \* answer[c]: the CommandResult handed to the caller

vars == <<phase, copy, answer>>

Init ==
  /\ phase = [c \in Calls |-> "idle"]
  /\ copy = [c \in Calls |-> [k \in Copies |-> NotStarted]]
  /\ answer = [c \in Calls |-> NoAnswer]

Open(c) ==
  /\ phase[c] = "idle"
  /\ phase' = [phase EXCEPT ![c] = "open"]
  /\ UNCHANGED <<copy, answer>>

\* A copy is only ever launched while the caller is still waiting, and never
\* one with a lower number than one already launched.
Launch(c, k) ==
  /\ phase[c] = "open"
  /\ \A j \in Copies : j >= k => copy[c][j] = NotStarted
  /\ copy' = [copy EXCEPT ![c][k] = Running]
  /\ UNCHANGED <<phase, answer>>

\* A copy ends by itself, whatever the call is doing by then.
Exit(c, k) ==
  /\ copy[c][k] = Running
  /\ \E n \in ExitCodes : copy' = [copy EXCEPT ![c][k] = Exited(n)]
  /\ UNCHANGED <<phase, answer>>

LastCopyExited(c, n) ==
  \E k \in Copies :
    /\ copy[c][k] = Exited(n)
    /\ \A j \in Copies : j > k => copy[c][j] = NotStarted

\* An answer is the exit code of the copy launched last, or one of the two
\* made-up codes; the first of these is given only when no copy was launched.
Answer(c) ==
  /\ phase[c] = "open"
  /\ \E n \in ExitCodes \cup {UnusableCommand, AttemptsUsedUp} :
       /\ \/ LastCopyExited(c, n)
          \/ n = UnusableCommand /\ \A k \in Copies : copy[c][k] = NotStarted
          \/ n = AttemptsUsedUp
       /\ answer' = [answer EXCEPT ![c] = Result(n)]
  /\ phase' = [phase EXCEPT ![c] = "answered"]
  /\ UNCHANGED copy

\* The caller's task is cancelled: no answer.  A copy that was just being set
\* up may be killed, any other copy is left alone.
Abandon(c) ==
  /\ phase[c] = "open"
  /\ phase' = [phase EXCEPT ![c] = "abandoned"]
  /\ \/ UNCHANGED copy
     \/ \E k \in Copies :
          /\ copy[c][k] = Running
          /\ copy' = [copy EXCEPT ![c][k] = Killed]
  /\ UNCHANGED answer

Settle(c) == Answer(c) \/ Abandon(c)

Next ==
  \E c \in Calls :
    \/ Open(c)
    \/ \E k \in Copies : Launch(c, k) \/ Exit(c, k)
    \/ Settle(c)

\* Every open call is settled: the caller of run() is never left waiting.
Fairness == \A c \in Calls : WF_vars(Settle(c))

Spec == Init /\ [][Next]_vars /\ Fairness
================================================================================
