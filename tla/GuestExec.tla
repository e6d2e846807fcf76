------------------------------- MODULE GuestExec ------------------------------
(***************************************************************************)
(* What a tool gets to see of a command it had run in a guest.  The host    *)
(* command "qm guest exec" succeeds when the guest agent took the command;  *)
(* how the command ended, and what it printed, is in the JSON text qm       *)
(* prints.  Some of the server's tools look into that text, some do not.    *)
(***************************************************************************)
EXTENDS Integers

\* The guest's exit code is not known.
NoExit == -1

\* The line the tools see in place of output when qm's text holds none: qm's text.
Envelope == "envelope"

\* qm did not start, was refused by the policy, ended with an error or took longer than
\* the runner's deadline.  "missing": its complaint contains "not found".
Failed(missing) ==
  [ok |-> FALSE, exit |-> NoExit, data |-> FALSE, lines |-> {}, missing |-> missing]

\* qm gave up waiting for the command and printed its process number alone.
StillRunning ==
  [ok |-> TRUE, exit |-> NoExit, data |-> FALSE, lines |-> {}, missing |-> FALSE]

\* The command ended with n.  The text has "out-data" if there was output, and may have
\* it otherwise.
Ended(n, lines) ==
  {[ok |-> TRUE, exit |-> n, data |-> d, lines |-> lines, missing |-> FALSE] :
     d \in {b \in BOOLEAN : lines # {} => b}}

\* A host command that succeeds: its output is not one of qm's texts about a guest.
HostOutput ==
  [ok |-> TRUE, exit |-> NoExit, data |-> TRUE, lines |-> {}, missing |-> FALSE]

GuestResults(Lines) ==
  [ok : BOOLEAN, exit : {NoExit, 0, 1}, data : BOOLEAN, lines : SUBSET Lines, missing : BOOLEAN]

\* _guest_stdout: out-data if there is any, and otherwise the text itself.
GuestStdout(r) == IF r.data THEN r.lines ELSE IF r.ok THEN {Envelope} ELSE {}

\* _fmt: a command whose text has an exit code is ok if that is 0, and one whose text has
\* none if qm was.
FmtOk(r) == r.ok /\ r.exit \in {NoExit, 0}
================================================================================
