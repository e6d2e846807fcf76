--------------------------- MODULE TransactionalExec ---------------------------
(***************************************************************************)
(* vm_transactional_exec (power_tools.py): snapshot a VM, run a command in  *)
(* its guest, run a validation command, then delete the snapshot or roll    *)
(* back and delete it.  Each of the five host commands is one call with the *)
(* contract of HostCommand: it may be answered while a copy of it still     *)
(* runs on the host, and that copy takes its effect later, after the tool   *)
(* has moved on.  Several transactions may work on the same VM, and two     *)
(* that start in the same second use the same snapshot name.                *)
(***************************************************************************)
EXTENDS HostProcess

CONSTANTS
  Tx,        \* transactions, all on one VM
  MaxCopies, \* copies of a host command one call may launch: Retries + 1
  Names      \* snapshot names: tx_<second>

ASSUME MaxCopiesAssumption == MaxCopies \in Nat \ {0}

VARIABLES
  step,      \* step[t]: the command transaction t awaits, or awaited last
  outcome,   \* outcome[t]: what the tool told its caller, "none" until then
  name,      \* name[t]: snap_name, from the second t starts in
  copies,    \* copies[t]: how many copies the awaited call has launched
  last,      \* last[t]: the copy it launched last
  late,      \* late[t][op]: copies of op that still run, with nobody waiting
  overran,   \* overran[t]: some copy of t's command became such a copy
  told,      \* told[t]: the results in the tool's reply that matter below
  disk,      \* transactions whose command's effect is on the guest's disk
  snaps,     \* snaps[n]: the disk that snapshot n holds, none if there is no n
  rivals,    \* rivals[t]: transactions under way when t's command last took effect
  invalid    \* transactions whose validation command ran in the guest and failed there

toolVars == <<step, outcome, name, overran, told>>
callVars == <<copies, last, late>>
hostVars == <<disk, snaps, rivals, invalid>>
vars == <<toolVars, callVars, hostVars>>

Ops == {"snapshot", "exec", "validate", "rollback", "delete"}
Steps == {"snapshot", "exec", "validate", "commit", "rollback", "cleanup"}
Outcomes == {"none", "no_snapshot", "committed", "rolled_back", "broken_off"}

\* The command made at each step.
Command(s) == IF s \in {"commit", "cleanup"} THEN "delete" ELSE s

Reported == {"exec", "rollback"}

TypeOK ==
  /\ step \in [Tx -> Steps]
  /\ outcome \in [Tx -> Outcomes]
  /\ name \in [Tx -> Names]
  /\ copies \in [Tx -> 0..MaxCopies]
  /\ last \in [Tx -> {NotStarted, Running, Exited(0), Exited(1)}]
  /\ late \in [Tx -> [Ops -> Nat]]
  /\ overran \in [Tx -> BOOLEAN]
  /\ told \in [Tx -> [Reported -> {"none", "ok", "failed"}]]
  /\ disk \in SUBSET Tx
  /\ snaps \in [Names -> SUBSET SUBSET Tx]
  /\ \A n \in Names : \A d, e \in snaps[n] : d = e
  /\ rivals \in [Tx -> SUBSET Tx]
  /\ invalid \in SUBSET Tx

Init ==
  /\ step = [t \in Tx |-> "snapshot"]
  /\ outcome = [t \in Tx |-> "none"]
  /\ name \in [Tx -> Names]
  /\ copies = [t \in Tx |-> 0]
  /\ last = [t \in Tx |-> NotStarted]
  /\ late = [t \in Tx |-> [op \in Ops |-> 0]]
  /\ overran = [t \in Tx |-> FALSE]
  /\ told = [t \in Tx |-> [op \in Reported |-> "none"]]
  /\ disk = {}
  /\ snaps = [n \in Names |-> {}]
  /\ rivals = [t \in Tx |-> {}]
  /\ invalid = {}

--------------------------------------------------------------------------------
(***************************************************************************)
(* The tool.                                                                *)
(***************************************************************************)

Active(t) == outcome[t] = "none"

Goto(t, s) == step' = [step EXCEPT ![t] = s] /\ UNCHANGED outcome
End(t, o) == outcome' = [outcome EXCEPT ![t] = o] /\ UNCHANGED step

\* Mutation: a failed snapshot does not end the transaction.
NextStepIgnoresSnapshot(t, ok) ==
  CASE step[t] = "snapshot" -> Goto(t, "exec")
    [] step[t] = "exec"     -> Goto(t, "validate")
    [] step[t] = "validate" -> Goto(t, IF ok THEN "commit" ELSE "rollback")
    [] step[t] = "commit"   -> End(t, "committed")
    [] step[t] = "rollback" -> Goto(t, "cleanup")
    [] step[t] = "cleanup"  -> End(t, "rolled_back")

\* Mutation: the tool stays with a rollback that failed.
NextStepInsistsOnRollback(t, ok) ==
  CASE step[t] = "snapshot" -> IF ok THEN Goto(t, "exec") ELSE End(t, "no_snapshot")
    [] step[t] = "exec"     -> Goto(t, "validate")
    [] step[t] = "validate" -> Goto(t, IF ok THEN "commit" ELSE "rollback")
    [] step[t] = "commit"   -> End(t, "committed")
    [] step[t] = "rollback" -> Goto(t, IF ok THEN "cleanup" ELSE "rollback")
    [] step[t] = "cleanup"  -> End(t, "rolled_back")

\* What the tool does with the "ok" of the command it awaited.  Neither the
\* command's own result, nor that of the rollback, nor that of a deletion
\* decides anything.
NextStep(t, ok) ==
  CASE step[t] = "snapshot" -> IF ok THEN Goto(t, "exec") ELSE End(t, "no_snapshot")
    [] step[t] = "exec"     -> Goto(t, "validate")
    [] step[t] = "validate" -> Goto(t, IF ok THEN "commit" ELSE "rollback")
    [] step[t] = "commit"   -> End(t, "committed")
    [] step[t] = "rollback" -> Goto(t, "cleanup")
    [] step[t] = "cleanup"  -> End(t, "rolled_back")

\* Nobody waits for the running copy any more.
LeaveBehind(t) ==
  IF last[t] = Running
    THEN /\ late' = [late EXCEPT ![t][Command(step[t])] = @ + 1]
         /\ overran' = [overran EXCEPT ![t] = @ \/ step[t] = "exec"]
    ELSE UNCHANGED <<late, overran>>

\* run() starts a copy: the first, or another one after it gave up the last.
Launch(t) ==
  /\ Active(t)
  /\ copies[t] < MaxCopies
  /\ copies' = [copies EXCEPT ![t] = @ + 1]
  /\ last' = [last EXCEPT ![t] = Running]
  /\ LeaveBehind(t)
  /\ UNCHANGED <<step, outcome, name, told, hostVars>>

\* The awaited call is answered and the tool goes on.  ok is the exit code of
\* the copy launched last, for guest commands that of qm itself: the guest's
\* own exit code is in its output, which is not read.  Not ok is also a timeout,
\* at any moment, and a command the policy blocks or that cannot be started.
Answered(t) ==
  /\ Active(t)
  /\ \E ok \in BOOLEAN :
       /\ ok => last[t] = Exited(0)
       /\ NextStep(t, ok)
       /\ told' = IF step[t] \in Reported
                    THEN [told EXCEPT ![t][step[t]] = IF ok THEN "ok" ELSE "failed"]
                    ELSE told
  /\ LeaveBehind(t)
  /\ copies' = [copies EXCEPT ![t] = 0]
  /\ last' = [last EXCEPT ![t] = NotStarted]
  /\ UNCHANGED <<name, hostVars>>

\* The client drops the request, the process dies, or the audit file refuses the
\* record of an answer (which is lost): the tool stops there and undoes nothing.
\* A copy just being set up may be killed, any other runs on.
BreaksOff(t) ==
  /\ Active(t)
  /\ End(t, "broken_off")
  /\ LeaveBehind(t) \/ UNCHANGED <<late, overran>>
  /\ copies' = [copies EXCEPT ![t] = 0]
  /\ last' = [last EXCEPT ![t] = NotStarted]
  /\ UNCHANGED <<name, told, hostVars>>

--------------------------------------------------------------------------------
(***************************************************************************)
(* The host.  A copy takes its effect at the moment it exits with 0, be its *)
(* caller still waiting or not; with any other code it has none.            *)
(***************************************************************************)

ExitsWith(t, op, n) ==
  \/ /\ late[t][op] > 0
     /\ late' = [late EXCEPT ![t][op] = @ - 1]
     /\ UNCHANGED last
  \/ /\ last[t] = Running
     /\ op = Command(step[t])
     /\ last' = [last EXCEPT ![t] = Exited(n)]
     /\ UNCHANGED late

Fails(t) == \E op \in Ops : ExitsWith(t, op, 1) /\ UNCHANGED hostVars

\* Mutation: a name in use is taken once more.
SnapshotsUnchecked(t) ==
  /\ ExitsWith(t, "snapshot", 0)
  /\ snaps' = [snaps EXCEPT ![name[t]] = @ \cup {disk}]
  /\ UNCHANGED <<disk, rivals, invalid>>

\* A name in use is refused.
Snapshots(t) ==
  /\ snaps[name[t]] = {}
  /\ ExitsWith(t, "snapshot", 0)
  /\ snaps' = [snaps EXCEPT ![name[t]] = {disk}]
  /\ UNCHANGED <<disk, rivals, invalid>>

\* A transaction that may roll back, now or later: it has asked for its snapshot, and has
\* not ended or has left a rollback behind.
UnderWay(u) ==
  /\ copies[u] > 0 \/ step[u] # "snapshot"
  /\ Active(u) \/ late[u]["rollback"] > 0

Executes(t) ==
  /\ ExitsWith(t, "exec", 0)
  /\ disk' = disk \cup {t}
  /\ rivals' = [rivals EXCEPT ![t] = {u \in Tx \ {t} : UnderWay(u)}]
  /\ UNCHANGED <<snaps, invalid>>

\* qm ends with 0 whenever it ran the command, whatever the command's exit code.
Validates(t) ==
  /\ ExitsWith(t, "validate", 0)
  /\ invalid' \in {invalid, invalid \cup {t}}
  /\ UNCHANGED <<disk, snaps, rivals>>

RollsBack(t) ==
  /\ ExitsWith(t, "rollback", 0)
  /\ disk' \in snaps[name[t]]
  /\ UNCHANGED <<snaps, rivals, invalid>>

Deletes(t) ==
  /\ snaps[name[t]] # {}
  /\ ExitsWith(t, "delete", 0)
  /\ snaps' = [snaps EXCEPT ![name[t]] = {}]
  /\ UNCHANGED <<disk, rivals, invalid>>

CopyExits(t) ==
  /\ \/ Fails(t)
     \/ Snapshots(t)
     \/ Executes(t)
     \/ Validates(t)
     \/ RollsBack(t)
     \/ Deletes(t)
  /\ UNCHANGED <<toolVars, copies>>

--------------------------------------------------------------------------------
Next == \E t \in Tx : Launch(t) \/ Answered(t) \/ BreaksOff(t) \/ CopyExits(t)

\* run() settles every call (EveryCallEnds of CommandRunner) and the loop resumes
\* whoever awaited it; no host command need ever end.
Fairness == \A t \in Tx : WF_vars(Answered(t) \/ BreaksOff(t))

Spec == Init /\ [][Next]_vars /\ Fairness

--------------------------------------------------------------------------------
\* The guest command and its validation run under a safety net: from their start
\* to the decision the transaction's snapshot exists and predates its command,
\* whatever late copies of other snapshots and deletions, its own or those of a
\* transaction of the same second, still do on the host (power_tools.py 34-43).
\* It is claimed of transactions with a name of their own, and where every call
\* launches one copy: a second copy of another transaction's deletion may take
\* away a net of the same name.
SafetyNet ==
  \A t \in Tx :
    /\ step[t] \in {"exec", "validate"}
    /\ MaxCopies = 1 \/ \A u \in Tx \ {t} : name[u] # name[t]
    => snaps[name[t]] # {} /\ \A d \in snaps[name[t]] : t \notin d

OthersNeverRollBack(t) ==
  \A u \in Tx \ {t} : step[u] \notin {"rollback", "cleanup"}

\* A transaction reported as rolled back, by a rollback that succeeded, left no
\* trace on the disk: unless a copy of its command outlived its call, or another
\* transaction rolled back to a disk that had it (power_tools.py 47-52).
RolledBackIsUndone ==
  \A t \in Tx :
    /\ outcome[t] = "rolled_back"
    /\ told[t]["rollback"] = "ok"
    /\ ~overran[t]
    /\ MaxCopies = 1 \/ \A u \in Tx \ {t} : name[u] # name[t]
    /\ OthersNeverRollBack(t)
    => t \notin disk

\* The effect of a command that went well, in a transaction reported as committed, is
\* lost only to a rival: to the rollback, be it late or of the same snapshot name, of a
\* transaction that was already under way when the command took effect.  One that begins
\* later never takes it away, nor does anything t itself left behind (power_tools.py
\* 31-52).
CommittedIsKept ==
  \A t \in Tx :
    outcome[t] = "committed" /\ told[t]["exec"] = "ok" =>
      t \in disk \/ \E u \in rivals[t] : step[u] \in {"rollback", "cleanup"}

\* "Rolls back if validation fails." (power_tools.py:29): what is reported as committed
\* has not failed its validation in the guest (power_tools.py 41-46).
CommitsOnlyValidated == \A t \in Tx : outcome[t] = "committed" => t \notin invalid

\* Every transaction comes to an end, even if every host command hangs.
TransactionsEnd == \A t \in Tx : <>(outcome[t] # "none")
================================================================================
