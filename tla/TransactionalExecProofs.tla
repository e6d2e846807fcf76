------------------------- MODULE TransactionalExecProofs ------------------------
(***************************************************************************)
(* The safety net, what is rolled back and what is kept, for any number of  *)
(* transactions, snapshot names and copies of host commands.  The invariant *)
(* says who holds the snapshot of a name: whoever made it and has not yet   *)
(* lost the means to delete it.  Where every call launches one copy, nobody *)
(* else holds a snapshot of that name.  And it says what a rollback that is *)
(* still to come goes back to: a disk with the effect of every command that *)
(* went well before its transaction began.                                  *)
(***************************************************************************)
EXTENDS TransactionalExec, TLAPS

CopyStates == {NotStarted, Running, Exited(0), Exited(1)}

LEMMA CopyStatesDiffer ==
  /\ NotStarted # Running /\ NotStarted # Exited(0) /\ NotStarted # Exited(1)
  /\ Running # Exited(0) /\ Running # Exited(1) /\ Exited(0) # Exited(1)
BY DEF NotStarted, Running, Exited

\* A command is made at one step only, but for the deletion, which ends both branches
\* (power_tools.py 34-52).
LEMMA CommandOf ==
  ASSUME NEW s \in Steps
  PROVE  /\ Command(s) \in Ops
         /\ Command(s) = "delete" <=> s \in {"commit", "cleanup"}
         /\ Command(s) = "rollback" <=> s = "rollback"
         /\ Command(s) = "exec" <=> s = "exec"
         /\ Command(s) = "snapshot" <=> s = "snapshot"
BY DEF Steps, Command, Ops

--------------------------------------------------------------------------------
\* Where a transaction is, and which copies it can have left behind by then
Place(t) ==
  /\ copies[t] = 0 => last[t] = NotStarted
  /\ ~Active(t) => last[t] = NotStarted /\ copies[t] = 0
  /\ late[t]["delete"] > 0 => step[t] \in {"commit", "cleanup"}
  /\ late[t]["rollback"] > 0 => step[t] \in {"rollback", "cleanup"}
  /\ late[t]["exec"] > 0 => step[t] # "snapshot" /\ overran[t]
  /\ MaxCopies = 1 => late[t]["delete"] <= 1 /\ (Active(t) => late[t]["delete"] = 0)
  /\ told[t]["exec"] = "ok" => step[t] \notin {"snapshot", "exec"}
  /\ told[t]["rollback"] = "ok" => step[t] = "cleanup"
  /\ outcome[t] = "committed" => step[t] = "commit"

PInv == TypeOK /\ \A t \in Tx : Place(t)

\* What a step of transaction t can do to the copies left behind: one more of the command
\* it was waiting for.
LEMMA LeftBehind ==
  ASSUME TypeOK, NEW t \in Tx, LeaveBehind(t)
  PROVE  /\ late' \in [Tx -> [Ops -> Nat]] /\ overran' \in [Tx -> BOOLEAN]
         /\ \A u \in Tx, op \in Ops :
              late'[u][op] = IF u = t /\ op = Command(step[t]) /\ last[t] = Running
                             THEN late[u][op] + 1 ELSE late[u][op]
         /\ \A u \in Tx :
              overran'[u] <=> \/ overran[u]
                              \/ u = t /\ last[t] = Running /\ step[t] = "exec"
<1>1. /\ late \in [Tx -> [Ops -> Nat]] /\ overran \in [Tx -> BOOLEAN] /\ step[t] \in Steps
  BY DEF TypeOK
<1>2. Command(step[t]) \in Ops
  BY <1>1, CommandOf
<1>3. CASE last[t] = Running
  <2> DEFINE k == Command(step[t])
  <2>1. late' = [late EXCEPT ![t][k] = late[t][k] + 1]
    BY <1>3 DEF LeaveBehind
  <2>2. overran' = [overran EXCEPT ![t] = overran[t] \/ step[t] = "exec"]
    BY <1>3 DEF LeaveBehind
  <2>3. late[t] \in [Ops -> Nat] /\ late[t][k] + 1 \in Nat
    BY <1>1, <1>2
  <2> HIDE DEF k
  <2>4. late' = [late EXCEPT ![t] = [late[t] EXCEPT ![k] = late[t][k] + 1]]
    BY <2>1
  <2>5. late' \in [Tx -> [Ops -> Nat]]
    BY <1>1, <2>3, <2>4
  <2>6. \A u \in Tx, op \in Ops :
          late'[u][op] = IF u = t /\ op = k THEN late[u][op] + 1 ELSE late[u][op]
    BY <1>1, <2>3, <2>4
  <2>7. overran' \in [Tx -> BOOLEAN]
    BY <1>1, <2>2
  <2>8. \A u \in Tx : overran'[u] <=> overran[u] \/ (u = t /\ step[t] = "exec")
    BY <1>1, <2>2
  <2> QED
    BY <1>3, <2>5, <2>6, <2>7, <2>8 DEF k
<1>4. CASE last[t] # Running
  BY <1>1, <1>4 DEF LeaveBehind
<1> QED
  BY <1>3, <1>4

\* A copy ends: one that was left behind, or the one that is waited for.
LEMMA CopyEnds ==
  ASSUME TypeOK, NEW t \in Tx, NEW op \in Ops, NEW n \in {0, 1}, ExitsWith(t, op, n)
  PROVE  /\ late' \in [Tx -> [Ops -> Nat]] /\ last' \in [Tx -> CopyStates]
         /\ \/ /\ late[t][op] > 0
               /\ last' = last
               /\ \A u \in Tx, k \in Ops :
                    late'[u][k] = IF u = t /\ k = op THEN late[u][k] - 1 ELSE late[u][k]
            \/ /\ last[t] = Running /\ op = Command(step[t])
               /\ late' = late
               /\ \A u \in Tx : last'[u] = IF u = t THEN Exited(n) ELSE last[u]
<1>1. late \in [Tx -> [Ops -> Nat]] /\ last \in [Tx -> CopyStates]
  BY DEF TypeOK, CopyStates
<1>2. CASE /\ late[t][op] > 0
           /\ late' = [late EXCEPT ![t][op] = @ - 1]
           /\ UNCHANGED last
  <2>1. late[t] \in [Ops -> Nat] /\ late[t][op] - 1 \in Nat
    BY <1>1, <1>2
  <2>2. late' = [late EXCEPT ![t] = [late[t] EXCEPT ![op] = late[t][op] - 1]]
    BY <1>2
  <2> QED
    BY <1>1, <1>2, <2>1, <2>2
<1>3. CASE /\ last[t] = Running
           /\ op = Command(step[t])
           /\ last' = [last EXCEPT ![t] = Exited(n)]
           /\ UNCHANGED late
  BY <1>1, <1>3 DEF CopyStates
<1> QED
  BY <1>2, <1>3 DEF ExitsWith

\* What the tool's steps do, transaction by transaction: a copy is launched
LEMMA Launched ==
  ASSUME TypeOK, NEW t \in Tx, Launch(t)
  PROVE  /\ UNCHANGED <<step, outcome, name, told, disk, snaps, rivals, invalid>>
         /\ Active(t) /\ copies[t] < MaxCopies
         /\ copies' \in [Tx -> 0..MaxCopies] /\ last' \in [Tx -> CopyStates]
         /\ \A u \in Tx : copies'[u] = IF u = t THEN copies[u] + 1 ELSE copies[u]
         /\ \A u \in Tx : last'[u] = IF u = t THEN Running ELSE last[u]
<1>1. copies \in [Tx -> 0..MaxCopies] /\ last \in [Tx -> CopyStates]
  BY DEF TypeOK, CopyStates
<1>2. copies[t] + 1 \in 0..MaxCopies
  BY <1>1, MaxCopiesAssumption DEF Launch
<1> QED
  BY <1>1, <1>2 DEF Launch, hostVars, CopyStates

\* a call is answered, and the tool goes on or ends
Goes(t, from, to) ==
  step[t] = from /\ step'[t] = to /\ outcome' = outcome
Ends(t, from, o) ==
  step[t] = from /\ step' = step /\ outcome'[t] = o

LEMMA AnswerTaken ==
  ASSUME TypeOK, NEW t \in Tx, Answered(t)
  PROVE  /\ UNCHANGED <<name, disk, snaps, rivals, invalid>> /\ Active(t) /\ LeaveBehind(t)
         /\ step' \in [Tx -> Steps] /\ outcome' \in [Tx -> Outcomes]
         /\ told' \in [Tx -> [Reported -> {"none", "ok", "failed"}]]
         /\ copies' \in [Tx -> 0..MaxCopies] /\ last' \in [Tx -> CopyStates]
         /\ \A u \in Tx : copies'[u] = IF u = t THEN 0 ELSE copies[u]
         /\ \A u \in Tx : last'[u] = IF u = t THEN NotStarted ELSE last[u]
         /\ \A u \in Tx \ {t} : step'[u] = step[u] /\ outcome'[u] = outcome[u]
                                /\ told'[u] = told[u]
         /\ \/ Goes(t, "snapshot", "exec") /\ last[t] = Exited(0)
            \/ Goes(t, "exec", "validate")
            \/ Goes(t, "validate", "commit") \/ Goes(t, "validate", "rollback")
            \/ Goes(t, "rollback", "cleanup")
            \/ Ends(t, "snapshot", "no_snapshot")
            \/ Ends(t, "commit", "committed") \/ Ends(t, "cleanup", "rolled_back")
         /\ \A op \in Reported :
              \/ told'[t][op] = told[t][op]
              \/ step[t] = op /\ told'[t][op] = "ok" /\ last[t] = Exited(0)
              \/ step[t] = op /\ told'[t][op] = "failed"
<1>t. /\ step \in [Tx -> Steps] /\ outcome \in [Tx -> Outcomes]
      /\ told \in [Tx -> [Reported -> {"none", "ok", "failed"}]]
      /\ copies \in [Tx -> 0..MaxCopies] /\ last \in [Tx -> CopyStates]
  BY DEF TypeOK, CopyStates
<1>1. PICK ok \in BOOLEAN :
        /\ ok => last[t] = Exited(0)
        /\ NextStep(t, ok)
        /\ told' = IF step[t] \in Reported
                     THEN [told EXCEPT ![t][step[t]] = IF ok THEN "ok" ELSE "failed"]
                     ELSE told
  BY DEF Answered
<1>2. /\ copies' = [copies EXCEPT ![t] = 0] /\ last' = [last EXCEPT ![t] = NotStarted]
      /\ UNCHANGED <<name, disk, snaps, rivals, invalid>> /\ Active(t) /\ LeaveBehind(t)
  BY DEF Answered, hostVars
<1>3. 0 \in 0..MaxCopies /\ NotStarted \in CopyStates
  BY MaxCopiesAssumption DEF CopyStates
<1>4. /\ copies' \in [Tx -> 0..MaxCopies] /\ last' \in [Tx -> CopyStates]
      /\ \A u \in Tx : copies'[u] = IF u = t THEN 0 ELSE copies[u]
      /\ \A u \in Tx : last'[u] = IF u = t THEN NotStarted ELSE last[u]
  BY <1>t, <1>2, <1>3
<1>5. ASSUME NEW s \in Steps, Goto(t, s)
      PROVE  /\ step' \in [Tx -> Steps] /\ step'[t] = s /\ outcome' = outcome
             /\ \A u \in Tx \ {t} : step'[u] = step[u]
  BY <1>t, <1>5 DEF Goto
<1>6. ASSUME NEW o \in Outcomes, End(t, o)
      PROVE  /\ outcome' \in [Tx -> Outcomes] /\ outcome'[t] = o /\ step' = step
             /\ \A u \in Tx \ {t} : outcome'[u] = outcome[u]
  BY <1>t, <1>6 DEF End
<1>7. step[t] \in Steps
  BY <1>t
<1>8. \/ step[t] = "snapshot" /\ last[t] = Exited(0) /\ Goto(t, "exec")
      \/ step[t] = "snapshot" /\ End(t, "no_snapshot")
      \/ step[t] = "exec" /\ Goto(t, "validate")
      \/ step[t] = "validate" /\ Goto(t, "commit")
      \/ step[t] = "validate" /\ Goto(t, "rollback")
      \/ step[t] = "commit" /\ End(t, "committed")
      \/ step[t] = "rollback" /\ Goto(t, "cleanup")
      \/ step[t] = "cleanup" /\ End(t, "rolled_back")
  <2>1. CASE step[t] = "snapshot"
    BY <1>1, <2>1 DEF NextStep
  <2>2. CASE step[t] = "exec"
    BY <1>1, <2>2 DEF NextStep
  <2>3. CASE step[t] = "validate"
    BY <1>1, <2>3 DEF NextStep
  <2>4. CASE step[t] = "commit"
    BY <1>1, <2>4 DEF NextStep
  <2>5. CASE step[t] = "rollback"
    BY <1>1, <2>5 DEF NextStep
  <2>6. CASE step[t] = "cleanup"
    BY <1>1, <2>6 DEF NextStep
  <2> QED
    BY <1>7, <2>1, <2>2, <2>3, <2>4, <2>5, <2>6 DEF Steps
<1>s. {"snapshot", "exec", "validate", "commit", "rollback", "cleanup"} \subseteq Steps
      /\ {"no_snapshot", "committed", "rolled_back"} \subseteq Outcomes
  BY DEF Steps, Outcomes
<1>9. /\ step' \in [Tx -> Steps] /\ outcome' \in [Tx -> Outcomes]
      /\ \A u \in Tx \ {t} : step'[u] = step[u] /\ outcome'[u] = outcome[u]
      /\ \/ Goes(t, "snapshot", "exec") /\ last[t] = Exited(0)
         \/ Goes(t, "exec", "validate")
         \/ Goes(t, "validate", "commit") \/ Goes(t, "validate", "rollback")
         \/ Goes(t, "rollback", "cleanup")
         \/ Ends(t, "snapshot", "no_snapshot")
         \/ Ends(t, "commit", "committed") \/ Ends(t, "cleanup", "rolled_back")
  BY <1>t, <1>5, <1>6, <1>8, <1>s DEF Goes, Ends
<1>10. /\ told' \in [Tx -> [Reported -> {"none", "ok", "failed"}]]
       /\ \A u \in Tx \ {t} : told'[u] = told[u]
       /\ \A op \in Reported :
            \/ told'[t][op] = told[t][op]
            \/ step[t] = op /\ told'[t][op] = "ok" /\ last[t] = Exited(0)
            \/ step[t] = op /\ told'[t][op] = "failed"
  <2>1. CASE step[t] \in Reported
    <3> DEFINE r == IF ok THEN "ok" ELSE "failed"
               k == step[t]
    <3>1. told' = [told EXCEPT ![t] = [told[t] EXCEPT ![k] = r]]
      BY <1>1, <2>1
    <3>2. r \in {"none", "ok", "failed"} /\ k \in Reported
          /\ told[t] \in [Reported -> {"none", "ok", "failed"}]
          /\ (r = "failed" \/ (r = "ok" /\ last[t] = Exited(0)))
      BY <1>1, <1>t, <2>1
    <3> HIDE DEF r
    <3> QED
      BY <1>t, <3>1, <3>2
  <2>2. CASE step[t] \notin Reported
    BY <1>1, <1>t, <2>2
  <2> QED
    BY <2>1, <2>2
<1> QED
  BY <1>2, <1>4, <1>9, <1>10

\* or the tool breaks off where it is.
LEMMA BrokenOff ==
  ASSUME TypeOK, NEW t \in Tx, BreaksOff(t)
  PROVE  /\ UNCHANGED <<step, name, told, disk, snaps, rivals, invalid>> /\ Active(t)
         /\ LeaveBehind(t) \/ UNCHANGED <<late, overran>>
         /\ outcome' \in [Tx -> Outcomes]
         /\ copies' \in [Tx -> 0..MaxCopies] /\ last' \in [Tx -> CopyStates]
         /\ \A u \in Tx : outcome'[u] = IF u = t THEN "broken_off" ELSE outcome[u]
         /\ \A u \in Tx : copies'[u] = IF u = t THEN 0 ELSE copies[u]
         /\ \A u \in Tx : last'[u] = IF u = t THEN NotStarted ELSE last[u]
<1>1. /\ outcome \in [Tx -> Outcomes] /\ "broken_off" \in Outcomes
      /\ copies \in [Tx -> 0..MaxCopies] /\ last \in [Tx -> CopyStates]
      /\ 0 \in 0..MaxCopies /\ NotStarted \in CopyStates
  BY MaxCopiesAssumption DEF TypeOK, CopyStates, Outcomes
<1> QED
  BY <1>1 DEF BreaksOff, End, hostVars

\* What the end of a copy does to the disk and the snapshots, and what is then noted.
Notes(t, op, n) ==
  rivals' = IF op = "exec" /\ n = 0
              THEN [rivals EXCEPT ![t] = {u \in Tx \ {t} : UnderWay(u)}] ELSE rivals

HostEffect(t, op, n) ==
  \/ (n = 1 \/ op = "validate") /\ disk' = disk /\ snaps' = snaps
  \/ /\ op = "snapshot" /\ n = 0 /\ snaps[name[t]] = {} /\ disk' = disk
     /\ \A m \in Names : snaps'[m] = IF m = name[t] THEN {disk} ELSE snaps[m]
  \/ op = "exec" /\ n = 0 /\ disk' = disk \cup {t} /\ snaps' = snaps
  \/ op = "rollback" /\ n = 0 /\ disk' \in snaps[name[t]] /\ snaps' = snaps
  \/ /\ op = "delete" /\ n = 0 /\ disk' = disk
     /\ \A m \in Names : snaps'[m] = IF m = name[t] THEN {} ELSE snaps[m]

LEMMA CopyEffect ==
  ASSUME TypeOK, NEW t \in Tx, CopyExits(t)
  PROVE  /\ UNCHANGED <<step, outcome, name, overran, told, copies>>
         /\ disk' \in SUBSET Tx /\ snaps' \in [Names -> SUBSET SUBSET Tx]
         /\ \A m \in Names : \A d, e \in snaps'[m] : d = e
         /\ rivals' \in [Tx -> SUBSET Tx] /\ invalid' \in SUBSET Tx
         /\ \E op \in Ops, n \in {0, 1} :
              ExitsWith(t, op, n) /\ HostEffect(t, op, n) /\ Notes(t, op, n)
<1>t. /\ disk \in SUBSET Tx /\ snaps \in [Names -> SUBSET SUBSET Tx] /\ name[t] \in Names
      /\ \A m \in Names : \A d, e \in snaps[m] : d = e
      /\ rivals \in [Tx -> SUBSET Tx] /\ invalid \in SUBSET Tx
  BY DEF TypeOK
<1>0. UNCHANGED <<step, outcome, name, overran, told, copies>>
  BY DEF CopyExits, toolVars
<1>o. {"snapshot", "exec", "validate", "rollback", "delete"} \subseteq Ops
  BY DEF Ops
<1> DEFINE Typed == /\ disk' \in SUBSET Tx /\ snaps' \in [Names -> SUBSET SUBSET Tx]
                    /\ \A m \in Names : \A d, e \in snaps'[m] : d = e
                    /\ rivals' \in [Tx -> SUBSET Tx] /\ invalid' \in SUBSET Tx
<1>1. CASE Fails(t)
  <2>1. PICK op \in Ops : ExitsWith(t, op, 1) /\ UNCHANGED hostVars
    BY <1>1 DEF Fails
  <2>2. HostEffect(t, op, 1) /\ Notes(t, op, 1) /\ Typed
    BY <1>t, <2>1 DEF HostEffect, Notes, hostVars
  <2> QED
    BY <1>0, <2>1, <2>2
<1>2. CASE Snapshots(t)
  <2>1. /\ snaps' = [snaps EXCEPT ![name[t]] = {disk}] /\ disk' = disk
        /\ snaps[name[t]] = {} /\ ExitsWith(t, "snapshot", 0)
        /\ UNCHANGED <<rivals, invalid>>
    BY <1>2 DEF Snapshots
  <2>2. Typed
    BY <1>t, <2>1
  <2>3. HostEffect(t, "snapshot", 0) /\ Notes(t, "snapshot", 0)
    BY <1>t, <2>1 DEF HostEffect, Notes
  <2> QED
    BY <1>0, <1>o, <2>1, <2>2, <2>3
<1>3. CASE Executes(t)
  <2>1. ExitsWith(t, "exec", 0) /\ HostEffect(t, "exec", 0) /\ Notes(t, "exec", 0)
    BY <1>3, <1>t DEF Executes, HostEffect, Notes
  <2>2. Typed
    <3>1. {u \in Tx \ {t} : UnderWay(u)} \in SUBSET Tx
      OBVIOUS
    <3> QED
      BY <1>3, <1>t, <3>1 DEF Executes
  <2> QED
    BY <1>0, <1>o, <2>1, <2>2
<1>4. CASE Validates(t)
  <2>1. /\ ExitsWith(t, "validate", 0) /\ HostEffect(t, "validate", 0)
        /\ Notes(t, "validate", 0) /\ Typed
    BY <1>4, <1>t DEF Validates, HostEffect, Notes
  <2> QED
    BY <1>0, <1>o, <2>1
<1>5. CASE RollsBack(t)
  <2>1. /\ ExitsWith(t, "rollback", 0) /\ HostEffect(t, "rollback", 0)
        /\ Notes(t, "rollback", 0) /\ Typed
    BY <1>5, <1>t DEF RollsBack, HostEffect, Notes
  <2> QED
    BY <1>0, <1>o, <2>1
<1>6. CASE Deletes(t)
  <2>1. /\ snaps' = [snaps EXCEPT ![name[t]] = {}] /\ disk' = disk
        /\ ExitsWith(t, "delete", 0) /\ UNCHANGED <<rivals, invalid>>
    BY <1>6 DEF Deletes
  <2>2. Typed
    BY <1>t, <2>1
  <2>3. HostEffect(t, "delete", 0) /\ Notes(t, "delete", 0)
    BY <1>t, <2>1 DEF HostEffect, Notes
  <2> QED
    BY <1>0, <1>o, <2>1, <2>2, <2>3
<1> QED
  BY <1>0, <1>1, <1>2, <1>3, <1>4, <1>5, <1>6 DEF CopyExits

--------------------------------------------------------------------------------
LEMMA TypesStep ==
  ASSUME TypeOK, [Next]_vars
  PROVE  TypeOK'
<1>1. CASE UNCHANGED vars
  BY <1>1 DEF vars, toolVars, callVars, hostVars, TypeOK
<1>2. ASSUME NEW t \in Tx, Launch(t) PROVE TypeOK'
  BY <1>2, Launched, LeftBehind DEF Launch, TypeOK, CopyStates
<1>3. ASSUME NEW t \in Tx, Answered(t) PROVE TypeOK'
  BY <1>3, AnswerTaken, LeftBehind DEF TypeOK, CopyStates
<1>4. ASSUME NEW t \in Tx, BreaksOff(t) PROVE TypeOK'
  <2>1. late' \in [Tx -> [Ops -> Nat]] /\ overran' \in [Tx -> BOOLEAN]
    BY <1>4, BrokenOff, LeftBehind DEF TypeOK
  <2> QED
    BY <1>4, <2>1, BrokenOff DEF TypeOK, CopyStates
<1>5. ASSUME NEW t \in Tx, CopyExits(t) PROVE TypeOK'
  <2>1. late' \in [Tx -> [Ops -> Nat]] /\ last' \in [Tx -> CopyStates]
    BY <1>5, CopyEffect, CopyEnds
  <2> QED
    BY <1>5, <2>1, CopyEffect DEF TypeOK, CopyStates
<1> QED
  BY <1>1, <1>2, <1>3, <1>4, <1>5 DEF Next

LEMMA PlaceInit == Init => PInv
<1> SUFFICES ASSUME Init PROVE PInv
  OBVIOUS
<1>1. TypeOK
  BY MaxCopiesAssumption DEF Init, TypeOK, Steps, Outcomes
<1>2. ASSUME NEW t \in Tx PROVE Place(t)
  BY DEF Init, Place, Active, Ops, Reported
<1> QED
  BY <1>1, <1>2 DEF PInv

LEMMA OtherPlace ==
  ASSUME NEW u \in Tx, Place(u), copies'[u] = copies[u], last'[u] = last[u],
         outcome'[u] = outcome[u], step'[u] = step[u], told'[u] = told[u],
         overran'[u] <=> overran[u], \A op \in Ops : late'[u][op] = late[u][op]
  PROVE  Place(u)'
BY DEF Place, Active, Ops

LEMMA PlaceStep ==
  ASSUME PInv, [Next]_vars, NEW u \in Tx
  PROVE  Place(u)'
<1>0. TypeOK /\ Place(u)
  BY DEF PInv
<1>t. /\ step[u] \in Steps /\ copies[u] \in Nat /\ late[u] \in [Ops -> Nat]
      /\ \A op \in Ops : late[u][op] \in Nat
  BY <1>0, MaxCopiesAssumption DEF TypeOK
<1>o. {"snapshot", "exec", "validate", "rollback", "delete"} \subseteq Ops
      /\ {"exec", "rollback"} \subseteq Reported
  BY DEF Ops, Reported
<1>c. /\ Command(step[u]) = "delete" <=> step[u] \in {"commit", "cleanup"}
      /\ Command(step[u]) = "rollback" <=> step[u] = "rollback"
      /\ Command(step[u]) = "exec" <=> step[u] = "exec"
  BY <1>t, CommandOf
<1>d. NotStarted # Running
  BY CopyStatesDiffer
<1>1. CASE UNCHANGED vars
  BY <1>0, <1>1 DEF vars, toolVars, callVars, hostVars, Place, Active
<1>2. ASSUME NEW t \in Tx, Launch(t) PROVE Place(u)'
  <2>1. /\ UNCHANGED <<step, outcome, told>>
        /\ Active(t) /\ copies[t] < MaxCopies
        /\ copies'[u] = IF u = t THEN copies[u] + 1 ELSE copies[u]
        /\ last'[u] = IF u = t THEN Running ELSE last[u]
    BY <1>0, <1>2, Launched
  <2>2. /\ \A op \in Ops :
             late'[u][op] = IF u = t /\ op = Command(step[t]) /\ last[t] = Running
                            THEN late[u][op] + 1 ELSE late[u][op]
        /\ overran'[u] <=> overran[u] \/ (u = t /\ last[t] = Running /\ step[t] = "exec")
    BY <1>0, <1>2, LeftBehind DEF Launch
  <2>3. CASE u = t
    <3>1. copies'[u] # 0 /\ (MaxCopies = 1 => last[u] = NotStarted)
      BY <1>0, <1>t, <2>1, <2>3, MaxCopiesAssumption DEF Place
    <3> QED
      BY <1>0, <1>t, <1>o, <1>c, <1>d, <2>1, <2>2, <2>3, <3>1 DEF Place, Active
  <2>4. CASE u # t
    BY <1>0, <2>1, <2>2, <2>4, OtherPlace
  <2> QED
    BY <2>3, <2>4
<1>3. ASSUME NEW t \in Tx, Answered(t) PROVE Place(u)'
  <2>1. /\ \A op \in Ops :
             late'[u][op] = IF u = t /\ op = Command(step[t]) /\ last[t] = Running
                            THEN late[u][op] + 1 ELSE late[u][op]
        /\ overran'[u] <=> overran[u] \/ (u = t /\ last[t] = Running /\ step[t] = "exec")
    BY <1>0, <1>3, AnswerTaken, LeftBehind
  <2>2. CASE u = t
    <3>1. /\ Active(u) /\ copies'[u] = 0 /\ last'[u] = NotStarted
          /\ \/ Goes(u, "snapshot", "exec") /\ last[u] = Exited(0)
             \/ Goes(u, "exec", "validate")
             \/ Goes(u, "validate", "commit") \/ Goes(u, "validate", "rollback")
             \/ Goes(u, "rollback", "cleanup")
             \/ Ends(u, "snapshot", "no_snapshot")
             \/ Ends(u, "commit", "committed") \/ Ends(u, "cleanup", "rolled_back")
          /\ \A op \in Reported :
               \/ told'[u][op] = told[u][op]
               \/ step[u] = op /\ told'[u][op] = "ok" /\ last[u] = Exited(0)
               \/ step[u] = op /\ told'[u][op] = "failed"
      BY <1>0, <1>3, <2>2, AnswerTaken
    <3>2. /\ copies'[u] = 0 => last'[u] = NotStarted
          /\ ~Active(u)' => last'[u] = NotStarted /\ copies'[u] = 0
      BY <3>1
    <3>3. /\ late'[u]["delete"] > 0 => step'[u] \in {"commit", "cleanup"}
          /\ late'[u]["rollback"] > 0 => step'[u] \in {"rollback", "cleanup"}
          /\ late'[u]["exec"] > 0 => step'[u] # "snapshot" /\ overran'[u]
      BY <1>0, <1>t, <1>o, <1>c, <2>1, <2>2, <3>1 DEF Place, Goes, Ends
    <3>4. MaxCopies = 1 => late'[u]["delete"] <= 1 /\ (Active(u)' => late'[u]["delete"] = 0)
      BY <1>0, <1>t, <1>o, <1>c, <2>1, <2>2, <3>1 DEF Place, Active, Goes, Ends
    <3>5. /\ told'[u]["exec"] = "ok" => step'[u] \notin {"snapshot", "exec"}
          /\ told'[u]["rollback"] = "ok" => step'[u] = "cleanup"
          /\ outcome'[u] = "committed" => step'[u] = "commit"
      BY <1>0, <1>o, <3>1 DEF Place, Active, Goes, Ends
    <3> QED
      BY <3>2, <3>3, <3>4, <3>5 DEF Place
  <2>3. CASE u # t
    BY <1>0, <1>3, <2>1, <2>3, AnswerTaken, OtherPlace
  <2> QED
    BY <2>2, <2>3
<1>4. ASSUME NEW t \in Tx, BreaksOff(t) PROVE Place(u)'
  <2>1. /\ UNCHANGED <<step, told>> /\ Active(t)
        /\ LeaveBehind(t) \/ UNCHANGED <<late, overran>>
        /\ outcome'[u] = IF u = t THEN "broken_off" ELSE outcome[u]
        /\ copies'[u] = IF u = t THEN 0 ELSE copies[u]
        /\ last'[u] = IF u = t THEN NotStarted ELSE last[u]
    BY <1>0, <1>4, BrokenOff
  <2>2. \/ \A op \in Ops : late'[u][op] = late[u][op] /\ overran'[u] = overran[u]
        \/ /\ \A op \in Ops :
                late'[u][op] = IF u = t /\ op = Command(step[t]) /\ last[t] = Running
                               THEN late[u][op] + 1 ELSE late[u][op]
           /\ overran'[u] <=> overran[u] \/ (u = t /\ last[t] = Running /\ step[t] = "exec")
    BY <1>0, <2>1, LeftBehind
  <2>3. CASE u = t
    BY <1>0, <1>t, <1>o, <1>c, <2>1, <2>2, <2>3 DEF Place, Active
  <2>4. CASE u # t
    BY <1>0, <1>o, <2>1, <2>2, <2>4, OtherPlace
  <2> QED
    BY <2>3, <2>4
<1>5. ASSUME NEW t \in Tx, CopyExits(t) PROVE Place(u)'
  <2>1. UNCHANGED <<step, outcome, overran, told, copies>>
    BY <1>0, <1>5, CopyEffect
  <2>2. PICK op \in Ops, n \in {0, 1} : ExitsWith(t, op, n)
    BY <1>0, <1>5, CopyEffect
  <2>3. \/ /\ last' = last /\ late[t][op] > 0
           /\ \A k \in Ops :
                late'[u][k] = IF u = t /\ k = op THEN late[u][k] - 1 ELSE late[u][k]
        \/ /\ last[t] = Running /\ late' = late
           /\ last'[u] = IF u = t THEN Exited(n) ELSE last[u]
    BY <1>0, <2>2, CopyEnds
  <2>4. CASE u = t
    BY <1>0, <1>t, <1>o, <1>d, <2>1, <2>3, <2>4 DEF Place, Active
  <2>5. CASE u # t
    BY <1>0, <2>1, <2>3, <2>5, OtherPlace
  <2> QED
    BY <2>4, <2>5
<1> QED
  BY <1>1, <1>2, <1>3, <1>4, <1>5 DEF Next

LEMMA PInvStep == PInv /\ [Next]_vars => PInv'
BY TypesStep, PlaceStep DEF PInv

--------------------------------------------------------------------------------
(***************************************************************************)
(* Who holds a snapshot.                                                    *)
(***************************************************************************)

\* t made the snapshot of its name and has not begun to delete it.
HoldsNet(t) ==
  \/ step[t] \in {"exec", "validate", "rollback"}
  \/ step[t] = "snapshot" /\ last[t] = Exited(0)

\* A copy of t's deletion may still be launched, or runs.
MayDelete(t) ==
  /\ step[t] \in {"commit", "cleanup"}
  /\ (Active(t) /\ (copies[t] = 0 \/ last[t] = Running)) \/ late[t]["delete"] > 0

Holder(t) == HoldsNet(t) \/ MayDelete(t)

\* Where every call launches one copy, a name's snapshot has one holder at most.
OneHolder ==
  MaxCopies = 1 =>
    /\ \A t \in Tx : Holder(t) => snaps[name[t]] # {}
    /\ \A t, u \in Tx : Holder(t) /\ Holder(u) /\ name[t] = name[u] => t = u

\* A holder stays one only by what it does itself.
LEMMA SameHolder ==
  ASSUME NEW u \in Tx, copies'[u] = copies[u], last'[u] = last[u], outcome'[u] = outcome[u],
         step'[u] = step[u], late'[u]["delete"] = late[u]["delete"]
  PROVE  Holder(u)' <=> Holder(u)
BY DEF Holder, HoldsNet, MayDelete, Active

\* The tool's steps never make a holder where every call launches one copy.
LEMMA ToolMakesNoHolder ==
  ASSUME PInv, MaxCopies = 1, NEW t \in Tx, Launch(t) \/ Answered(t) \/ BreaksOff(t),
         NEW u \in Tx, Holder(u)'
  PROVE  Holder(u)
<1>0. TypeOK /\ Place(u)
  BY DEF PInv
<1>t. /\ step[u] \in Steps /\ copies[u] \in Nat /\ late[u]["delete"] \in Nat
  BY <1>0, MaxCopiesAssumption DEF TypeOK, Ops
<1>c. "delete" \in Ops /\ (Command(step[u]) = "delete" <=> step[u] \in {"commit", "cleanup"})
  BY <1>t, CommandOf DEF Ops
<1>d. Running # Exited(0) /\ NotStarted # Running /\ NotStarted # Exited(0)
  BY CopyStatesDiffer
<1>1. CASE Launch(t)
  <2>1. /\ UNCHANGED <<step, outcome>> /\ Active(t) /\ copies[t] < MaxCopies
        /\ copies'[u] = IF u = t THEN copies[u] + 1 ELSE copies[u]
        /\ last'[u] = IF u = t THEN Running ELSE last[u]
    BY <1>0, <1>1, Launched
  <2>l. late'[u]["delete"] = IF u = t /\ "delete" = Command(step[t]) /\ last[t] = Running
                             THEN late[u]["delete"] + 1 ELSE late[u]["delete"]
    BY <1>0, <1>1, <1>c, LeftBehind DEF Launch
  <2>2. CASE u = t
    <3>1. copies[u] = 0 /\ last[u] = NotStarted
      BY <1>0, <1>t, <2>1, <2>2 DEF Place
    <3> QED
      BY <1>0, <1>t, <1>c, <1>d, <2>1, <2>l, <2>2, <3>1 DEF Holder, HoldsNet, MayDelete, Active
  <2>3. CASE u # t
    BY <2>1, <2>l, <2>3, SameHolder
  <2> QED
    BY <2>2, <2>3
<1>2. CASE Answered(t)
  <2>1. /\ copies'[u] = IF u = t THEN 0 ELSE copies[u]
        /\ last'[u] = IF u = t THEN NotStarted ELSE last[u]
        /\ late'[u]["delete"] = IF u = t /\ "delete" = Command(step[t]) /\ last[t] = Running
                                THEN late[u]["delete"] + 1 ELSE late[u]["delete"]
        /\ u # t => step'[u] = step[u] /\ outcome'[u] = outcome[u]
    BY <1>0, <1>2, <1>c, AnswerTaken, LeftBehind
  <2>2. CASE u = t
    <3>1. /\ Active(u)
          /\ \/ Goes(u, "snapshot", "exec") /\ last[u] = Exited(0)
             \/ Goes(u, "exec", "validate")
             \/ Goes(u, "validate", "commit") \/ Goes(u, "validate", "rollback")
             \/ Goes(u, "rollback", "cleanup")
             \/ Ends(u, "snapshot", "no_snapshot")
             \/ Ends(u, "commit", "committed") \/ Ends(u, "cleanup", "rolled_back")
      BY <1>0, <1>2, <2>2, AnswerTaken
    <3> QED
      BY <1>0, <1>t, <1>c, <1>d, <2>1, <2>2, <3>1
         DEF Holder, HoldsNet, MayDelete, Active, Goes, Ends
  <2>3. CASE u # t
    BY <2>1, <2>3, SameHolder
  <2> QED
    BY <2>2, <2>3
<1>3. CASE BreaksOff(t)
  <2>1. /\ UNCHANGED step /\ Active(t)
        /\ outcome'[u] = IF u = t THEN "broken_off" ELSE outcome[u]
        /\ copies'[u] = IF u = t THEN 0 ELSE copies[u]
        /\ last'[u] = IF u = t THEN NotStarted ELSE last[u]
        /\ \/ late'[u]["delete"] = late[u]["delete"]
           \/ late'[u]["delete"] = IF u = t /\ "delete" = Command(step[t]) /\ last[t] = Running
                                   THEN late[u]["delete"] + 1 ELSE late[u]["delete"]
    BY <1>0, <1>3, <1>c, BrokenOff, LeftBehind
  <2>2. CASE u = t
    BY <1>0, <1>t, <1>c, <1>d, <2>1, <2>2 DEF Holder, HoldsNet, MayDelete, Active
  <2>3. CASE u # t
    BY <2>1, <2>3, SameHolder
  <2> QED
    BY <2>2, <2>3
<1> QED
  BY <1>1, <1>2, <1>3

\* The end of a copy makes a holder only by making the snapshot.
LEMMA CopyMakesHolder ==
  ASSUME PInv, NEW t \in Tx, NEW op \in Ops, NEW n \in {0, 1}, ExitsWith(t, op, n),
         UNCHANGED <<step, outcome, copies>>, NEW u \in Tx, Holder(u)', ~Holder(u)
  PROVE  u = t /\ op = "snapshot" /\ n = 0
<1>0. TypeOK /\ step[u] \in Steps /\ late[u]["delete"] \in Nat /\ "delete" \in Ops
  BY DEF PInv, TypeOK, Ops
<1>d. Exited(0) # Exited(1) /\ Running # Exited(0) /\ Running # Exited(1)
  BY CopyStatesDiffer
<1>1. \/ /\ last' = last /\ late[t][op] > 0
         /\ \A k \in Ops :
              late'[u][k] = IF u = t /\ k = op THEN late[u][k] - 1 ELSE late[u][k]
      \/ /\ last[t] = Running /\ op = Command(step[t]) /\ late' = late
         /\ last'[u] = IF u = t THEN Exited(n) ELSE last[u]
  BY <1>0, CopyEnds
<1>2. CASE last' = last
  BY <1>0, <1>1, <1>2 DEF Holder, HoldsNet, MayDelete, Active
<1>3. CASE last' # last
  <2>1. op = Command(step[t]) /\ late' = late /\ last'[u] = IF u = t THEN Exited(n) ELSE last[u]
    BY <1>1, <1>3
  <2>2. u = t
    BY <2>1, SameHolder
  <2>3. step[u] = "snapshot" /\ n = 0
    BY <1>0, <1>d, <2>1, <2>2 DEF Holder, HoldsNet, MayDelete, Active
  <2> QED
    BY <1>0, <2>1, <2>2, <2>3, CommandOf
<1> QED
  BY <1>2, <1>3

LEMMA OneHolderStep ==
  ASSUME PInv, OneHolder, [Next]_vars
  PROVE  OneHolder'
<1>0. TypeOK /\ name \in [Tx -> Names] /\ snaps \in [Names -> SUBSET SUBSET Tx]
  BY DEF PInv, TypeOK
<1> SUFFICES ASSUME MaxCopies = 1
             PROVE  /\ \A t \in Tx : Holder(t)' => snaps'[name'[t]] # {}
                    /\ \A t, u \in Tx : Holder(t)' /\ Holder(u)' /\ name'[t] = name'[u] => t = u
  BY DEF OneHolder
<1>h. /\ \A t \in Tx : Holder(t) => snaps[name[t]] # {}
      /\ \A t, u \in Tx : Holder(t) /\ Holder(u) /\ name[t] = name[u] => t = u
  BY DEF OneHolder
<1>1. CASE UNCHANGED vars
  <2>1. \A u \in Tx : Holder(u)' <=> Holder(u)
    BY <1>1 DEF vars, toolVars, callVars, hostVars, Holder, HoldsNet, MayDelete, Active
  <2>2. name' = name /\ snaps' = snaps
    BY <1>1 DEF vars, toolVars, hostVars
  <2> QED
    BY <1>h, <2>1, <2>2
<1>2. ASSUME NEW t \in Tx, Launch(t) \/ Answered(t) \/ BreaksOff(t)
      PROVE  /\ \A u \in Tx : Holder(u)' => snaps'[name'[u]] # {}
             /\ \A v, u \in Tx : Holder(v)' /\ Holder(u)' /\ name'[v] = name'[u] => v = u
  <2>1. name' = name /\ snaps' = snaps
    BY <1>0, <1>2, Launched, AnswerTaken, BrokenOff
  <2>2. \A u \in Tx : Holder(u)' => Holder(u)
    BY <1>2, ToolMakesNoHolder
  <2> QED
    BY <1>h, <2>1, <2>2
<1>3. ASSUME NEW t \in Tx, CopyExits(t)
      PROVE  /\ \A u \in Tx : Holder(u)' => snaps'[name'[u]] # {}
             /\ \A v, u \in Tx : Holder(v)' /\ Holder(u)' /\ name'[v] = name'[u] => v = u
  <2>1. UNCHANGED <<step, outcome, name, copies>>
    BY <1>0, <1>3, CopyEffect
  <2>2. PICK op \in Ops, n \in {0, 1} : ExitsWith(t, op, n) /\ HostEffect(t, op, n)
    BY <1>0, <1>3, CopyEffect
  <2>n. \A u \in Tx : name[u] \in Names
    BY <1>0
  <2>3. CASE op = "snapshot" /\ n = 0
    <3>1. /\ snaps[name[t]] = {}
          /\ \A m \in Names : snaps'[m] = IF m = name[t] THEN {disk} ELSE snaps[m]
      BY <2>2, <2>3 DEF HostEffect
    <3>2. \A u \in Tx : Holder(u)' => Holder(u) \/ u = t
      BY <2>1, <2>2, CopyMakesHolder
    <3>3. \A u \in Tx : name[u] = name[t] => ~Holder(u)
      BY <1>h, <3>1
    <3> QED
      BY <1>h, <2>1, <2>n, <3>1, <3>2, <3>3
  <2>4. CASE op = "delete" /\ n = 0
    <3>1. \A m \in Names : snaps'[m] = IF m = name[t] THEN {} ELSE snaps[m]
      BY <2>2, <2>4 DEF HostEffect
    <3>2. \A u \in Tx : Holder(u)' => Holder(u)
      BY <2>1, <2>2, <2>4, CopyMakesHolder
    <3>3. Holder(t) /\ ~Holder(t)'
      <4>1. /\ Place(t) /\ step[t] \in Steps /\ copies[t] \in Nat /\ late[t]["delete"] \in Nat
            /\ last[t] \in CopyStates
        <5>1. Place(t) /\ step[t] \in Steps /\ copies[t] \in Nat
          BY <1>0, MaxCopiesAssumption DEF PInv, TypeOK
        <5>2. late[t]["delete"] \in Nat /\ last[t] \in CopyStates
          BY <1>0 DEF TypeOK, Ops, CopyStates
        <5> QED
          BY <5>1, <5>2
      <4>2. \/ /\ last' = last /\ late[t]["delete"] > 0
               /\ late'[t]["delete"] = late[t]["delete"] - 1
            \/ /\ last[t] = Running /\ "delete" = Command(step[t]) /\ late' = late
               /\ last'[t] = Exited(0)
        BY <1>0, <2>2, <2>4, CopyEnds
      <4>3. step[t] \in {"commit", "cleanup"}
        BY <4>1, <4>2, CommandOf DEF Place
      <4>4. CASE last' = last /\ late[t]["delete"] > 0
                 /\ late'[t]["delete"] = late[t]["delete"] - 1
        BY <2>1, <4>1, <4>3, <4>4 DEF Place, Holder, HoldsNet, MayDelete, Active
      <4>5. CASE last[t] = Running /\ late' = late /\ last'[t] = Exited(0)
        BY <2>1, <4>1, <4>3, <4>5, CopyStatesDiffer
           DEF Place, Holder, HoldsNet, MayDelete, Active
      <4> QED
        BY <4>2, <4>4, <4>5
    <3> QED
      BY <1>h, <2>1, <2>n, <3>1, <3>2, <3>3
  <2>5. CASE ~(op \in {"snapshot", "delete"} /\ n = 0)
    <3>1. snaps' = snaps
      BY <2>2, <2>5 DEF HostEffect
    <3>2. \A u \in Tx : Holder(u)' => Holder(u)
      BY <2>1, <2>2, <2>5, CopyMakesHolder
    <3> QED
      BY <1>h, <2>1, <3>1, <3>2
  <2> QED
    BY <2>3, <2>4, <2>5
<1> QED
  BY <1>1, <1>2, <1>3 DEF Next

--------------------------------------------------------------------------------
(***************************************************************************)
(* What is in a snapshot.                                                   *)
(***************************************************************************)

\* Nobody but t deals with the snapshot t holds.
Own(t) == MaxCopies = 1 \/ \A u \in Tx \ {t} : name[u] # name[t]

\* No trace of t in the snapshot of its name
Without(t) == \A d \in snaps[name[t]] : t \notin d

\* A transaction that still makes its snapshot has left no trace anywhere.
Clean(t) ==
  step[t] = "snapshot" => t \notin disk /\ \A n \in Names : \A d \in snaps[n] : t \notin d

\* The snapshot a transaction holds is there and has no trace of it.
Net(t) == Own(t) /\ HoldsNet(t) => snaps[name[t]] # {} /\ Without(t)

\* A transaction that has rolled back with success has left no trace.
Undone(t) ==
  /\ Own(t) /\ ~overran[t] /\ OthersNeverRollBack(t)
  /\ (step[t] = "rollback" /\ last[t] = Exited(0)) \/ told[t]["rollback"] = "ok"
  => t \notin disk /\ Without(t)

\* u has its snapshot, and may still roll back to it.
MayRollBack(u) ==
  /\ Active(u) \/ late[u]["rollback"] > 0
  /\ step[u] # "snapshot" \/ last[u] = Exited(0)

\* t's command went well.
HasRun(t) == (step[t] = "exec" /\ last[t] = Exited(0)) \/ told[t]["exec"] = "ok"

\* Its effect may be lost: t itself has gone on to roll back, or a rival has.
Lost(t) == \E u \in rivals[t] \cup {t} : step[u] \in {"rollback", "cleanup"}

\* A command that went well is on the disk until then, and on the disk of before of every
\* later transaction.
Kept(t) ==
  HasRun(t) /\ ~Lost(t) =>
    /\ t \in disk
    /\ \A u \in Tx \ (rivals[t] \cup {t}) :
         MayRollBack(u) => \A d \in snaps[name[u]] : t \in d

SnapInv == \A t \in Tx : Clean(t) /\ Net(t) /\ Undone(t) /\ Kept(t)

\* Names are never changed, and whoever has begun to roll back has not only just begun.
LEMMA Steadfast ==
  ASSUME TypeOK, [Next]_vars
  PROVE  /\ name' = name
         /\ \A u \in Tx : /\ step'[u] = "snapshot" => step[u] = "snapshot"
                          /\ step[u] \in {"rollback", "cleanup"} =>
                               step'[u] \in {"rollback", "cleanup"}
                          /\ overran[u] => overran'[u]
<1>1. CASE UNCHANGED vars
  BY <1>1 DEF vars, toolVars
<1>2. ASSUME NEW t \in Tx, Launch(t) \/ BreaksOff(t)
      PROVE  /\ name' = name /\ step' = step
             /\ \A u \in Tx : overran[u] => overran'[u]
  BY <1>2, Launched, BrokenOff, LeftBehind DEF Launch
<1>3. ASSUME NEW t \in Tx, Answered(t), NEW u \in Tx
      PROVE  /\ name' = name /\ (overran[u] => overran'[u])
             /\ step'[u] = "snapshot" => step[u] = "snapshot"
             /\ step[u] \in {"rollback", "cleanup"} => step'[u] \in {"rollback", "cleanup"}
  BY <1>3, AnswerTaken, LeftBehind DEF Goes, Ends
<1>4. ASSUME NEW t \in Tx, CopyExits(t)
      PROVE  name' = name /\ step' = step /\ overran' = overran
  BY <1>4, CopyEffect
<1> QED
  BY <1>1, <1>2, <1>3, <1>4 DEF Next

\* The tool's steps never make a transaction one that may roll back: that takes the end of
\* its snapshot.
LEMMA ToolMakesNoRollBack ==
  ASSUME PInv, NEW t \in Tx, Launch(t) \/ Answered(t) \/ BreaksOff(t),
         NEW u \in Tx, MayRollBack(u)'
  PROVE  MayRollBack(u)
<1>0. TypeOK /\ "rollback" \in Ops
  BY DEF PInv, Ops
<1>d. Running # Exited(0) /\ NotStarted # Exited(0)
  BY CopyStatesDiffer
<1>1. Active(t)
  BY <1>0, Launched, AnswerTaken, BrokenOff
<1>2. LeaveBehind(t) \/ UNCHANGED <<late, overran>>
  BY DEF Launch, Answered, BreaksOff
<1>3. u # t => late'[u]["rollback"] = late[u]["rollback"]
  BY <1>0, <1>2, LeftBehind
<1>4. CASE u = t
  <2>1. CASE Launch(t)
    <3>1. step'[u] = step[u] /\ last'[u] = Running
      BY <1>0, <1>4, <2>1, Launched
    <3> QED
      BY <1>1, <1>4, <1>d, <3>1 DEF MayRollBack
  <2>2. CASE BreaksOff(t)
    <3>1. step'[u] = step[u] /\ last'[u] = NotStarted
      BY <1>0, <1>4, <2>2, BrokenOff
    <3> QED
      BY <1>1, <1>4, <1>d, <3>1 DEF MayRollBack
  <2>3. CASE Answered(t)
    <3>1. /\ last'[u] = NotStarted
          /\ \/ Goes(u, "snapshot", "exec") /\ last[u] = Exited(0)
             \/ Goes(u, "exec", "validate")
             \/ Goes(u, "validate", "commit") \/ Goes(u, "validate", "rollback")
             \/ Goes(u, "rollback", "cleanup")
             \/ Ends(u, "snapshot", "no_snapshot")
             \/ Ends(u, "commit", "committed") \/ Ends(u, "cleanup", "rolled_back")
      BY <1>0, <1>4, <2>3, AnswerTaken
    <3> QED
      BY <1>1, <1>4, <1>d, <3>1 DEF MayRollBack, Goes, Ends
  <2> QED
    BY <2>1, <2>2, <2>3
<1>5. CASE u # t
  <2>1. step'[u] = step[u] /\ last'[u] = last[u] /\ outcome'[u] = outcome[u]
    BY <1>0, <1>5, Launched, AnswerTaken, BrokenOff
  <2> QED
    BY <1>3, <1>5, <2>1 DEF MayRollBack, Active
<1> QED
  BY <1>4, <1>5

\* The end of a copy makes one only by making its snapshot.
LEMMA CopyMakesRollBack ==
  ASSUME PInv, NEW t \in Tx, NEW op \in Ops, NEW n \in {0, 1}, ExitsWith(t, op, n),
         UNCHANGED <<step, outcome>>, NEW u \in Tx, MayRollBack(u)', ~MayRollBack(u)
  PROVE  u = t /\ op = "snapshot" /\ n = 0
<1>0. TypeOK /\ step[u] \in Steps /\ late[u]["rollback"] \in Nat /\ "rollback" \in Ops
  BY DEF PInv, TypeOK, Ops
<1>d. Exited(0) # Exited(1)
  BY CopyStatesDiffer
<1>1. \/ /\ last' = last /\ late[t][op] > 0
         /\ \A k \in Ops :
              late'[u][k] = IF u = t /\ k = op THEN late[u][k] - 1 ELSE late[u][k]
      \/ /\ last[t] = Running /\ op = Command(step[t]) /\ late' = late
         /\ last'[u] = IF u = t THEN Exited(n) ELSE last[u]
  BY <1>0, CopyEnds
<1>2. late'[u]["rollback"] > 0 => late[u]["rollback"] > 0
  BY <1>0, <1>1
<1>3. step[u] = "snapshot" /\ last'[u] = Exited(0) /\ last[u] # Exited(0)
  BY <1>2 DEF MayRollBack, Active
<1> QED
  BY <1>0, <1>1, <1>3, <1>d, CommandOf

\* Whoever may roll back is under way.
LEMMA RollBackIsUnderWay ==
  ASSUME PInv, NEW u \in Tx, MayRollBack(u)
  PROVE  UnderWay(u)
<1>1. Place(u) /\ copies[u] \in Nat
  BY MaxCopiesAssumption DEF PInv, TypeOK
<1> QED
  BY <1>1, CopyStatesDiffer DEF Place, MayRollBack, UnderWay

\* The tool's steps never change the host, so they keep what is said of it unless they
\* come to a place where more is said.
LEMMA ToolKeepsSnaps ==
  ASSUME PInv, SnapInv, NEW t \in Tx, Launch(t) \/ Answered(t) \/ BreaksOff(t)
  PROVE  SnapInv'
<1>0. TypeOK /\ name' = name /\ disk' = disk /\ snaps' = snaps /\ rivals' = rivals
  BY Launched, AnswerTaken, BrokenOff DEF PInv
<1>1. [Next]_vars
  BY DEF Next
<1>2. ASSUME NEW u \in Tx
      PROVE  /\ HoldsNet(u)' => HoldsNet(u)
             /\ (step'[u] = "rollback" /\ last'[u] = Exited(0)) \/ told'[u]["rollback"] = "ok" =>
                  (step[u] = "rollback" /\ last[u] = Exited(0)) \/ told[u]["rollback"] = "ok"
             /\ (step'[u] = "exec" /\ last'[u] = Exited(0)) \/ told'[u]["exec"] = "ok" =>
                  (step[u] = "exec" /\ last[u] = Exited(0)) \/ told[u]["exec"] = "ok"
  <2>d. Running # Exited(0) /\ NotStarted # Exited(0)
    BY CopyStatesDiffer
  <2>1. CASE Launch(t)
    <3>1. /\ UNCHANGED <<step, told>> /\ last'[u] = IF u = t THEN Running ELSE last[u]
      BY <1>0, <2>1, Launched
    <3> QED
      BY <2>d, <3>1 DEF HoldsNet
  <2>2. CASE BreaksOff(t)
    <3>1. /\ UNCHANGED <<step, told>> /\ last'[u] = IF u = t THEN NotStarted ELSE last[u]
      BY <1>0, <2>2, BrokenOff
    <3> QED
      BY <2>d, <3>1 DEF HoldsNet
  <2>3. CASE Answered(t) /\ u # t
    <3>1. step'[u] = step[u] /\ told'[u] = told[u] /\ last'[u] = last[u]
      BY <1>0, <2>3, AnswerTaken
    <3> QED
      BY <3>1 DEF HoldsNet
  <2>4. CASE Answered(t) /\ u = t
    <3>1. /\ last'[u] = NotStarted
          /\ \/ Goes(u, "snapshot", "exec") /\ last[u] = Exited(0)
             \/ Goes(u, "exec", "validate")
             \/ Goes(u, "validate", "commit") \/ Goes(u, "validate", "rollback")
             \/ Goes(u, "rollback", "cleanup")
             \/ Ends(u, "snapshot", "no_snapshot")
             \/ Ends(u, "commit", "committed") \/ Ends(u, "cleanup", "rolled_back")
      BY <1>0, <2>4, AnswerTaken
    <3>2. \A op \in {"exec", "rollback"} :
            \/ told'[u][op] = told[u][op]
            \/ step[u] = op /\ told'[u][op] = "ok" /\ last[u] = Exited(0)
            \/ step[u] = op /\ told'[u][op] = "failed"
      BY <1>0, <2>4, AnswerTaken DEF Reported
    <3> QED
      BY <2>d, <3>1, <3>2 DEF HoldsNet, Goes, Ends
  <2> QED
    BY <2>1, <2>2, <2>3, <2>4
<1>3. ASSUME NEW u \in Tx PROVE Clean(u)' /\ Net(u)' /\ Undone(u)' /\ Kept(u)'
  <2>1. Clean(u) /\ Net(u) /\ Undone(u) /\ Kept(u)
    BY DEF SnapInv
  <2>2. /\ step'[u] = "snapshot" => step[u] = "snapshot"
        /\ step[u] \in {"rollback", "cleanup"} => step'[u] \in {"rollback", "cleanup"}
        /\ overran[u] => overran'[u]
        /\ OthersNeverRollBack(u)' => OthersNeverRollBack(u)
    BY <1>0, <1>1, Steadfast DEF OthersNeverRollBack
  <2>3. (Own(u)' <=> Own(u)) /\ (Without(u)' <=> Without(u))
    BY <1>0 DEF Own, Without
  <2>4. Clean(u)' /\ Net(u)'
    BY <1>0, <1>2, <2>1, <2>2, <2>3 DEF Clean, Net
  <2>5. Undone(u)'
    BY <1>0, <1>2, <2>1, <2>2, <2>3 DEF Undone
  <2>6. Kept(u)'
    <3>1. HasRun(u)' => HasRun(u)
      BY <1>2 DEF HasRun
    <3>2. Lost(u) => Lost(u)'
      <4>1. rivals[u] \cup {u} \subseteq Tx
        BY <1>0 DEF TypeOK
      <4> QED
        BY <1>0, <1>1, <4>1, Steadfast DEF Lost
    <3>3. \A v \in Tx : MayRollBack(v)' => MayRollBack(v)
      BY ToolMakesNoRollBack
    <3> QED
      BY <1>0, <2>1, <3>1, <3>2, <3>3 DEF Kept
  <2> QED
    BY <2>4, <2>5, <2>6
<1> QED
  BY <1>3 DEF SnapInv

\* Whose copy ends, and where that transaction then is.
LEMMA CopyWhere ==
  ASSUME PInv, NEW t \in Tx, NEW op \in Ops, NEW n \in {0, 1}, ExitsWith(t, op, n)
  PROVE  /\ op = "exec" => step[t] # "snapshot" /\ (step[t] = "exec" \/ overran[t])
         /\ op = "rollback" => step[t] \in {"rollback", "cleanup"} /\ MayRollBack(t)
         /\ op = "delete" => step[t] \in {"commit", "cleanup"} /\ Holder(t)
         /\ \A u \in Tx : \/ last'[u] = last[u]
                          \/ u = t /\ op = Command(step[u]) /\ last'[u] = Exited(n)
<1>1. TypeOK /\ Place(t) /\ step[t] \in Steps
  BY DEF PInv, TypeOK
<1>2. \/ late[t][op] > 0 /\ last' = last
      \/ /\ last[t] = Running /\ op = Command(step[t])
         /\ \A u \in Tx : last'[u] = IF u = t THEN Exited(n) ELSE last[u]
  BY <1>1, CopyEnds
<1>3. CASE late[t][op] > 0 /\ last' = last
  BY <1>1, <1>3 DEF Place, Holder, MayDelete, MayRollBack
<1>4. CASE /\ last[t] = Running /\ op = Command(step[t])
           /\ \A u \in Tx : last'[u] = IF u = t THEN Exited(n) ELSE last[u]
  <2>1. Active(t)
    BY <1>1, <1>4, CopyStatesDiffer DEF Place
  <2> QED
    BY <1>1, <1>4, <2>1, CommandOf DEF Holder, MayDelete, MayRollBack
<1> QED
  BY <1>2, <1>3, <1>4

\* The host's steps keep it: a deletion is made by the snapshot's holder, a rollback goes
\* back to a disk of before the command.
LEMMA CopyKeepsSnaps ==
  ASSUME PInv, OneHolder, SnapInv, NEW t \in Tx, CopyExits(t)
  PROVE  SnapInv'
<1>0. TypeOK /\ \A u \in Tx : name[u] \in Names /\ step[u] \in Steps
  BY DEF PInv, TypeOK
<1>1. UNCHANGED <<step, outcome, name, overran, told, copies>>
  BY <1>0, CopyEffect
<1>2. PICK op \in Ops, n \in {0, 1} :
        ExitsWith(t, op, n) /\ HostEffect(t, op, n) /\ Notes(t, op, n)
  BY <1>0, CopyEffect
<1>3. /\ op = "exec" => step[t] # "snapshot" /\ (step[t] = "exec" \/ overran[t])
      /\ op = "rollback" => step[t] \in {"rollback", "cleanup"} /\ MayRollBack(t)
      /\ op = "delete" => step[t] \in {"commit", "cleanup"} /\ Holder(t)
      /\ \A u \in Tx : \/ last'[u] = last[u]
                       \/ u = t /\ op = Command(step[u]) /\ last'[u] = Exited(n)
  BY <1>2, CopyWhere
<1>d. Exited(0) # Exited(1)
  BY CopyStatesDiffer
<1> SUFFICES ASSUME NEW u \in Tx PROVE Clean(u)' /\ Net(u)' /\ Undone(u)' /\ Kept(u)'
  BY DEF SnapInv
<1>4. Clean(u) /\ Net(u) /\ Undone(u) /\ Kept(u)
  BY DEF SnapInv
<1>5. /\ Own(u)' <=> Own(u)
      /\ OthersNeverRollBack(u)' <=> OthersNeverRollBack(u)
  BY <1>1 DEF Own, OthersNeverRollBack
<1>6. Clean(u)'
  <2> SUFFICES ASSUME step[u] = "snapshot"
               PROVE  u \notin disk' /\ \A m \in Names : \A d \in snaps'[m] : u \notin d
    BY <1>1 DEF Clean
  <2>1. u \notin disk /\ \A m \in Names : \A d \in snaps[m] : u \notin d
    BY <1>4 DEF Clean
  <2>2. op = "exec" => t # u
    BY <1>3
  <2> QED
    BY <1>0, <1>2, <2>1, <2>2 DEF HostEffect
<1>7. Net(u)'
  <2> SUFFICES ASSUME Own(u), HoldsNet(u)'
               PROVE  snaps'[name[u]] # {} /\ \A d \in snaps'[name[u]] : u \notin d
    BY <1>1, <1>5 DEF Net, Without
  <2>1. CASE HoldsNet(u)
    <3>1. snaps[name[u]] # {} /\ \A d \in snaps[name[u]] : u \notin d
      BY <1>4, <2>1 DEF Net, Without
    <3>2. ~(op = "delete" /\ name[t] = name[u])
      <4> SUFFICES ASSUME op = "delete", name[t] = name[u] PROVE FALSE
        OBVIOUS
      <4>1. t # u
        BY <1>3, <2>1 DEF HoldsNet
      <4>2. MaxCopies = 1 /\ Holder(t) /\ Holder(u)
        BY <1>3, <2>1, <4>1 DEF Own, Holder
      <4> QED
        BY <4>1, <4>2 DEF OneHolder
    <3> QED
      BY <1>0, <1>2, <3>1, <3>2 DEF HostEffect
  <2>2. CASE ~HoldsNet(u)
    <3>1. step[u] = "snapshot" /\ last'[u] = Exited(0) /\ last[u] # Exited(0)
      BY <1>1, <2>2 DEF HoldsNet
    <3>2. t = u /\ op = "snapshot" /\ n = 0
      BY <1>0, <1>3, <1>d, <3>1, CommandOf
    <3>3. u \notin disk
      BY <1>4, <3>1 DEF Clean
    <3> QED
      BY <1>0, <1>2, <3>2, <3>3 DEF HostEffect
  <2> QED
    BY <2>1, <2>2
<1>8. Undone(u)'
  <2> SUFFICES ASSUME Own(u), ~overran[u], OthersNeverRollBack(u),
                      (step[u] = "rollback" /\ last'[u] = Exited(0)) \/ told[u]["rollback"] = "ok"
               PROVE  u \notin disk' /\ \A d \in snaps'[name[u]] : u \notin d
    BY <1>1, <1>5 DEF Undone, Without
  <2>1. CASE (step[u] = "rollback" /\ last[u] = Exited(0)) \/ told[u]["rollback"] = "ok"
    <3>1. u \notin disk /\ \A d \in snaps[name[u]] : u \notin d
      BY <1>4, <2>1 DEF Undone, Without
    <3>2. op = "exec" => t # u
      BY <1>3, <2>1 DEF PInv, Place
    <3>3. op = "rollback" => t = u
      BY <1>3 DEF OthersNeverRollBack
    <3> QED
      BY <1>0, <1>2, <3>1, <3>2, <3>3 DEF HostEffect
  <2>2. CASE ~((step[u] = "rollback" /\ last[u] = Exited(0)) \/ told[u]["rollback"] = "ok")
    <3>1. step[u] = "rollback" /\ last'[u] = Exited(0) /\ last[u] # Exited(0)
      BY <2>2
    <3>2. t = u /\ op = "rollback" /\ n = 0
      BY <1>0, <1>3, <1>d, <3>1, CommandOf
    <3>3. \A d \in snaps[name[u]] : u \notin d
      BY <1>4, <3>1 DEF Net, HoldsNet, Without
    <3> QED
      BY <1>2, <3>2, <3>3 DEF HostEffect
  <2> QED
    BY <2>1, <2>2
<1>9. Kept(u)'
  <2>t. rivals \in [Tx -> SUBSET Tx] /\ rivals[u] \subseteq Tx
    BY <1>0 DEF TypeOK
  <2>1. CASE op = "exec" /\ n = 0 /\ t = u
    <3>1. u \in disk' /\ rivals'[u] = {v \in Tx \ {u} : UnderWay(v)}
      BY <1>2, <2>t, <2>1 DEF HostEffect, Notes
    <3>2. ASSUME NEW v \in Tx, v # u, MayRollBack(v)' PROVE UnderWay(v)
      BY <1>1, <1>2, <2>1, <3>2, CopyMakesRollBack, RollBackIsUnderWay
    <3> QED
      BY <3>1, <3>2 DEF Kept
  <2>2. CASE ~(op = "exec" /\ n = 0 /\ t = u)
    <3>1. rivals'[u] = rivals[u]
      BY <1>2, <2>t, <2>2 DEF Notes
    <3>2. Lost(u)' <=> Lost(u)
      BY <1>1, <3>1 DEF Lost
    <3>3. HasRun(u)' => HasRun(u)
      <4> SUFFICES ASSUME HasRun(u)', ~HasRun(u) PROVE FALSE
        OBVIOUS
      <4>1. step[u] = "exec" /\ last'[u] = Exited(0) /\ last[u] # Exited(0)
        BY <1>1 DEF HasRun
      <4> QED
        BY <1>0, <1>3, <1>d, <2>2, <4>1, CommandOf
    <3> SUFFICES ASSUME HasRun(u), ~Lost(u)
                 PROVE  /\ u \in disk'
                        /\ \A v \in Tx \ (rivals[u] \cup {u}) :
                             MayRollBack(v)' => \A d \in snaps'[name[v]] : u \in d
      BY <1>1, <3>1, <3>2, <3>3 DEF Kept
    <3>4. /\ u \in disk
          /\ \A v \in Tx \ (rivals[u] \cup {u}) :
               MayRollBack(v) => \A d \in snaps[name[v]] : u \in d
      BY <1>4 DEF Kept
    <3>5. u \in disk'
      <4>1. op = "rollback" => t \notin rivals[u] \cup {u} /\ MayRollBack(t)
        BY <1>3 DEF Lost
      <4> QED
        BY <1>2, <3>4, <4>1 DEF HostEffect
    <3>6. ASSUME NEW v \in Tx \ (rivals[u] \cup {u}), MayRollBack(v)', NEW d \in snaps'[name[v]]
          PROVE  u \in d
      <4>1. CASE MayRollBack(v)
        <5>1. d \in snaps[name[v]] \/ d = disk
          BY <1>0, <1>2, <3>6 DEF HostEffect
        <5> QED
          BY <3>4, <4>1, <5>1
      <4>2. CASE ~MayRollBack(v)
        <5>1. v = t /\ op = "snapshot" /\ n = 0
          BY <1>1, <1>2, <3>6, <4>2, CopyMakesRollBack
        <5> QED
          BY <1>0, <1>2, <3>4, <3>6, <5>1 DEF HostEffect
      <4> QED
        BY <4>1, <4>2
    <3> QED
      BY <3>5, <3>6
  <2> QED
    BY <2>1, <2>2
<1> QED
  BY <1>6, <1>7, <1>8, <1>9

--------------------------------------------------------------------------------
(***************************************************************************)
(* The invariant and what it implies.                                       *)
(***************************************************************************)

TxInv == PInv /\ OneHolder /\ SnapInv

LEMMA TxInit == Init => TxInv
<1> SUFFICES ASSUME Init PROVE TxInv
  OBVIOUS
<1>1. PInv
  BY PlaceInit
<1>2. ASSUME NEW t \in Tx PROVE ~Holder(t)
  BY CopyStatesDiffer DEF Init, Holder, HoldsNet, MayDelete, Active, Ops
<1>3. OneHolder
  BY <1>2 DEF OneHolder
<1>4. ASSUME NEW t \in Tx PROVE Clean(t) /\ Net(t) /\ Undone(t) /\ Kept(t)
  BY <1>2, CopyStatesDiffer DEF Init, Clean, Net, Undone, Kept, HasRun, Holder, Reported
<1> QED
  BY <1>1, <1>3, <1>4 DEF TxInv, SnapInv

LEMMA TxStep == TxInv /\ [Next]_vars => TxInv'
<1> SUFFICES ASSUME TxInv, [Next]_vars PROVE TxInv'
  OBVIOUS
<1>1. PInv' /\ OneHolder'
  BY PInvStep, OneHolderStep DEF TxInv
<1>2. CASE UNCHANGED vars
  <2>1. SnapInv'
    BY <1>2 DEF vars, toolVars, callVars, hostVars, TxInv, SnapInv, Clean, Net, Undone, Kept,
         Own, Without, HoldsNet, OthersNeverRollBack, HasRun, Lost, MayRollBack, Active
  <2> QED
    BY <1>1, <2>1 DEF TxInv
<1>3. CASE Next
  BY <1>1, <1>3, ToolKeepsSnaps, CopyKeepsSnaps DEF Next, TxInv
<1> QED
  BY <1>2, <1>3

\* Whatever the transactions on a VM do, crash and leave behind: the inductive invariant.
THEOREM TxInvariant == Spec => []TxInv
BY TxInit, TxStep, PTL DEF Spec

\* The transactions' variables, the snapshots of the host among them, keep their types: a
\* name has one snapshot at most, and no count of copies becomes negative.
THEOREM TxTypes == Spec => []TypeOK
<1>1. TxInv => TypeOK
  BY DEF TxInv, PInv
<1> QED
  BY <1>1, TxInvariant, PTL

\* While the command and its validation run, the snapshot of before the command exists
\* (power_tools.py 34-43).
THEOREM TxSafetyNet == Spec => []SafetyNet
<1>1. TxInv => SafetyNet
  <2> SUFFICES ASSUME TxInv, NEW t \in Tx, step[t] \in {"exec", "validate"}, Own(t)
               PROVE  snaps[name[t]] # {} /\ \A d \in snaps[name[t]] : t \notin d
    BY DEF SafetyNet, Own
  <2> QED
    BY DEF TxInv, SnapInv, Net, HoldsNet, Without
<1> QED
  BY <1>1, TxInvariant, PTL

\* What is reported as rolled back, by a rollback that succeeded, has left no trace on the
\* disk (power_tools.py 47-52).
THEOREM TxRolledBack == Spec => []RolledBackIsUndone
<1>1. TxInv => RolledBackIsUndone
  <2> SUFFICES ASSUME TxInv, NEW t \in Tx, told[t]["rollback"] = "ok", ~overran[t],
                      Own(t), OthersNeverRollBack(t)
               PROVE  t \notin disk
    BY DEF RolledBackIsUndone, Own
  <2> QED
    BY DEF TxInv, SnapInv, Undone
<1> QED
  BY <1>1, TxInvariant, PTL

\* The effect of a command that went well, in a transaction reported as committed, is lost
\* only to a transaction that was under way when it took effect (power_tools.py 31-52).
THEOREM TxCommitted == Spec => []CommittedIsKept
<1>1. TxInv => CommittedIsKept
  <2> SUFFICES ASSUME TxInv, NEW t \in Tx, outcome[t] = "committed", told[t]["exec"] = "ok",
                      ~\E u \in rivals[t] : step[u] \in {"rollback", "cleanup"}
               PROVE  t \in disk
    BY DEF CommittedIsKept
  <2>1. step[t] = "commit"
    BY DEF TxInv, PInv, Place
  <2> QED
    BY <2>1 DEF TxInv, SnapInv, Kept, HasRun, Lost
<1> QED
  BY <1>1, TxInvariant, PTL
================================================================================
