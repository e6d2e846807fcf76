-------------------------- MODULE CommandRunnerProofs --------------------------
(***************************************************************************)
(* CommandRunner's safety properties for any set of calls, any number of    *)
(* retries and any set of exit codes.  The properties look at one attempt   *)
(* at a time and are not inductive: that an answer is the last process's    *)
(* needs to know that attempts beyond the loop variable are untouched, and  *)
(* that a call waits only for an attempt nobody has judged yet.  CallInv    *)
(* says so for one call; IInv is TypeOK and CallInv of every call.          *)
(***************************************************************************)
EXTENDS CommandRunner, TLAPS

\* Attempts after the current one have not been made, those before it failed.
AttemptsInOrder(c) ==
  \A a \in Attempts :
    /\ a > attempt[c] => proc[c][a] = NotStarted /\ seen[c][a] = "none"
    /\ a < attempt[c] => seen[c][a] \in Failures

\* What the current attempt looks like at each await.
CurrentAttempt(c) ==
  LET a == attempt[c] IN
  /\ pc[c] \in {"idle", "created"} =>
       a = 0 /\ proc[c][a] = NotStarted /\ seen[c][a] = "none"
  /\ pc[c] \in {"spawning", "communicating"} => seen[c][a] = "none"
  /\ pc[c] = "backoff" => seen[c][a] \in Failures /\ a < Retries

\* OrphansExplained for one call.
Orphans(c) ==
  \A a \in Attempts :
    proc[c][a] = Running /\ seen[c][a] \notin {"timeout", "interrupted"} =>
      a = attempt[c] /\ pc[c] \in {"spawning", "communicating"}

\* AnswerIsFromLastProcess for one call, which has returned.
Answered(c) ==
  \A a \in Attempts :
    seen[c][a] = "answered" =>
      /\ pc[c] = "done"
      /\ a = attempt[c]
      /\ proc[c][a].state = "exited"
      /\ answer[c] = Result(proc[c][a].code)

CallInv(c) == AttemptsInOrder(c) /\ CurrentAttempt(c) /\ Orphans(c) /\ Answered(c)

IInv == TypeOK /\ \A c \in Calls : CallInv(c)

--------------------------------------------------------------------------------
\* A process that has exited holds an exit code, and so gives a Result.
LEMMA ExitedResult ==
  ASSUME NEW p \in ProcessStates, p.state = "exited"
  PROVE  p.code \in ExitCodes /\ Result(p.code) \in Results /\ p # Running
BY DEF ProcessStates, NotStarted, Running, Killed, Exited, Results, Result

\* The two codes run() makes up itself give a CommandResult too (runner.py 50-58, 111-119).
LEMMA ResultsMadeUp ==
  Result(UnusableCommand) \in Results /\ Result(AttemptsUsedUp) \in Results
BY DEF Results

\* The type of the variables survives the failure of the current attempt.
LEMMA AttemptFailsTypes ==
  ASSUME TypeOK, NEW c \in Calls, NEW a \in Attempts, NEW why \in Failures,
         AttemptFails(c, a, why)
  PROVE  /\ pc' \in [Calls -> Labels]
         /\ seen' \in [Calls -> [Attempts -> Outcomes]]
         /\ answer' \in [Calls -> Results \cup {NoAnswer}]
BY ResultsMadeUp DEF TypeOK, AttemptFails, Return, Labels, Outcomes

\* The types survive the start of an attempt, or its failure to start.
LEMMA StartAttemptTypes ==
  ASSUME TypeOK, NEW c \in Calls, NEW a \in Attempts, StartAttempt(c, a)
  PROVE  TypeOK'
<1>1. Running \in ProcessStates
  BY DEF ProcessStates
<1>2. attempt' \in [Calls -> Attempts] /\ cancelling' \in [Calls -> BOOLEAN]
  BY DEF StartAttempt, TypeOK
<1>3. CASE AttemptFails(c, a, "spawn_error") /\ UNCHANGED proc
  BY <1>2, <1>3, AttemptFailsTypes DEF TypeOK, Failures
<1>4. CASE /\ proc' = [proc EXCEPT ![c][a] = Running]
           /\ pc' = [pc EXCEPT ![c] = "spawning"]
           /\ UNCHANGED <<seen, answer>>
  BY <1>1, <1>2, <1>4 DEF TypeOK, Labels
<1> QED
  BY <1>3, <1>4 DEF StartAttempt

\* Every step of the runner or of a host process keeps the types; that the loop
\* variable stays in range when it advances takes CallInv.
LEMMA TypeStep ==
  ASSUME IInv, [Next]_runnerVars
  PROVE  TypeOK'
<1>0. TypeOK /\ \A c \in Calls : CurrentAttempt(c)
  BY DEF IInv, CallInv
<1>1. CASE UNCHANGED runnerVars
  BY <1>0, <1>1 DEF runnerVars, TypeOK
<1>2. ASSUME NEW c \in Calls, Call(c) PROVE TypeOK'
  BY <1>0, <1>2 DEF Call, TypeOK, Labels
<1>3. ASSUME NEW c \in Calls, RejectCommand(c) PROVE TypeOK'
  BY <1>0, <1>3, ResultsMadeUp DEF RejectCommand, Return, TypeOK, Labels
<1>4. ASSUME NEW c \in Calls, FirstAttempt(c) PROVE TypeOK'
  <2>1. 0 \in Attempts
    BY RetriesAssumption DEF Attempts
  <2> QED
    BY <1>0, <1>4, <2>1, StartAttemptTypes DEF FirstAttempt
<1>5. ASSUME NEW c \in Calls, Connect(c) PROVE TypeOK'
  BY <1>0, <1>5 DEF Connect, TypeOK, Labels
<1>6. ASSUME NEW c \in Calls, Collect(c) PROVE TypeOK'
  <2> DEFINE a == attempt[c]
  <2>1. a \in Attempts /\ proc[c][a] \in ProcessStates
    BY <1>0 DEF TypeOK
  <2>2. Result(proc[c][a].code) \in Results
    BY <1>0, <1>6, <2>1, ExitedResult DEF Collect
  <2>3. proc' = proc /\ attempt' = attempt /\ cancelling' \in [Calls -> BOOLEAN]
    BY <1>0, <1>6 DEF Collect, TypeOK
  <2>4. CASE AttemptFails(c, a, "undecodable")
    BY <1>0, <2>1, <2>3, <2>4, AttemptFailsTypes DEF TypeOK, Failures
  <2>5. CASE Return(c, proc[c][a].code) /\ seen' = [seen EXCEPT ![c][a] = "answered"]
    BY <1>0, <2>1, <2>2, <2>3, <2>5 DEF Return, TypeOK, Labels, Outcomes
  <2> QED
    BY <1>6, <2>4, <2>5 DEF Collect
<1>7. ASSUME NEW c \in Calls, TimeOut(c) PROVE TypeOK'
  BY <1>0, <1>7, AttemptFailsTypes DEF TimeOut, TypeOK, Failures
<1>8. ASSUME NEW c \in Calls, NextAttempt(c) PROVE TypeOK'
  <2>1. attempt[c] + 1 \in Attempts
    BY <1>0, <1>8, RetriesAssumption DEF NextAttempt, CurrentAttempt, TypeOK, Attempts
  <2> QED
    BY <1>0, <1>8, <2>1, StartAttemptTypes DEF NextAttempt
<1>9. ASSUME NEW c \in Calls, DeliverCancel(c) PROVE TypeOK'
  BY <1>0, <1>9 DEF DeliverCancel, TypeOK, Labels, Outcomes, ProcessStates
<1>10. ASSUME NEW c \in Calls, RequestCancel(c) PROVE TypeOK'
  BY <1>0, <1>10 DEF RequestCancel, TypeOK
<1>11. ASSUME NEW c \in Calls, NEW a \in Attempts, ProcessExits(c, a) PROVE TypeOK'
  BY <1>0, <1>11 DEF ProcessExits, TypeOK, ProcessStates
<1> QED
  BY <1>1, <1>2, <1>3, <1>4, <1>5, <1>6, <1>7, <1>8, <1>9, <1>10, <1>11
     DEF Next, RunnerStep, HostStep

--------------------------------------------------------------------------------
\* Attempt a of call c is about to be judged or started: those before it
\* failed, and of them only abandoned processes run; those after it are unmade.
Ready(c, a) ==
  \A b \in Attempts :
    /\ b > a => proc[c][b] = NotStarted /\ seen[c][b] = "none"
    /\ b < a => seen[c][b] \in Failures
    /\ b # a /\ proc[c][b] = Running => seen[c][b] \in {"timeout", "interrupted"}

\* CallInv reads only the variables of its own call.
LEMMA OtherCalls ==
  ASSUME NEW d \in Calls, CallInv(d),
         pc'[d] = pc[d], attempt'[d] = attempt[d], proc'[d] = proc[d],
         seen'[d] = seen[d], answer'[d] = answer[d]
  PROVE  CallInv(d)'
BY DEF CallInv, AttemptsInOrder, CurrentAttempt, Orphans, Answered

\* A call is Ready for its current attempt, and for the next one in backoff.
LEMMA ReadyNow ==
  ASSUME TypeOK, NEW c \in Calls, CallInv(c)
  PROVE  Ready(c, attempt[c])
BY DEF TypeOK, CallInv, AttemptsInOrder, Orphans, Ready

\* After a sleep there is a next attempt, and nothing of it has happened yet.
LEMMA ReadyNext ==
  ASSUME TypeOK, NEW c \in Calls, CallInv(c), pc[c] = "backoff"
  PROVE  /\ attempt[c] + 1 \in Attempts
         /\ Ready(c, attempt[c] + 1)
         /\ proc[c][attempt[c] + 1] = NotStarted
         /\ seen[c][attempt[c] + 1] = "none"
BY RetriesAssumption
   DEF TypeOK, CallInv, AttemptsInOrder, CurrentAttempt, Orphans, Ready, Attempts,
       NotStarted, Running

\* No attempt but the current one can have been answered.
LEMMA OnlyCurrentAnswered ==
  ASSUME NEW c \in Calls, NEW a \in Attempts, Ready(c, a),
         NEW b \in Attempts, b # a
  PROVE  seen[c][b] # "answered"
BY RetriesAssumption DEF Ready, Failures, Attempts

\* The failure of the attempt under way keeps the invariant of its call.
LEMMA AttemptFailsInv ==
  ASSUME TypeOK, NEW c \in Calls, NEW a \in Attempts, NEW why \in Failures,
         Ready(c, a), AttemptFails(c, a, why),
         attempt'[c] = a, proc'[c] = proc[c], proc[c][a] = Running => why = "timeout"
  PROVE  CallInv(c)'
<1>1. /\ seen'[c] = [seen[c] EXCEPT ![a] = why]
      /\ pc'[c] = IF a < Retries THEN "backoff" ELSE "done"
  BY DEF AttemptFails, Return, TypeOK
<1>2. \A b \in Attempts : b # a => seen'[c][b] = seen[c][b]
  BY <1>1 DEF TypeOK
<1>3. seen'[c][a] = why /\ why # "answered"
  BY <1>1 DEF TypeOK, Failures
<1>4. AttemptsInOrder(c)'
  BY <1>2, RetriesAssumption DEF AttemptsInOrder, Ready, Attempts
<1>5. CurrentAttempt(c)'
  BY <1>1, <1>3 DEF CurrentAttempt
<1>6. Orphans(c)'
  BY <1>2, <1>3 DEF Orphans, Ready
<1>7. Answered(c)'
  BY <1>2, <1>3, RetriesAssumption DEF Answered, Ready, Failures, Attempts
<1> QED
  BY <1>4, <1>5, <1>6, <1>7 DEF CallInv

\* So does the start of an attempt that nothing is known of yet.
LEMMA StartAttemptInv ==
  ASSUME TypeOK, NEW c \in Calls, NEW a \in Attempts, Ready(c, a),
         proc[c][a] = NotStarted, seen[c][a] = "none", StartAttempt(c, a)
  PROVE  CallInv(c)'
<1>1. attempt'[c] = a
  BY DEF StartAttempt, TypeOK
<1>2. CASE AttemptFails(c, a, "spawn_error") /\ UNCHANGED proc
  <2>1. proc[c][a] # Running /\ "spawn_error" \in Failures
    BY DEF NotStarted, Running, Failures
  <2> QED
    BY <1>1, <1>2, <2>1, AttemptFailsInv
<1>3. CASE /\ proc' = [proc EXCEPT ![c][a] = Running]
           /\ pc' = [pc EXCEPT ![c] = "spawning"]
           /\ UNCHANGED <<seen, answer>>
  <2>1. pc'[c] = "spawning" /\ seen'[c] = seen[c]
    BY <1>3 DEF TypeOK
  <2>2. \A b \in Attempts : b # a => proc'[c][b] = proc[c][b]
    BY <1>3 DEF TypeOK
  <2>3. AttemptsInOrder(c)' /\ CurrentAttempt(c)' /\ Orphans(c)'
    BY <1>1, <2>1, <2>2, RetriesAssumption
       DEF AttemptsInOrder, CurrentAttempt, Orphans, Ready, Attempts
  <2>4. Answered(c)'
    BY <2>1, RetriesAssumption DEF Answered, Ready, Failures, Attempts
  <2> QED
    BY <2>3, <2>4 DEF CallInv
<1> QED
  BY <1>2, <1>3 DEF StartAttempt

--------------------------------------------------------------------------------
\* The inductive step for the call that moves, one step per action.
LEMMA CallStep ==
  ASSUME TypeOK, NEW c \in Calls, CallInv(c),
         Call(c) \/ RunnerStep(c) \/ RequestCancel(c) \/ HostStep(c)
  PROVE  CallInv(c)'
<1> DEFINE a == attempt[c]
<1>0. a \in Attempts /\ Ready(c, a) /\ Attempts \subseteq Int
  BY ReadyNow, RetriesAssumption DEF TypeOK, Attempts
<1> USE <1>0
<1>1. CASE Call(c)
  BY <1>1 DEF Call, TypeOK, CallInv, AttemptsInOrder, CurrentAttempt, Orphans, Answered
<1>2. CASE RejectCommand(c)
  BY <1>2 DEF RejectCommand, Return, TypeOK, CallInv, AttemptsInOrder, CurrentAttempt,
              Orphans, Answered
<1>3. CASE FirstAttempt(c)
  <2>1. a = 0 /\ proc[c][a] = NotStarted /\ seen[c][a] = "none"
    BY <1>3 DEF FirstAttempt, CallInv, CurrentAttempt
  <2> QED
    BY <1>3, <2>1, StartAttemptInv DEF FirstAttempt
<1>4. CASE Connect(c)
  BY <1>4 DEF Connect, TypeOK, CallInv, AttemptsInOrder, CurrentAttempt, Orphans, Answered
<1>5. CASE Collect(c)
  <2>1. proc[c][a] # Running
    BY <1>5 DEF Collect, Running
  <2>2. proc'[c] = proc[c] /\ attempt'[c] = a
    BY <1>5 DEF Collect
  <2>3. CASE AttemptFails(c, a, "undecodable")
    BY <2>1, <2>2, <2>3, AttemptFailsInv DEF Failures
  <2>4. CASE Return(c, proc[c][a].code) /\ seen' = [seen EXCEPT ![c][a] = "answered"]
    <3>1. /\ pc'[c] = "done"
          /\ answer'[c] = Result(proc[c][a].code)
          /\ seen'[c][a] = "answered"
          /\ \A b \in Attempts : b # a => seen'[c][b] = seen[c][b]
      BY <2>4 DEF Return, TypeOK
    <3>2. proc[c][a].state = "exited"
      BY <1>5 DEF Collect
    <3>3. AttemptsInOrder(c)' /\ CurrentAttempt(c)'
      BY <2>2, <3>1 DEF AttemptsInOrder, CurrentAttempt, Ready
    <3>4. Orphans(c)'
      BY <2>1, <2>2, <3>1 DEF Orphans, Ready
    <3>5. Answered(c)'
      BY <2>2, <3>1, <3>2, OnlyCurrentAnswered DEF Answered
    <3> QED
      BY <3>3, <3>4, <3>5 DEF CallInv
  <2> QED
    BY <1>5, <2>3, <2>4 DEF Collect
<1>6. CASE TimeOut(c)
  BY <1>6, AttemptFailsInv DEF TimeOut, Failures
<1>7. CASE NextAttempt(c)
  BY <1>7, ReadyNext, StartAttemptInv DEF NextAttempt
<1>8. CASE RequestCancel(c)
  BY <1>8, OtherCalls DEF RequestCancel
<1>9. CASE DeliverCancel(c)
  <2>1. /\ attempt'[c] = a
        /\ pc'[c] = "cancelled"
        /\ \A b \in Attempts : b # a => proc'[c][b] = proc[c][b] /\ seen'[c][b] = seen[c][b]
    BY <1>9 DEF DeliverCancel, TypeOK
  <2>2. AttemptsInOrder(c)' /\ CurrentAttempt(c)'
    <3>1. AttemptsInOrder(c)'
      <4>1. ASSUME NEW b \in Attempts
            PROVE  /\ b > a => proc'[c][b] = NotStarted /\ seen'[c][b] = "none"
                   /\ b < a => seen'[c][b] \in Failures
        <5>1. b \in Int /\ a \in Int
          OBVIOUS
        <5>2. b # a => proc'[c][b] = proc[c][b] /\ seen'[c][b] = seen[c][b]
          BY <2>1
        <5> QED
          BY <5>1, <5>2 DEF Ready
      <4> QED
        BY <2>1, <4>1 DEF AttemptsInOrder
    <3>2. CurrentAttempt(c)'
      BY <2>1 DEF CurrentAttempt
    <3> QED
      BY <3>1, <3>2
  <2>3. CASE pc[c] = "spawning"
    <3>1. proc'[c][a] # Running /\ seen'[c][a] = "aborted"
      BY <1>9, <2>3 DEF DeliverCancel, TypeOK, Running, Killed
    <3>2. Orphans(c)'
      BY <2>1, <3>1 DEF Orphans, Ready
    <3>3. Answered(c)'
      BY <2>1, <3>1, OnlyCurrentAnswered DEF Answered
    <3> QED
      BY <2>2, <3>2, <3>3 DEF CallInv
  <2>4. CASE pc[c] = "communicating"
    <3>1. seen'[c][a] = "interrupted"
      BY <1>9, <2>4 DEF DeliverCancel, TypeOK
    <3>2. Orphans(c)'
      BY <2>1, <3>1 DEF Orphans, Ready
    <3>3. Answered(c)'
      BY <2>1, <3>1, OnlyCurrentAnswered DEF Answered
    <3> QED
      BY <2>2, <3>2, <3>3 DEF CallInv
  <2>5. CASE pc[c] \notin {"spawning", "communicating"}
    <3>1. proc' = proc /\ seen' = seen /\ answer' = answer
      BY <1>9, <2>5 DEF DeliverCancel
    <3>2. Orphans(c)' /\ Answered(c)'
      BY <1>9, <2>1, <2>5, <3>1 DEF Orphans, Answered, CallInv, DeliverCancel, Terminal
    <3> QED
      BY <2>2, <3>2 DEF CallInv
  <2> QED
    BY <2>3, <2>4, <2>5
<1>10. ASSUME NEW b \in Attempts, ProcessExits(c, b) PROVE CallInv(c)'
  <2>1. /\ proc[c][b] = Running
        /\ proc'[c][b] # Running
        /\ \A d \in Attempts : d # b => proc'[c][d] = proc[c][d]
    BY <1>10 DEF ProcessExits, TypeOK, Running, Exited
  <2>2. /\ pc' = pc /\ attempt' = attempt /\ seen' = seen /\ answer' = answer
    BY <1>10 DEF ProcessExits
  <2>3. Running # NotStarted /\ Running.state # "exited"
    BY DEF Running, NotStarted
  <2> QED
    BY <2>1, <2>2, <2>3 DEF CallInv, AttemptsInOrder, CurrentAttempt, Orphans, Answered
<1> QED
  BY <1>1, <1>2, <1>3, <1>4, <1>5, <1>6, <1>7, <1>8, <1>9, <1>10 DEF RunnerStep, HostStep

\* A step of one call leaves the variables of every other call alone.
LEMMA OthersUntouched ==
  ASSUME TypeOK, NEW c \in Calls, NEW d \in Calls, d # c,
         Call(c) \/ RunnerStep(c) \/ RequestCancel(c) \/ HostStep(c)
  PROVE  /\ pc'[d] = pc[d] /\ attempt'[d] = attempt[d] /\ proc'[d] = proc[d]
         /\ seen'[d] = seen[d] /\ answer'[d] = answer[d]
<1>1. CASE Call(c) \/ RequestCancel(c) \/ Connect(c) \/ DeliverCancel(c)
  BY <1>1 DEF Call, RequestCancel, Connect, DeliverCancel, TypeOK
<1>2. CASE RejectCommand(c) \/ Collect(c) \/ TimeOut(c)
  BY <1>2 DEF RejectCommand, Collect, TimeOut, AttemptFails, Return, TypeOK
<1>3. CASE FirstAttempt(c) \/ NextAttempt(c)
  BY <1>3 DEF FirstAttempt, NextAttempt, StartAttempt, AttemptFails, Return, TypeOK
<1>4. CASE HostStep(c)
  BY <1>4 DEF HostStep, ProcessExits, TypeOK
<1> QED
  BY <1>1, <1>2, <1>3, <1>4 DEF RunnerStep

\* The invariant holds before any call of run() is made.
LEMMA InductiveInit == Init => IInv
<1> SUFFICES ASSUME Init PROVE IInv
  OBVIOUS
<1>1. 0 \in Attempts /\ Attempts \subseteq Int /\ \A a \in Attempts : a >= 0
  BY RetriesAssumption DEF Attempts
<1>2. TypeOK
  BY <1>1 DEF Init, TypeOK, Labels, Outcomes, ProcessStates
<1>3. ASSUME NEW c \in Calls PROVE CallInv(c)
  BY <1>1 DEF Init, CallInv, AttemptsInOrder, CurrentAttempt, Orphans, Answered,
              NotStarted, Running
<1> QED
  BY <1>2, <1>3 DEF IInv

\* Every step keeps it: CallStep for the call that steps, OthersUntouched for the
\* others.
LEMMA InductiveStep == IInv /\ [Next]_runnerVars => IInv'
<1> SUFFICES ASSUME IInv, [Next]_runnerVars PROVE IInv'
  OBVIOUS
<1>1. TypeOK /\ TypeOK'
  BY TypeStep DEF IInv
<1>2. ASSUME NEW d \in Calls PROVE CallInv(d)'
  <2>1. CallInv(d)
    BY DEF IInv
  <2>2. CASE UNCHANGED runnerVars
    BY <2>1, <2>2, OtherCalls DEF runnerVars
  <2>3. ASSUME NEW c \in Calls,
               Call(c) \/ RunnerStep(c) \/ RequestCancel(c) \/ HostStep(c)
        PROVE  CallInv(d)'
    <3>1. CASE c = d
      BY <1>1, <2>1, <2>3, <3>1, CallStep
    <3>2. CASE c # d
      BY <1>1, <2>1, <2>3, <3>2, OthersUntouched, OtherCalls
    <3> QED
      BY <3>1, <3>2
  <2> QED
    BY <2>2, <2>3 DEF Next
<1> QED
  BY <1>1, <1>2 DEF IInv

--------------------------------------------------------------------------------
\* Every behaviour of CommandRunner satisfies the inductive invariant.
THEOREM RunnerInvariant == Spec => []IInv
BY InductiveInit, InductiveStep, PTL DEF Spec

\* The runner's variables keep their types: in particular the loop variable
\* never passes the last attempt (runner.py 75).
THEOREM RunnerTypes == Spec => []TypeOK
<1>1. IInv => TypeOK
  BY DEF IInv
<1> QED
  BY <1>1, RunnerInvariant, PTL

\* An answer is the exit code of the last process, whatever abandoned processes
\* do (runner.py 84-101).
THEOREM RunnerAnswers == Spec => []AnswerIsFromLastProcess
<1>1. IInv => AnswerIsFromLastProcess
  BY DEF IInv, CallInv, Answered, AnswerIsFromLastProcess
<1> QED
  BY <1>1, RunnerInvariant, PTL

\* A command is repeated only after its previous attempt failed (102-108).
THEOREM RunnerRetries == Spec => []RetriedOnlyAfterFailure
<1>1. ASSUME IInv, NEW c \in Calls, NEW a \in Attempts, proc[c][a] # NotStarted,
             NEW b \in 0..(a - 1)
      PROVE  seen[c][b] \in Failures
  BY <1>1, RetriesAssumption DEF IInv, TypeOK, CallInv, AttemptsInOrder, Attempts
<1>2. IInv => RetriedOnlyAfterFailure
  BY <1>1 DEF RetriedOnlyAfterFailure
<1> QED
  BY <1>2, RunnerInvariant, PTL

\* A process left running was timed out or interrupted (77-108).
THEOREM RunnerOrphans == Spec => []OrphansExplained
<1>1. IInv => OrphansExplained
  BY DEF IInv, CallInv, Orphans, OrphansExplained
<1> QED
  BY <1>1, RunnerInvariant, PTL

--------------------------------------------------------------------------------
(***************************************************************************)
(* CommandRunner implements the safety part of HostCommand: every step of a *)
(* call is a step of the contract its callers rely on, or invisible to      *)
(* them.  (That every open call is settled rests on fairness and is left to *)
(* TLC, as part of ImplementsHostCommand.)                                  *)
(***************************************************************************)
PhaseMap == [c \in Calls |-> Phase(c)]

\* The phase that goes with each await.
PhaseAt(label) ==
  CASE label = "idle"      -> "idle"
    [] label = "done"      -> "answered"
    [] label = "cancelled" -> "abandoned"
    [] OTHER               -> "open"

\* The refinement mapping of a call's phase depends on its program counter only.
LEMMA PhaseOfPc == \A c \in Calls : Phase(c) = PhaseAt(pc[c])
BY DEF Phase, PhaseAt

\* A step that moves one call's pc moves one call's phase.
LEMMA PhaseMoves ==
  ASSUME TypeOK, NEW c \in Calls, NEW label \in Labels, pc' = [pc EXCEPT ![c] = label]
  PROVE  PhaseMap' = [PhaseMap EXCEPT ![c] = PhaseAt(label)]
BY DEF TypeOK, PhaseMap, Phase, PhaseAt

\* A step between two awaits of the same phase is a stutter of the phase.
LEMMA PhaseStays ==
  ASSUME TypeOK, NEW c \in Calls, NEW label \in Labels, pc' = [pc EXCEPT ![c] = label],
         PhaseAt(label) = PhaseAt(pc[c])
  PROVE  PhaseMap' = PhaseMap
BY DEF TypeOK, PhaseMap, Phase, PhaseAt

--------------------------------------------------------------------------------
\* Giving up the last attempt is an Answer, giving up another one is invisible.
LEMMA AttemptFailsMaps ==
  ASSUME TypeOK, NEW c \in Calls, PhaseAt(pc[c]) = "open",
         NEW a \in Attempts, NEW why, AttemptFails(c, a, why), UNCHANGED proc
  PROVE  Contract!Answer(c) \/ UNCHANGED Contract!vars
<1>1. CASE a < Retries
  <2>1. pc' = [pc EXCEPT ![c] = "backoff"] /\ answer' = answer
    BY <1>1 DEF AttemptFails
  <2>2. PhaseMap' = PhaseMap
    BY <2>1, PhaseStays DEF PhaseAt, Labels
  <2> QED
    BY <2>1, <2>2 DEF Contract!vars, PhaseMap
<1>2. CASE ~(a < Retries)
  <2>1. /\ pc' = [pc EXCEPT ![c] = "done"]
        /\ answer' = [answer EXCEPT ![c] = Result(AttemptsUsedUp)]
    BY <1>2 DEF AttemptFails, Return
  <2>2. PhaseMap' = [PhaseMap EXCEPT ![c] = "answered"] /\ PhaseMap[c] = "open"
    BY <2>1, PhaseMoves, PhaseOfPc DEF PhaseAt, Labels, PhaseMap
  <2>3. Contract!Result(AttemptsUsedUp) = Result(AttemptsUsedUp)
    BY DEF Contract!Result, Result
  <2> QED
    BY <2>1, <2>2, <2>3 DEF Contract!Answer, PhaseMap, AttemptsUsedUp, Contract!AttemptsUsedUp
<1> QED
  BY <1>1, <1>2

\* A started attempt launches the next copy; one that cannot be started is given up.
LEMMA StartAttemptMaps ==
  ASSUME TypeOK, NEW c \in Calls, PhaseAt(pc[c]) = "open",
         NEW a \in Attempts, StartAttempt(c, a),
         \A b \in Attempts : b >= a => proc[c][b] = NotStarted
  PROVE  Contract!Next \/ UNCHANGED Contract!vars
<1>1. CASE AttemptFails(c, a, "spawn_error") /\ UNCHANGED proc
  BY <1>1, AttemptFailsMaps DEF Contract!Next, Contract!Settle
<1>2. CASE /\ proc' = [proc EXCEPT ![c][a] = Running]
           /\ pc' = [pc EXCEPT ![c] = "spawning"]
           /\ UNCHANGED <<seen, answer>>
  <2>1. PhaseMap' = PhaseMap /\ PhaseMap[c] = "open"
    BY <1>2, PhaseStays, PhaseOfPc DEF PhaseAt, Labels, PhaseMap
  <2>2. Contract!Launch(c, a)
    BY <1>2, <2>1 DEF Contract!Launch, PhaseMap, NotStarted, Running, Contract!NotStarted,
       Contract!Running
  <2> QED
    BY <2>2 DEF Contract!Next
<1> QED
  BY <1>1, <1>2 DEF StartAttempt

\* A process that has exited is Exited(n) for its own code n.
LEMMA ExitedHasCode ==
  ASSUME NEW p \in ProcessStates, p.state = "exited"
  PROVE  p.code \in ExitCodes /\ p = Exited(p.code)
<1>1. PICK n \in ExitCodes : p = Exited(n)
  BY DEF ProcessStates, NotStarted, Running, Killed
<1>2. p.code = n
  BY <1>1 DEF Exited
<1> QED
  BY <1>1, <1>2

\* An answer that is read is the code of the copy launched last.
LEMMA CollectMaps ==
  ASSUME IInv, NEW c \in Calls, Collect(c)
  PROVE  Contract!Next \/ UNCHANGED Contract!vars
<1> DEFINE a == attempt[c]
<1>0. /\ TypeOK /\ a \in Attempts /\ proc' = proc /\ PhaseAt(pc[c]) = "open"
      /\ proc[c][a] \in ProcessStates /\ proc[c][a].state = "exited"
      /\ \A b \in Attempts : b > a => proc[c][b] = NotStarted
  BY DEF IInv, TypeOK, CallInv, AttemptsInOrder, Collect, PhaseAt
<1>1. CASE AttemptFails(c, a, "undecodable")
  BY <1>0, <1>1, AttemptFailsMaps DEF Contract!Next, Contract!Settle
<1>2. CASE Return(c, proc[c][a].code)
  <2> DEFINE n == proc[c][a].code
  <2>1. n \in ExitCodes /\ proc[c][a] = Exited(n)
    BY <1>0, ExitedHasCode
  <2>2. PhaseMap' = [PhaseMap EXCEPT ![c] = "answered"] /\ PhaseMap[c] = "open"
    BY <1>0, <1>2, PhaseMoves, PhaseOfPc DEF Return, PhaseAt, Labels, PhaseMap
  <2>3. Contract!LastCopyExited(c, n)
    BY <1>0, <2>1 DEF Contract!LastCopyExited, Exited, NotStarted, Contract!Exited,
       Contract!NotStarted
  <2>4. answer' = [answer EXCEPT ![c] = Contract!Result(n)]
    BY <1>2 DEF Return, Result, Contract!Result
  <2>5. Contract!Answer(c)
    BY <1>0, <2>1, <2>2, <2>3, <2>4 DEF Contract!Answer, PhaseMap
  <2> QED
    BY <2>5 DEF Contract!Next, Contract!Settle
<1> QED
  BY <1>1, <1>2 DEF Collect

\* An unusable command line is answered without a copy having been launched.
LEMMA RejectMaps ==
  ASSUME IInv, NEW c \in Calls, RejectCommand(c)
  PROVE  Contract!Next
<1>0. /\ TypeOK /\ pc[c] = "created" /\ proc' = proc
      /\ \A b \in Attempts : proc[c][b] = NotStarted
  BY RetriesAssumption
     DEF IInv, TypeOK, CallInv, AttemptsInOrder, CurrentAttempt, RejectCommand, Attempts
<1>1. PhaseMap' = [PhaseMap EXCEPT ![c] = "answered"] /\ PhaseMap[c] = "open"
  BY <1>0, PhaseMoves, PhaseOfPc DEF RejectCommand, Return, PhaseAt, Labels, PhaseMap
<1>2. answer' = [answer EXCEPT ![c] = Contract!Result(Contract!UnusableCommand)]
  BY DEF RejectCommand, Return, Result, Contract!Result, UnusableCommand,
     Contract!UnusableCommand
<1>3. Contract!Answer(c)
  BY <1>0, <1>1, <1>2 DEF Contract!Answer, PhaseMap, NotStarted, Contract!NotStarted
<1> QED
  BY <1>3 DEF Contract!Next, Contract!Settle

\* A delivered cancellation abandons the call, killing at most a copy being set up.
LEMMA DeliverCancelMaps ==
  ASSUME IInv, NEW c \in Calls, DeliverCancel(c), pc[c] # "idle"
  PROVE  Contract!Next
<1>0. TypeOK /\ attempt[c] \in Attempts /\ PhaseAt(pc[c]) = "open" /\ answer' = answer
  BY DEF IInv, TypeOK, DeliverCancel, PhaseAt, Terminal
<1>1. PhaseMap' = [PhaseMap EXCEPT ![c] = "abandoned"] /\ PhaseMap[c] = "open"
  BY <1>0, PhaseMoves, PhaseOfPc DEF DeliverCancel, PhaseAt, Labels, PhaseMap
<1>2. \/ proc' = proc
      \/ /\ proc[c][attempt[c]] = Contract!Running
         /\ proc' = [proc EXCEPT ![c][attempt[c]] = Contract!Killed]
  BY DEF DeliverCancel, Running, Killed, Contract!Running, Contract!Killed
<1>3. Contract!Abandon(c)
  BY <1>0, <1>1, <1>2 DEF Contract!Abandon, PhaseMap
<1> QED
  BY <1>3 DEF Contract!Next, Contract!Settle

\* Only a call that was made can be cancelled.
CancelInv == \A c \in Calls : cancelling[c] => pc[c] # "idle"

\* Every step keeps CancelInv.
LEMMA CancelInvStep ==
  ASSUME TypeOK, CancelInv, [Next]_runnerVars
  PROVE  CancelInv'
<1>1. CASE UNCHANGED runnerVars
  BY <1>1 DEF runnerVars, CancelInv
<1>2. ASSUME NEW c \in Calls, Call(c) \/ RequestCancel(c) \/ HostStep(c) PROVE CancelInv'
  BY <1>2 DEF Call, RequestCancel, HostStep, ProcessExits, CancelInv, TypeOK
<1>3. ASSUME NEW c \in Calls, RejectCommand(c) \/ Connect(c) \/ DeliverCancel(c)
      PROVE  CancelInv'
  BY <1>3 DEF RejectCommand, Return, Connect, DeliverCancel, CancelInv, TypeOK
<1>4. ASSUME NEW c \in Calls, Collect(c) \/ TimeOut(c) PROVE CancelInv'
  BY <1>4 DEF Collect, TimeOut, AttemptFails, Return, CancelInv, TypeOK
<1>5. ASSUME NEW c \in Calls, FirstAttempt(c) \/ NextAttempt(c) PROVE CancelInv'
  BY <1>5 DEF FirstAttempt, NextAttempt, StartAttempt, AttemptFails, Return, CancelInv, TypeOK
<1> QED
  BY <1>1, <1>2, <1>3, <1>4, <1>5 DEF Next, RunnerStep

\* Initial states map to initial states of the contract.
LEMMA InitMaps == Init => Contract!Init
BY DEF Init, Contract!Init, Phase, NotStarted, Contract!NotStarted, NoAnswer, Contract!NoAnswer

\* Every step maps to a step of the contract, or to a stutter.
LEMMA StepMaps ==
  ASSUME IInv, CancelInv, [Next]_runnerVars
  PROVE  [Contract!Next]_(Contract!vars)
<1>0. TypeOK /\ \A c \in Calls : CallInv(c)
  BY DEF IInv
<1>1. CASE UNCHANGED runnerVars
  BY <1>1 DEF runnerVars, Contract!vars, Phase
<1>2. ASSUME NEW c \in Calls, Call(c) PROVE Contract!Next
  <2>1. PhaseMap' = [PhaseMap EXCEPT ![c] = "open"] /\ PhaseMap[c] = "idle"
    BY <1>0, <1>2, PhaseMoves, PhaseOfPc DEF Call, PhaseAt, Labels, PhaseMap
  <2>2. Contract!Open(c)
    BY <1>2, <2>1 DEF Call, Contract!Open, PhaseMap
  <2> QED
    BY <2>2 DEF Contract!Next
<1>3. ASSUME NEW c \in Calls, RejectCommand(c) PROVE Contract!Next
  BY <1>3, RejectMaps
<1>4. ASSUME NEW c \in Calls, FirstAttempt(c) PROVE Contract!Next \/ UNCHANGED Contract!vars
  <2>1. 0 \in Attempts /\ PhaseAt(pc[c]) = "open"
    BY <1>4, RetriesAssumption DEF FirstAttempt, Attempts, PhaseAt
  <2>2. \A b \in Attempts : b >= 0 => proc[c][b] = NotStarted
    BY <1>0, <1>4, RetriesAssumption
       DEF FirstAttempt, CallInv, CurrentAttempt, AttemptsInOrder, Attempts
  <2> QED
    BY <1>0, <1>4, <2>1, <2>2, StartAttemptMaps DEF FirstAttempt
<1>5. ASSUME NEW c \in Calls, NextAttempt(c) PROVE Contract!Next \/ UNCHANGED Contract!vars
  <2>1. attempt[c] + 1 \in Attempts /\ PhaseAt(pc[c]) = "open" /\ attempt[c] \in Attempts
    BY <1>0, <1>5, RetriesAssumption
       DEF NextAttempt, CallInv, CurrentAttempt, TypeOK, Attempts, PhaseAt
  <2>2. \A b \in Attempts : b >= attempt[c] + 1 => proc[c][b] = NotStarted
    BY <1>0, <2>1, RetriesAssumption DEF CallInv, AttemptsInOrder, Attempts
  <2> QED
    BY <1>0, <1>5, <2>1, <2>2, StartAttemptMaps DEF NextAttempt
<1>6. ASSUME NEW c \in Calls, Connect(c) PROVE UNCHANGED Contract!vars
  <2>1. PhaseMap' = PhaseMap
    BY <1>0, <1>6, PhaseStays DEF Connect, PhaseAt, Labels
  <2> QED
    BY <1>6, <2>1 DEF Connect, Contract!vars, PhaseMap
<1>7. ASSUME NEW c \in Calls, Collect(c) PROVE Contract!Next \/ UNCHANGED Contract!vars
  BY <1>7, CollectMaps
<1>8. ASSUME NEW c \in Calls, TimeOut(c) PROVE Contract!Next \/ UNCHANGED Contract!vars
  <2>1. attempt[c] \in Attempts /\ PhaseAt(pc[c]) = "open" /\ UNCHANGED proc
    BY <1>0, <1>8 DEF TimeOut, TypeOK, PhaseAt
  <2> QED
    BY <1>0, <1>8, <2>1, AttemptFailsMaps DEF TimeOut, Contract!Next, Contract!Settle
<1>9. ASSUME NEW c \in Calls, DeliverCancel(c) PROVE Contract!Next
  BY <1>9, DeliverCancelMaps DEF DeliverCancel, CancelInv
<1>10. ASSUME NEW c \in Calls, RequestCancel(c) PROVE UNCHANGED Contract!vars
  BY <1>10 DEF RequestCancel, Contract!vars, Phase
<1>11. ASSUME NEW c \in Calls, NEW a \in Attempts, ProcessExits(c, a) PROVE Contract!Next
  <2>1. PhaseMap' = PhaseMap
    BY <1>11 DEF ProcessExits, PhaseMap, Phase
  <2>2. Contract!Exit(c, a)
    BY <1>11, <2>1 DEF ProcessExits, Contract!Exit, PhaseMap, Running, Exited,
       Contract!Running, Contract!Exited
  <2> QED
    BY <2>2 DEF Contract!Next
<1> QED
  BY <1>1, <1>2, <1>3, <1>4, <1>5, <1>6, <1>7, <1>8, <1>9, <1>10, <1>11
     DEF Next, RunnerStep, HostStep

--------------------------------------------------------------------------------
\* run() keeps the safety part of its contract for any calls, retries and exit
\* codes: a copy is launched only while the caller waits, an answer is the code of
\* the last copy or a made-up one, and a settled call stays settled (runner.py
\* 47-119).
THEOREM RunnerImplementsContract ==
  Spec => Contract!Init /\ [][Contract!Next]_(Contract!vars)
<1>1. Init => CancelInv
  BY DEF Init, CancelInv
<1>2. IInv /\ CancelInv /\ [Next]_runnerVars => CancelInv'
  BY CancelInvStep DEF IInv
<1>3. IInv /\ CancelInv /\ [Next]_runnerVars => [Contract!Next]_(Contract!vars)
  BY StepMaps
<1> QED
  BY <1>1, <1>2, <1>3, InitMaps, RunnerInvariant, PTL DEF Spec
================================================================================
