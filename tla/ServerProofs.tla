------------------------------ MODULE ServerProofs -----------------------------
(***************************************************************************)
(* What the server process keeps beside the runner: the jobs clients poll   *)
(* (JobManager), the audit file and counters of the requests it answers     *)
(* (ToolGateway), and the statistics of their durations (Statistics).  Jobs  *)
(* and requests drive CommandRunner, whose invariant theirs stand on.       *)
(***************************************************************************)
EXTENDS JobManager, ToolGateway, Statistics, CommandRunnerProofs, SequenceTheorems,
        FiniteSetTheorems

(***************************************************************************)
(* A cancelled job stays cancelled and starts nothing more, for any set of  *)
(* jobs, any number of retries and of cancellations, provided that the      *)
(* Python in use delivers every cancellation (~SwallowsCancel, 3.12 and     *)
(* later).  job_cancel writes the status before the task has seen the       *)
(* cancellation, so the argument is about what is under way: a job shown as *)
(* cancelled either has a cancellation waiting, or its task has taken one.  *)
(***************************************************************************)
\* What a job's status says of its task.
JobInv(j) ==
  /\ status[j] = "none" => pc[j] = "idle"
  /\ cancelling[j] => pc[j] \notin {"idle", "done", "cancelled"}
  /\ status[j] = "cancelled" => cancelling[j] \/ pc[j] = "cancelled"
  /\ finalized[j] => pc[j] \in Terminal

StatusTyped == status \in [Jobs -> Statuses] /\ finalized \in [Jobs -> BOOLEAN]

JInv == IInv /\ StatusTyped /\ \A j \in Jobs : JobInv(j)

--------------------------------------------------------------------------------
\* The jobs' commands behave as CommandRunner says.
LEMMA JobStepIsRunnerStep ==
  ASSUME [JobNext]_managerVars
  PROVE  [Next]_runnerVars
BY DEF JobNext, ManagerStep, job_start, job_cancel, job_cancel_refused, finalize,
       TaskStep, CommandStep, Next, Jobs, managerVars, runnerVars

\* Statuses and the callback's flag keep their types.
LEMMA StatusTypedStep ==
  ASSUME StatusTyped, [JobNext]_managerVars
  PROVE  StatusTyped'
<1>1. CASE UNCHANGED managerVars
  BY <1>1 DEF managerVars, jobVars, StatusTyped
<1>2. ASSUME NEW j \in Jobs, ManagerStep(j) PROVE StatusTyped'
  BY <1>2 DEF ManagerStep, job_start, job_cancel, job_cancel_refused, finalize,
              StatusTyped, Statuses
<1>3. ASSUME NEW j \in Jobs, TaskStep(j) \/ CommandStep(j) PROVE StatusTyped'
  BY <1>3 DEF TaskStep, CommandStep, jobVars, StatusTyped
<1> QED
  BY <1>1, <1>2, <1>3 DEF JobNext

\* A step of the task of job c: what it does to a cancellation under way.
LEMMA CancelUnderWay ==
  ASSUME ~SwallowsCancel, IInv, NEW c \in Calls, RunnerStep(c),
         cancelling[c] => pc[c] \notin {"idle", "done", "cancelled"}
  PROVE  /\ pc[c] \notin {"idle", "done", "cancelled"}
         /\ pc'[c] # "idle"
         /\ cancelling[c] => pc'[c] = "cancelled"
         /\ ~cancelling'[c]
<1>0. TypeOK
  BY DEF IInv
<1>1. CASE RejectCommand(c)
  BY <1>0, <1>1 DEF RejectCommand, Return, TypeOK
<1>2. CASE FirstAttempt(c)
  BY <1>0, <1>2 DEF FirstAttempt, StartAttempt, AttemptFails, Return, TypeOK
<1>3. CASE Connect(c)
  BY <1>0, <1>3 DEF Connect, TypeOK
<1>4. CASE Collect(c)
  BY <1>0, <1>4 DEF Collect, AttemptFails, Return, TypeOK
<1>5. CASE TimeOut(c)
  BY <1>0, <1>5 DEF TimeOut, AttemptFails, Return, TypeOK
<1>6. CASE NextAttempt(c)
  BY <1>0, <1>6 DEF NextAttempt, StartAttempt, AttemptFails, Return, TypeOK
<1>7. CASE DeliverCancel(c)
  BY <1>0, <1>7, SwallowsCancelAssumption DEF DeliverCancel, TypeOK
<1> QED
  BY <1>1, <1>2, <1>3, <1>4, <1>5, <1>6, <1>7 DEF RunnerStep

\* A step of one job leaves what JobInv says of another alone.
LEMMA OtherJobs ==
  ASSUME IInv, StatusTyped, NEW c \in Jobs, NEW d \in Jobs, c # d,
         ManagerStep(c) \/ TaskStep(c) \/ CommandStep(c)
  PROVE  /\ status'[d] = status[d] /\ finalized'[d] = finalized[d]
         /\ pc'[d] = pc[d] /\ cancelling'[d] = cancelling[d]
         /\ proc'[d] = proc[d]
<1>0. TypeOK
  BY DEF IInv
<1>1. CASE job_start(c)
  BY <1>0, <1>1 DEF job_start, Call, StatusTyped, Jobs, TypeOK
<1>2. CASE job_cancel(c)
  BY <1>0, <1>2 DEF job_cancel, RequestCancel, StatusTyped, Jobs, TypeOK
<1>3. CASE job_cancel_refused(c) \/ finalize(c)
  BY <1>0, <1>3 DEF job_cancel_refused, finalize, runnerVars, StatusTyped, Jobs, TypeOK
<1>4. CASE TaskStep(c)
  <2>1. RunnerStep(c) /\ UNCHANGED jobVars
    BY <1>4 DEF TaskStep
  <2>2. pc'[d] = pc[d] /\ proc'[d] = proc[d]
    BY <1>0, <2>1, OthersUntouched DEF Jobs
  <2>3. cancelling'[d] = cancelling[d]
    BY <1>0, <2>1 DEF RunnerStep, RejectCommand, FirstAttempt, Connect, Collect, TimeOut,
       NextAttempt, StartAttempt, DeliverCancel, Jobs, TypeOK
  <2> QED
    BY <2>1, <2>2, <2>3 DEF jobVars
<1>5. CASE CommandStep(c)
  BY <1>0, <1>5 DEF CommandStep, HostStep, ProcessExits, jobVars, Jobs, TypeOK
<1> QED
  BY <1>1, <1>2, <1>3, <1>4, <1>5 DEF ManagerStep

\* JobInv looks at four variables only.
LEMMA SameJobInv ==
  ASSUME NEW d \in Jobs, JobInv(d),
         status'[d] = status[d], finalized'[d] = finalized[d],
         pc'[d] = pc[d], cancelling'[d] = cancelling[d]
  PROVE  JobInv(d)'
BY DEF JobInv

\* A step of a job keeps its own JobInv: the heart of the argument, for here
\* job_cancel, the callback and the task meet.
LEMMA OwnStep ==
  ASSUME ~SwallowsCancel, IInv, StatusTyped, NEW c \in Jobs, JobInv(c),
         ManagerStep(c) \/ TaskStep(c) \/ CommandStep(c)
  PROVE  JobInv(c)'
<1>0. TypeOK
  BY DEF IInv
<1>1. CASE job_start(c)
  BY <1>0, <1>1 DEF job_start, Call, JobInv, StatusTyped, TypeOK, Jobs, Terminal
<1>2. CASE job_cancel(c)
  BY <1>0, <1>2 DEF job_cancel, RequestCancel, JobInv, StatusTyped, TypeOK, Jobs, Terminal
<1>3. CASE job_cancel_refused(c)
  BY <1>3, SameJobInv DEF job_cancel_refused, runnerVars
<1>4. CASE finalize(c)
  BY <1>0, <1>4 DEF finalize, runnerVars, JobInv, StatusTyped, Terminal
<1>5. CASE TaskStep(c)
  BY <1>5, CancelUnderWay DEF TaskStep, jobVars, JobInv, Jobs, Terminal
<1>6. CASE CommandStep(c)
  BY <1>6, SameJobInv DEF CommandStep, HostStep, ProcessExits, jobVars
<1> QED
  BY <1>1, <1>2, <1>3, <1>4, <1>5, <1>6 DEF ManagerStep

\* The invariant holds before any job is started.
LEMMA JInvInit == JobInit => JInv
<1> SUFFICES ASSUME JobInit PROVE JInv
  OBVIOUS
<1>1. IInv
  BY InductiveInit DEF JobInit
<1>2. StatusTyped
  BY DEF JobInit, StatusTyped, Statuses
<1>3. ASSUME NEW j \in Jobs PROVE JobInv(j)
  BY DEF JobInit, Init, JobInv, Jobs
<1> QED
  BY <1>1, <1>2, <1>3 DEF JInv

\* Every step of clients, tasks, callbacks and processes keeps it.
LEMMA JInvStep ==
  ASSUME ~SwallowsCancel, JInv, [JobNext]_managerVars
  PROVE  JInv'
<1>1. IInv'
  BY JobStepIsRunnerStep, InductiveStep DEF JInv
<1>2. StatusTyped'
  BY StatusTypedStep DEF JInv
<1>3. ASSUME NEW d \in Jobs PROVE JobInv(d)'
  <2>1. IInv /\ StatusTyped /\ JobInv(d)
    BY DEF JInv
  <2>2. CASE UNCHANGED managerVars
    BY <2>1, <2>2, SameJobInv DEF managerVars, runnerVars, jobVars
  <2>3. ASSUME NEW c \in Jobs, ManagerStep(c) \/ TaskStep(c) \/ CommandStep(c)
        PROVE  JobInv(d)'
    <3>1. CASE c = d
      BY <2>1, <2>3, <3>1, OwnStep
    <3>2. CASE c # d
      BY <2>1, <2>3, <3>2, OtherJobs, SameJobInv
    <3> QED
      BY <3>1, <3>2
  <2> QED
    BY <2>2, <2>3 DEF JobNext
<1> QED
  BY <1>1, <1>2, <1>3 DEF JInv

--------------------------------------------------------------------------------
\* What a step may do to a job that is shown as cancelled.
LEMMA CancelledStep ==
  ASSUME ~SwallowsCancel, JInv, [JobNext]_managerVars, NEW d \in Jobs, status[d] = "cancelled"
  PROVE  /\ status'[d] = "cancelled"
         /\ \A a \in Attempts : proc[d][a] = NotStarted => proc'[d][a] = NotStarted
<1>0. TypeOK /\ IInv /\ StatusTyped /\ JobInv(d)
  BY DEF JInv, IInv
<1>1. CASE UNCHANGED managerVars
  BY <1>1 DEF managerVars, runnerVars, jobVars
<1>2. ASSUME NEW c \in Jobs, c # d, ManagerStep(c) \/ TaskStep(c) \/ CommandStep(c)
      PROVE  status'[d] = status[d] /\ proc'[d] = proc[d]
  BY <1>0, <1>2, OtherJobs
<1>3. CASE job_start(d)
  BY <1>0, <1>3 DEF job_start, Call, JobInv, Jobs, TypeOK
<1>4. CASE job_cancel(d)
  BY <1>0, <1>4 DEF job_cancel, RequestCancel, StatusTyped
<1>5. CASE job_cancel_refused(d)
  BY <1>5 DEF job_cancel_refused, runnerVars
<1>6. CASE finalize(d)
  BY <1>0, <1>6 DEF finalize, runnerVars, JobInv, StatusTyped
<1>7. CASE TaskStep(d)
  <2>1. RunnerStep(d) /\ UNCHANGED jobVars
    BY <1>7 DEF TaskStep
  <2>2. cancelling[d] /\ pc[d] \notin {"idle", "done", "cancelled"} /\ pc'[d] = "cancelled"
    BY <1>0, <2>1, CancelUnderWay DEF JobInv, Jobs
  <2>3. DeliverCancel(d)
    BY <1>0, <2>1, <2>2 DEF RunnerStep, RejectCommand, FirstAttempt, Connect, Collect,
       TimeOut, NextAttempt
  <2>4. attempt[d] \in Attempts /\ proc[d] \in [Attempts -> ProcessStates]
    BY <1>0 DEF TypeOK, Jobs
  <2>5. \A a \in Attempts : proc[d][a] = NotStarted => proc'[d][a] = NotStarted
    BY <1>0, <2>3, <2>4 DEF DeliverCancel, TypeOK, NotStarted, Running, Killed, Jobs
  <2> QED
    BY <2>1, <2>5 DEF jobVars
<1>8. CASE CommandStep(d)
  <2>1. \A a \in Attempts : proc[d][a] = NotStarted => proc'[d][a] = NotStarted
    BY <1>0, <1>8 DEF CommandStep, HostStep, ProcessExits, TypeOK, NotStarted, Running, Jobs
  <2> QED
    BY <1>8, <2>1 DEF CommandStep, jobVars
<1> QED
  BY <1>1, <1>2, <1>3, <1>4, <1>5, <1>6, <1>7, <1>8 DEF JobNext, ManagerStep

\* Every behaviour of JobManager on such a Python satisfies the invariant.
THEOREM JobInvariant == ~SwallowsCancel => (JobSpec => []JInv)
<1> SUFFICES ASSUME ~SwallowsCancel PROVE JobSpec => []JInv
  OBVIOUS
<1>1. JInv /\ [JobNext]_managerVars => JInv'
  BY JInvStep
<1> QED
  BY <1>1, JInvInit, PTL DEF JobSpec

\* A job once shown as cancelled is shown as cancelled for ever, although
\* job_cancel writes the status on its own and _finalize writes it again
\* (jobs.py 47-55, 68-76).
THEOREM CancelIsFinal == ~SwallowsCancel => (JobSpec => CancelledIsFinal)
<1> SUFFICES ASSUME ~SwallowsCancel PROVE JobSpec => CancelledIsFinal
  OBVIOUS
<1>1. JInv /\ [JobNext]_managerVars
      => [\A j \in Jobs : status[j] = "cancelled" => status'[j] = "cancelled"]_managerVars
  BY CancelledStep
<1> QED
  BY <1>1, JobInvariant, PTL DEF JobSpec, CancelledIsFinal

\* A job shown as cancelled starts no process from then on, not even one that was
\* sleeping before a retry when it was cancelled (runner.py 107-108).
THEOREM CancelStops == ~SwallowsCancel => (JobSpec => CancelStopsAttempts)
<1> SUFFICES ASSUME ~SwallowsCancel PROVE JobSpec => CancelStopsAttempts
  OBVIOUS
<1>1. JInv /\ [JobNext]_managerVars
      => [\A j \in Jobs : status[j] = "cancelled" =>
            \A a \in Attempts : proc[j][a] = NotStarted => proc'[j][a] = NotStarted]_managerVars
  BY CancelledStep
<1> QED
  BY <1>1, JobInvariant, PTL DEF JobSpec, CancelStopsAttempts

--------------------------------------------------------------------------------
(***************************************************************************)
(* What a client that polls a job is shown: status, events and result.  It  *)
(* holds on every Python, whether or not a cancellation can be swallowed.   *)
(***************************************************************************)

Asked(j) == \E i \in 1..Len(events[j]) : events[j][i] = "cancel_requested"

\* EventsTellStatus for one job
Tells(j) ==
  LET es == events[j] IN
  /\ status[j] = "none" <=> es = <<>>
  /\ status[j] # "none" =>
       /\ es[1] = "started"
       /\ \A i \in 2..Len(es) : es[i] # "started"
       /\ status[j] = CASE es[Len(es)] = "started"   -> "running"
                        [] es[Len(es)] = "completed" -> "completed"
                        [] OTHER                     -> "cancelled"
       /\ \A i \in 1..(Len(es) - 1) : es[i] \notin {"completed", "cancelled"}

\* Where the task of a job is when something has been written about the job
TaskPlace(j) ==
  /\ status[j] = "none" <=> pc[j] = "idle"
  /\ cancelling[j] => pc[j] \notin {"idle", "done", "cancelled"}
  /\ pc[j] = "done" => answer[j] # NoAnswer
  /\ finalized[j] \/ refused[j] => pc[j] \in Terminal

\* Which of it says that the task has ended, and how
Ended(j) ==
  /\ ~finalized[j] => \A i \in 1..Len(events[j]) : events[j][i] \notin {"completed", "cancelled"}
  /\ cancelling[j] \/ pc[j] = "cancelled" \/ status[j] = "cancelled" => Asked(j)

\* ResultIffCompleted for one job
Resulted(j) ==
  /\ ~finalized[j] => status[j] # "completed"
  /\ status[j] = "completed" <=> result[j] # NoAnswer
  /\ status[j] = "completed" => pc[j] = "done" /\ result[j] = answer[j]

ShownTypes ==
  /\ status \in [Jobs -> Statuses]
  /\ result \in [Jobs -> Results \cup {NoAnswer}]
  /\ events \in [Jobs -> Seq(Events)]
  /\ finalized \in [Jobs -> BOOLEAN]
  /\ refused \in [Jobs -> BOOLEAN]

ShownInv ==
  /\ IInv /\ ShownTypes
  /\ \A j \in Jobs : TaskPlace(j) /\ Tells(j) /\ Ended(j) /\ Resulted(j)

LEMMA ShownInit == JobInit => ShownInv
<1> SUFFICES ASSUME JobInit PROVE ShownInv
  OBVIOUS
<1>1. IInv
  BY InductiveInit DEF JobInit
<1>2. ShownTypes
  BY DEF JobInit, ShownTypes, Statuses
<1>3. ASSUME NEW j \in Jobs PROVE TaskPlace(j) /\ Tells(j) /\ Ended(j) /\ Resulted(j)
  BY DEF JobInit, Init, Jobs, TaskPlace, Tells, Ended, Resulted
<1> QED
  BY <1>1, <1>2, <1>3 DEF ShownInv

\* An event is added at the end (jobs.py 26-27).
LEMMA Appended ==
  ASSUME NEW es \in Seq(Events), NEW x \in Events
  PROVE  /\ Append(es, x) \in Seq(Events) /\ Append(es, x) # <<>>
         /\ Len(es) \in Nat /\ Len(Append(es, x)) = Len(es) + 1
         /\ \A i \in 1..Len(es) : Append(es, x)[i] = es[i]
         /\ Append(es, x)[Len(es) + 1] = x
         /\ es # <<>> => Len(es) >= 1
<1>1. Len(es) \in Nat /\ (es # <<>> => Len(es) >= 1)
  OBVIOUS
<1> QED
  BY <1>1, AppendProperties

LEMMA ShownTypesStep ==
  ASSUME IInv, ShownTypes, [JobNext]_managerVars
  PROVE  ShownTypes'
<1>0. TypeOK
  BY DEF IInv
<1>1. CASE UNCHANGED managerVars
  BY <1>1 DEF managerVars, jobVars, ShownTypes
<1>2. ASSUME NEW j \in Jobs, NEW x \in Events, AddEvent(j, x) PROVE events' \in [Jobs -> Seq(Events)]
  <2>1. Append(events[j], x) \in Seq(Events)
    BY Appended DEF ShownTypes
  <2> QED
    BY <1>2, <2>1 DEF AddEvent, ShownTypes
<1>3. ASSUME NEW j \in Jobs, job_start(j) PROVE ShownTypes'
  BY <1>2, <1>3 DEF job_start, ShownTypes, Statuses, Events
<1>4. ASSUME NEW j \in Jobs, job_cancel(j) PROVE ShownTypes'
  BY <1>2, <1>4 DEF job_cancel, ShownTypes, Statuses, Events
<1>5. ASSUME NEW j \in Jobs, job_cancel_refused(j) PROVE ShownTypes'
  BY <1>5 DEF job_cancel_refused, ShownTypes
<1>6. ASSUME NEW j \in Jobs, finalize(j) PROVE ShownTypes'
  <2>1. answer[j] \in Results \cup {NoAnswer}
    BY <1>0 DEF TypeOK, Jobs
  <2>2. events' \in [Jobs -> Seq(Events)]
    BY <1>2, <1>6 DEF finalize, Events
  <2> QED
    BY <1>6, <2>1, <2>2 DEF finalize, ShownTypes, Statuses
<1>7. ASSUME NEW j \in Jobs, TaskStep(j) \/ CommandStep(j) PROVE ShownTypes'
  BY <1>7 DEF TaskStep, CommandStep, jobVars, ShownTypes
<1> QED
  BY <1>1, <1>3, <1>4, <1>5, <1>6, <1>7 DEF JobNext, ManagerStep

\* A step of one job leaves what is shown of another alone.
LEMMA OtherShown ==
  ASSUME IInv, ShownTypes, NEW c \in Jobs, NEW d \in Jobs, c # d,
         ManagerStep(c) \/ TaskStep(c) \/ CommandStep(c)
  PROVE  /\ status'[d] = status[d] /\ finalized'[d] = finalized[d]
         /\ result'[d] = result[d] /\ events'[d] = events[d] /\ refused'[d] = refused[d]
         /\ pc'[d] = pc[d] /\ cancelling'[d] = cancelling[d] /\ answer'[d] = answer[d]
<1>0. TypeOK /\ StatusTyped
  BY DEF IInv, ShownTypes, StatusTyped
<1>1. /\ status'[d] = status[d] /\ finalized'[d] = finalized[d]
      /\ pc'[d] = pc[d] /\ cancelling'[d] = cancelling[d]
  BY <1>0, OtherJobs
<1>2. Call(c) \/ RunnerStep(c) \/ RequestCancel(c) \/ HostStep(c) \/ UNCHANGED runnerVars
  BY DEF ManagerStep, job_start, job_cancel, job_cancel_refused, finalize, TaskStep, CommandStep
<1>3. answer'[d] = answer[d]
  BY <1>0, <1>2, OthersUntouched DEF Jobs, runnerVars
<1>4. result'[d] = result[d] /\ events'[d] = events[d] /\ refused'[d] = refused[d]
  BY DEF ManagerStep, job_start, job_cancel, job_cancel_refused, finalize, AddEvent,
         TaskStep, CommandStep, jobVars, ShownTypes
<1> QED
  BY <1>1, <1>3, <1>4

Shown(j) == TaskPlace(j) /\ Tells(j) /\ Ended(j) /\ Resulted(j)

LEMMA SameShown ==
  ASSUME NEW d \in Jobs, Shown(d),
         status'[d] = status[d], finalized'[d] = finalized[d],
         result'[d] = result[d], events'[d] = events[d], refused'[d] = refused[d],
         pc'[d] = pc[d], cancelling'[d] = cancelling[d], answer'[d] = answer[d]
  PROVE  Shown(d)'
BY DEF Shown, TaskPlace, Tells, Ended, Asked, Resulted

\* A step of the task of job c starts before it has ended; if it ends it has an answer or
\* was cancelled.
LEMMA TaskPlaces ==
  ASSUME IInv, NEW c \in Jobs, RunnerStep(c), TaskPlace(c)
  PROVE  /\ pc[c] \notin {"idle", "done", "cancelled"}
         /\ pc'[c] # "idle"
         /\ cancelling'[c] => cancelling[c] /\ pc'[c] \notin {"idle", "done", "cancelled"}
         /\ pc'[c] = "done" => answer'[c] # NoAnswer
         /\ pc'[c] = "cancelled" => cancelling[c]
<1>0. TypeOK /\ c \in Calls
  BY DEF IInv, Jobs
<1>n. \A n : Result(n) # NoAnswer
  <2> SUFFICES ASSUME NEW n PROVE Result(n) # NoAnswer
    OBVIOUS
  <2>1. CASE n = 0
    BY <2>1 DEF Result, NoAnswer
  <2>2. CASE n # 0
    BY <2>2 DEF Result, NoAnswer
  <2> QED
    BY <2>1, <2>2
<1>r. ASSUME NEW n, Return(c, n) PROVE pc'[c] = "done" /\ answer'[c] # NoAnswer
  BY <1>0, <1>n, <1>r DEF Return, TypeOK
<1>f. ASSUME NEW a, NEW why, AttemptFails(c, a, why)
      PROVE  pc'[c] = "backoff" \/ (pc'[c] = "done" /\ answer'[c] # NoAnswer)
  BY <1>0, <1>r, <1>f DEF AttemptFails, TypeOK
<1>1. CASE RejectCommand(c)
  BY <1>0, <1>1, <1>r DEF RejectCommand
<1>2. ASSUME NEW a, StartAttempt(c, a)
      PROVE  /\ pc'[c] \in {"spawning", "backoff", "done"} /\ cancelling' = cancelling
             /\ pc'[c] = "done" => answer'[c] # NoAnswer
  BY <1>0, <1>2, <1>f DEF StartAttempt, TypeOK
<1>3. CASE FirstAttempt(c) \/ NextAttempt(c)
  BY <1>2, <1>3 DEF FirstAttempt, NextAttempt
<1>4. CASE Connect(c)
  BY <1>0, <1>4 DEF Connect, TypeOK
<1>5. CASE Collect(c)
  <2>1. pc'[c] = "backoff" \/ (pc'[c] = "done" /\ answer'[c] # NoAnswer)
    BY <1>5, <1>r, <1>f DEF Collect
  <2> QED
    BY <1>0, <1>5, <2>1 DEF Collect, TypeOK
<1>6. CASE TimeOut(c)
  BY <1>0, <1>6, <1>f DEF TimeOut
<1>7. CASE DeliverCancel(c)
  BY <1>0, <1>7 DEF DeliverCancel, TypeOK, TaskPlace
<1> QED
  BY <1>1, <1>3, <1>4, <1>5, <1>6, <1>7 DEF RunnerStep

\* An event other than "started" is added to a job that has been started and that nothing
\* final has been said of: the events tell the status that goes with it.
LEMMA TellsMore ==
  ASSUME ShownTypes, NEW j \in Jobs, NEW x \in Events \ {"started"}, Tells(j), status[j] # "none",
         \A i \in 1..Len(events[j]) : events[j][i] \notin {"completed", "cancelled"},
         events' = [events EXCEPT ![j] = Append(@, x)],
         status'[j] = IF x = "completed" THEN "completed" ELSE "cancelled"
  PROVE  /\ Tells(j)'
         /\ Len(events'[j]) = Len(events[j]) + 1 /\ Len(events[j]) \in Nat
         /\ \A i \in 1..Len(events[j]) : events'[j][i] = events[j][i]
         /\ events'[j][Len(events[j]) + 1] = x
<1> DEFINE es == events[j]
           ex == events'[j]
<1>1. es \in Seq(Events) /\ ex = Append(es, x) /\ es # <<>>
  BY DEF ShownTypes, Tells
<1>2. /\ ex \in Seq(Events) /\ ex # <<>> /\ Len(es) \in Nat /\ Len(ex) = Len(es) + 1
      /\ \A i \in 1..Len(es) : ex[i] = es[i]
      /\ ex[Len(es) + 1] = x /\ Len(es) >= 1
  BY <1>1, Appended
<1>3. es[1] = "started" /\ \A i \in 2..Len(es) : es[i] # "started"
  BY DEF Tells
<1>4. \A i \in 1..Len(es) : es[i] \notin {"completed", "cancelled"}
  OBVIOUS
<1>5. x \in {"cancel_requested", "cancelled", "completed"}
  BY DEF Events
<1> HIDE DEF es, ex
<1>6. ex[1] = "started" /\ \A i \in 2..Len(ex) : ex[i] # "started"
  <2>1. ex[1] = "started"
    BY <1>2, <1>3
  <2>2. ASSUME NEW i \in 2..Len(ex) PROVE ex[i] # "started"
    <3>1. i \in 2..Len(es) \/ i = Len(es) + 1
      BY <1>2
    <3>2. CASE i \in 2..Len(es)
      BY <1>2, <1>3, <3>2
    <3>3. CASE i = Len(es) + 1
      BY <1>2, <1>5, <3>3
    <3> QED
      BY <3>1, <3>2, <3>3
  <2> QED
    BY <2>1, <2>2
<1>7. \A i \in 1..(Len(ex) - 1) : ex[i] \notin {"completed", "cancelled"}
  BY <1>2, <1>4
<1>8. ex[Len(ex)] = x
  BY <1>2
<1>9. status'[j] # "none"
      /\ status'[j] = CASE ex[Len(ex)] = "started"   -> "running"
                        [] ex[Len(ex)] = "completed" -> "completed"
                        [] OTHER                     -> "cancelled"
  BY <1>5, <1>8
<1>10. Tells(j)'
  BY <1>2, <1>6, <1>7, <1>9 DEF Tells, ex
<1> QED
  BY <1>2, <1>10 DEF es, ex

LEMMA OwnShown ==
  ASSUME IInv, ShownTypes, NEW c \in Jobs, Shown(c),
         ManagerStep(c) \/ TaskStep(c) \/ CommandStep(c)
  PROVE  Shown(c)'
<1>0. TypeOK /\ c \in Calls
  BY DEF IInv, Jobs
<1>s. TaskPlace(c) /\ Tells(c) /\ Ended(c) /\ Resulted(c)
  BY DEF Shown
<1>1. CASE job_start(c)
  <2>1. /\ pc[c] = "idle" /\ pc'[c] = "created" /\ status'[c] = "running"
        /\ cancelling' = cancelling /\ answer' = answer
        /\ result' = result /\ finalized' = finalized /\ refused' = refused
        /\ events' = [events EXCEPT ![c] = Append(@, "started")]
    BY <1>0, <1>1 DEF job_start, Call, AddEvent, TypeOK, ShownTypes
  <2>2. status[c] = "none" /\ events[c] = <<>>
    BY <1>s, <2>1 DEF TaskPlace, Tells
  <2>3. events'[c] = <<"started">>
    BY <2>1, <2>2 DEF ShownTypes
  <2>n. Len(events'[c]) = 1 /\ events'[c][1] = "started" /\ events'[c] # <<>>
    BY <2>3
  <2>4. Tells(c)'
    BY <2>1, <2>n DEF Tells
  <2>5. TaskPlace(c)' /\ Resulted(c)'
    BY <1>s, <2>1, <2>2 DEF TaskPlace, Resulted, Terminal
  <2>6. Ended(c)'
    BY <1>s, <2>1, <2>3 DEF Ended, TaskPlace
  <2> QED
    BY <2>4, <2>5, <2>6 DEF Shown
<1>2. CASE job_cancel(c)
  <2>1. /\ pc[c] \notin {"idle", "done", "cancelled"} /\ pc' = pc /\ status'[c] = "cancelled"
        /\ status[c] # "none" /\ answer' = answer
        /\ result' = result /\ finalized' = finalized /\ refused' = refused
        /\ events' = [events EXCEPT ![c] = Append(@, "cancel_requested")]
    BY <1>2 DEF job_cancel, RequestCancel, Terminal, AddEvent, ShownTypes
  <2>2. ~finalized[c] /\ ~refused[c]
    BY <1>s, <2>1 DEF TaskPlace, Terminal
  <2>3. \A i \in 1..Len(events[c]) : events[c][i] \notin {"completed", "cancelled"}
    BY <1>s, <2>2 DEF Ended
  <2>4. /\ Tells(c)' /\ Len(events'[c]) = Len(events[c]) + 1 /\ Len(events[c]) \in Nat
        /\ \A i \in 1..Len(events[c]) : events'[c][i] = events[c][i]
        /\ events'[c][Len(events[c]) + 1] = "cancel_requested"
    BY <1>s, <2>1, <2>3, TellsMore DEF Events
  <2>5. TaskPlace(c)' /\ Resulted(c)'
    BY <1>s, <2>1, <2>2 DEF TaskPlace, Resulted, Terminal
  <2>6. ASSUME NEW i \in 1..Len(events'[c]) PROVE events'[c][i] \notin {"completed", "cancelled"}
    <3>1. i \in 1..Len(events[c]) \/ i = Len(events[c]) + 1
      BY <2>4
    <3> QED
      BY <2>3, <2>4, <3>1
  <2>7. Asked(c)'
    BY <2>4 DEF Asked
  <2>8. Ended(c)'
    BY <2>6, <2>7 DEF Ended
  <2> QED
    BY <2>4, <2>5, <2>8 DEF Shown
<1>3. CASE job_cancel_refused(c)
  BY <1>s, <1>3 DEF job_cancel_refused, runnerVars, Shown, TaskPlace, Tells, Ended, Asked,
                    Resulted
<1>4. CASE finalize(c)
  <2>1. /\ pc[c] \in Terminal /\ ~finalized[c] /\ finalized'[c]
        /\ pc' = pc /\ cancelling' = cancelling /\ answer' = answer /\ refused' = refused
    BY <1>4 DEF finalize, runnerVars, ShownTypes
  <2>2. status[c] # "none" /\ status[c] # "completed" /\ result[c] = NoAnswer
    BY <1>s, <2>1 DEF TaskPlace, Resulted, Terminal
  <2>3. \A i \in 1..Len(events[c]) : events[c][i] \notin {"completed", "cancelled"}
    BY <1>s, <2>1 DEF Ended
  <2>4. CASE pc[c] = "cancelled"
    <3>1. /\ status'[c] = "cancelled" /\ result' = result
          /\ events' = [events EXCEPT ![c] = Append(@, "cancelled")]
      BY <1>4, <2>4 DEF finalize, AddEvent, ShownTypes
    <3>2. /\ Tells(c)' /\ Len(events'[c]) = Len(events[c]) + 1 /\ Len(events[c]) \in Nat
          /\ \A i \in 1..Len(events[c]) : events'[c][i] = events[c][i]
      BY <1>s, <2>2, <2>3, <3>1, TellsMore DEF Events
    <3>3. Asked(c) /\ Asked(c)'
      BY <1>s, <2>4, <3>2 DEF Ended, Asked
    <3>4. TaskPlace(c)' /\ Resulted(c)'
      BY <1>s, <2>1, <2>2, <3>1 DEF TaskPlace, Resulted
    <3>5. Ended(c)'
      BY <2>1, <3>3 DEF Ended
    <3> QED
      BY <3>2, <3>4, <3>5 DEF Shown
  <2>5. CASE pc[c] = "done"
    <3>1. /\ status'[c] = "completed" /\ result'[c] = answer[c]
          /\ events' = [events EXCEPT ![c] = Append(@, "completed")]
      BY <1>4, <2>5 DEF finalize, AddEvent, ShownTypes
    <3>2. Tells(c)'
      BY <1>s, <2>2, <2>3, <3>1, TellsMore DEF Events
    <3>3. TaskPlace(c)' /\ Resulted(c)'
      BY <1>s, <2>1, <2>2, <2>5, <3>1 DEF TaskPlace, Resulted
    <3>4. Ended(c)'
      BY <1>s, <2>1, <2>5, <3>1 DEF Ended, TaskPlace
    <3> QED
      BY <3>2, <3>3, <3>4 DEF Shown
  <2> QED
    BY <2>1, <2>4, <2>5 DEF Terminal
<1>5. CASE TaskStep(c)
  <2>1. RunnerStep(c) /\ UNCHANGED jobVars
    BY <1>5 DEF TaskStep
  <2>2. /\ pc[c] \notin {"idle", "done", "cancelled"} /\ pc'[c] # "idle"
        /\ cancelling'[c] => cancelling[c] /\ pc'[c] \notin {"idle", "done", "cancelled"}
        /\ pc'[c] = "done" => answer'[c] # NoAnswer
        /\ pc'[c] = "cancelled" => cancelling[c]
    BY <1>s, <2>1, TaskPlaces
  <2>3. ~finalized[c] /\ ~refused[c] /\ status[c] # "completed"
    BY <1>s, <2>2 DEF TaskPlace, Resulted, Terminal
  <2>4. TaskPlace(c)' /\ Resulted(c)'
    BY <1>s, <2>1, <2>2, <2>3 DEF TaskPlace, Resulted, jobVars
  <2>5. Tells(c)' /\ Ended(c)'
    BY <1>s, <2>1, <2>2 DEF Tells, Ended, Asked, jobVars
  <2> QED
    BY <2>4, <2>5 DEF Shown
<1>6. CASE CommandStep(c)
  BY <1>6, SameShown DEF CommandStep, HostStep, ProcessExits, jobVars
<1> QED
  BY <1>1, <1>2, <1>3, <1>4, <1>5, <1>6 DEF ManagerStep

LEMMA ShownStep ==
  ASSUME ShownInv, [JobNext]_managerVars
  PROVE  ShownInv'
<1>1. IInv'
  BY JobStepIsRunnerStep, InductiveStep DEF ShownInv
<1>2. ShownTypes'
  BY ShownTypesStep DEF ShownInv
<1>3. ASSUME NEW d \in Jobs PROVE Shown(d)'
  <2>1. IInv /\ ShownTypes /\ Shown(d)
    BY DEF ShownInv, Shown
  <2>2. CASE UNCHANGED managerVars
    BY <2>1, <2>2, SameShown DEF managerVars, runnerVars, jobVars
  <2>3. ASSUME NEW c \in Jobs, ManagerStep(c) \/ TaskStep(c) \/ CommandStep(c)
        PROVE  Shown(d)'
    <3>1. CASE c = d
      BY <2>1, <2>3, <3>1, OwnShown
    <3>2. CASE c # d
      BY <2>1, <2>3, <3>2, OtherShown, SameShown
    <3> QED
      BY <3>1, <3>2
  <2> QED
    BY <2>2, <2>3 DEF JobNext
<1> QED
  BY <1>1, <1>2, <1>3 DEF ShownInv, Shown

\* What holds of every job at every moment, on every Python
THEOREM ShownInvariant == JobSpec => []ShownInv
BY ShownInit, ShownStep, PTL DEF JobSpec

\* The jobs' variables keep their types.
THEOREM JobTypes == JobSpec => []JobTypeOK
<1>1. ShownInv => JobTypeOK
  BY DEF ShownInv, ShownTypes, JobTypeOK, IInv
<1> QED
  BY <1>1, ShownInvariant, PTL

\* The events a client polls agree with the status it polls, whatever order job_cancel and
\* the callback run in (jobs.py 47-55, 68-76).
THEOREM JobEventsTell == JobSpec => []EventsTellStatus
<1>1. ShownInv => EventsTellStatus
  BY DEF ShownInv, Tells, EventsTellStatus
<1> QED
  BY <1>1, ShownInvariant, PTL

\* A result is shown exactly with "completed", and is the answer of run() (jobs.py 49-54).
THEOREM JobResults == JobSpec => []ResultIffCompleted
<1>1. ShownInv => ResultIffCompleted
  BY DEF ShownInv, Resulted, ResultIffCompleted
<1> QED
  BY <1>1, ShownInvariant, PTL

\* A job that only ever refused a cancellation runs to its answer (jobs.py 70-71).
THEOREM JobRefusals == JobSpec => []RefusedJobIsNotCancelled
<1>1. ASSUME ShownInv, NEW j \in Jobs, refused[j],
             \A i \in DOMAIN events[j] : events[j][i] # "cancel_requested"
      PROVE  pc[j] = "done" /\ status[j] # "cancelled"
  <2>1. DOMAIN events[j] = 1..Len(events[j])
    BY <1>1 DEF ShownInv, ShownTypes
  <2> QED
    BY <1>1, <2>1 DEF ShownInv, TaskPlace, Ended, Asked, Terminal
<1>2. ShownInv => RefusedJobIsNotCancelled
  BY <1>1 DEF RefusedJobIsNotCancelled
<1> QED
  BY <1>2, ShownInvariant, PTL

--------------------------------------------------------------------------------
(***************************************************************************)
(* Only permitted commands reach the host, and a request recorded as        *)
(* blocked never started a process: for any set of concurrent requests and  *)
(* commands, any number of retries and of crashes.  The property is about   *)
(* processes and the audit file, the policy check about a request that has  *)
(* not begun; RequestInv ties the two together through the program counter  *)
(* of the request's call.  The runner's own invariant survives crashes.     *)
(***************************************************************************)
RequestInv(r) ==
  /\ stage[r] = "new" => pc[r] = "idle"
  /\ stage[r] = "executing" => pc[r] \notin {"idle", "done", "cancelled"}
  /\ pc[r] # "idle" /\ request[r].entry # "direct" =>
       Permits(request[r].cmd, request[r].danger)
  /\ \A i \in DOMAIN audit :
       audit[i].req = r /\ audit[i].kind = "blocked" => pc[r] = "idle" /\ stage[r] # "new"

GatewayTypes ==
  /\ request \in [Requests -> RequestKinds \cup {NoRequest}]
  /\ stage \in [Requests -> Stages]
  /\ audit \in Seq(AuditLine)

GInv == IInv /\ GatewayTypes /\ \A r \in Requests : RequestInv(r)

--------------------------------------------------------------------------------
\* A call that has not been made has no process.
LEMMA IdleNotStarted ==
  ASSUME IInv, NEW r \in Requests, pc[r] = "idle"
  PROVE  ~Started(r)
BY RetriesAssumption
   DEF IInv, CallInv, CurrentAttempt, AttemptsInOrder, Started, Attempts, Requests, TypeOK

\* A crash of the process keeps the runner's invariant: what it interrupts is
\* recorded as interrupted, and no call goes on.
LEMMA CrashKeepsIInv ==
  ASSUME IInv, Crash, \A r \in Requests : RequestInv(r)
  PROVE  IInv'
<1>0. TypeOK /\ \A c \in Calls : CallInv(c)
  BY DEF IInv
<1>1. TypeOK'
  BY <1>0 DEF TypeOK, Crash, Labels, Outcomes
<1>2. ASSUME NEW c \in Calls PROVE CallInv(c)'
  <2>0. CallInv(c) /\ attempt[c] \in Attempts
    BY <1>0 DEF TypeOK
  <2>1. attempt' = attempt /\ proc' = proc /\ answer' = answer
    BY DEF Crash
  <2>2. CASE stage[c] = "executing" /\ pc[c] \in {"spawning", "communicating"}
    <3>1. pc'[c] = "cancelled"
      BY <2>2 DEF Crash
    <3>2. \A a \in Attempts :
            seen'[c][a] = IF a = attempt[c] THEN "interrupted" ELSE seen[c][a]
      BY <1>0, <2>0, <2>2 DEF Crash, TypeOK
    <3>3. AttemptsInOrder(c)'
      BY <2>0, <2>1, <3>2, RetriesAssumption DEF CallInv, AttemptsInOrder, Attempts
    <3>4. CurrentAttempt(c)'
      BY <3>1 DEF CurrentAttempt
    <3>5. Orphans(c)'
      BY <2>0, <2>1, <3>2 DEF CallInv, Orphans
    <3>6. Answered(c)'
      BY <2>0, <2>2, <3>2 DEF CallInv, Answered
    <3> QED
      BY <3>3, <3>4, <3>5, <3>6 DEF CallInv
  <2>3. CASE ~(stage[c] = "executing" /\ pc[c] \in {"spawning", "communicating"})
    <3>1. seen'[c] = seen[c]
      BY <2>3 DEF Crash
    <3>2. CASE pc'[c] = pc[c]
      BY <2>0, <2>1, <3>1, <3>2, OtherCalls
    <3>3. CASE pc'[c] # pc[c]
      <4>1. stage[c] = "executing" /\ pc'[c] = "cancelled"
        BY <3>3 DEF Crash
      <4>2. pc[c] \notin {"idle", "done", "cancelled", "spawning", "communicating"}
        BY <2>3, <4>1 DEF RequestInv, Requests
      <4>3. AttemptsInOrder(c)' /\ CurrentAttempt(c)'
        BY <2>0, <2>1, <3>1, <4>1 DEF CallInv, AttemptsInOrder, CurrentAttempt
      <4>4. Orphans(c)' /\ Answered(c)'
        BY <2>0, <2>1, <3>1, <4>2 DEF CallInv, Orphans, Answered
      <4> QED
        BY <4>3, <4>4 DEF CallInv
    <3> QED
      BY <3>2, <3>3
  <2> QED
    BY <2>2, <2>3
<1> QED
  BY <1>1, <1>2 DEF IInv

\* Every step but a crash is a step of the runner, or none of its business.
LEMMA GatewayStepIsRunnerStep ==
  ASSUME NEW r \in Requests, Arrives(r) \/ Progress(r) \/ ClientDrops(r) \/ ProcessStep(r)
  PROVE  \/ UNCHANGED runnerVars
         \/ Call(r) \/ RunnerStep(r) \/ RequestCancel(r) \/ HostStep(r)
BY DEF Arrives, Begin, Progress, ClientDrops, ProcessStep

\* Every step of the gateway keeps the runner's invariant.
LEMMA IInvStep ==
  ASSUME GInv, [GatewayNext]_vars
  PROVE  IInv'
<1>1. CASE Crash
  BY <1>1, CrashKeepsIInv DEF GInv
<1>2. CASE ~Crash
  <2>1. [Next]_runnerVars
    BY <1>2, GatewayStepIsRunnerStep DEF GatewayNext, Next, Requests, vars, runnerVars
  <2> QED
    BY <2>1, InductiveStep DEF GInv
<1> QED
  BY <1>1, <1>2

\* A call's step away from "idle" is its first, and RunnerStep never takes it.
LEMMA RunnerStepIsUnderWay ==
  ASSUME IInv, NEW c \in Calls, RunnerStep(c), pc[c] # "idle"
  PROVE  pc'[c] # "idle"
<1>0. TypeOK
  BY DEF IInv
<1>1. CASE RejectCommand(c) \/ Collect(c) \/ TimeOut(c)
  BY <1>0, <1>1 DEF RejectCommand, Collect, TimeOut, AttemptFails, Return, TypeOK
<1>2. CASE FirstAttempt(c) \/ NextAttempt(c)
  BY <1>0, <1>2 DEF FirstAttempt, NextAttempt, StartAttempt, AttemptFails, Return, TypeOK
<1>3. CASE Connect(c) \/ DeliverCancel(c)
  BY <1>0, <1>3 DEF Connect, DeliverCancel, TypeOK
<1> QED
  BY <1>1, <1>2, <1>3 DEF RunnerStep

\* Writing a line of one request, and appending only.
LEMMA WriteAppends ==
  ASSUME GatewayTypes, NEW r \in Requests, NEW kind \in {"blocked", "executed"},
         NEW res \in Replies, Write(r, kind, res)
  PROVE  /\ audit' \in Seq(AuditLine)
         /\ \A i \in DOMAIN audit' :
              \/ i \in DOMAIN audit /\ audit'[i] = audit[i]
              \/ audit'[i].req = r /\ audit'[i].kind = kind
<1>1. [req |-> r, kind |-> kind, ok |-> res.ok, code |-> res.code] \in AuditLine
  BY DEF AuditLine, Replies
<1> QED
  <2> DEFINE line == [req |-> r, kind |-> kind, ok |-> res.ok, code |-> res.code]
  <2>1. audit \in Seq(AuditLine) /\ audit' = Append(audit, line)
    BY DEF GatewayTypes, Write
  <2>2. audit' \in Seq(AuditLine) /\ DOMAIN audit' = 1..(Len(audit) + 1)
    BY <1>1, <2>1
  <2>3. \A i \in 1..(Len(audit) + 1) :
          audit'[i] = IF i = Len(audit) + 1 THEN line ELSE audit[i]
    BY <1>1, <2>1
  <2>4. DOMAIN audit = 1..Len(audit) /\ Len(audit) \in Nat
    BY <2>1
  <2> QED
    BY <2>2, <2>3, <2>4

\* Every answer of the runner is a reply, as an audit line needs, and so is what a
\* wrapper makes of it or builds itself.
LEMMA ReplyTypes ==
  /\ \A res \in Results \cup {NoAnswer} : res \in Replies
  /\ \A entry : \A res \in Replies : Returned(entry, res) \subseteq Replies
  /\ \A n \in Int : Result(n) \in Replies
<1>1. \A n \in Int : Result(n) \in Replies
  BY DEF Result, Replies
<1>2. ASSUME NEW res \in Results \cup {NoAnswer} PROVE res \in Replies
  <2>1. NoAnswer \in Replies
    BY DEF NoAnswer, Replies
  <2> QED
    BY <1>1, <1>2, <2>1, ExitCodesAssumption DEF Results, UnusableCommand, AttemptsUsedUp
<1>3. ASSUME NEW entry, NEW res \in Replies PROVE Returned(entry, res) \subseteq Replies
  BY DEF Returned, Replies
<1> QED
  BY <1>1, <1>2, <1>3

\* What a wrapper or a direct tool is given by its call of run() is a reply.
LEMMA ProgressReplies ==
  ASSUME GInv, NEW r \in Requests, Progress(r)
  PROVE  /\ answer'[r] \in Replies
         /\ Returned(request[r].entry, answer'[r]) \subseteq Replies
<1>1. IInv'
  BY IInvStep DEF GatewayNext
<1>2. answer'[r] \in Replies
  BY <1>1, ReplyTypes DEF IInv, TypeOK, Requests
<1> QED
  BY <1>2, ReplyTypes

\* Both results execute() makes up itself are replies.
LEMMA MadeUp ==
  /\ \A n \in {ExecuteRaised, InvalidArgument} : Result(n) \in Replies
  /\ Result(BlockedByWrapper) \in Replies /\ Result(BlockedByService) \in Replies
BY ReplyTypes DEF ExecuteRaised, InvalidArgument, BlockedByWrapper, BlockedByService

\* What a request's own step does to the audit file: nothing, or one line, which
\* says "blocked" only for a request that arrives and is turned away.
LEMMA LinesWritten ==
  ASSUME GInv, NEW r \in Requests, Arrives(r) \/ Progress(r) \/ ClientDrops(r) \/ ProcessStep(r)
  PROVE  /\ audit' \in Seq(AuditLine)
         /\ \A i \in DOMAIN audit' :
              \/ i \in DOMAIN audit /\ audit'[i] = audit[i]
              \/ /\ audit'[i].req = r
                 /\ audit'[i].kind = "blocked" => pc' = pc /\ pc[r] = "idle" /\ stage'[r] # "new"
<1>0. IInv /\ GatewayTypes /\ RequestInv(r)
  BY DEF GInv
<1>1. CASE UNCHANGED audit
  BY <1>0, <1>1 DEF GatewayTypes
<1>2. ASSUME NEW res \in Replies, Write(r, "executed", res)
      PROVE  /\ audit' \in Seq(AuditLine)
             /\ \A i \in DOMAIN audit' :
                  \/ i \in DOMAIN audit /\ audit'[i] = audit[i]
                  \/ audit'[i].req = r /\ audit'[i].kind # "blocked"
  BY <1>0, <1>2, WriteAppends
<1>3. ASSUME NEW res \in Replies, Write(r, "blocked", res), pc' = pc, pc[r] = "idle", stage'[r] # "new"
      PROVE  /\ audit' \in Seq(AuditLine)
             /\ \A i \in DOMAIN audit' :
                  \/ i \in DOMAIN audit /\ audit'[i] = audit[i]
                  \/ audit'[i].req = r
  BY <1>0, <1>3, WriteAppends
<1>4. CASE Arrives(r)
  <2>1. PICK kind \in RequestKinds :
          \/ Begin(r)
          \/ Blocked(r, kind.entry) /\ UNCHANGED runnerVars
          \/ (\E n \in {ExecuteRaised, InvalidArgument} : Executed(r, Result(n))) /\ UNCHANGED runnerVars
    BY <1>4 DEF Arrives
  <2>2. pc[r] = "idle" /\ stage[r] = "new"
    BY <1>0, <1>4 DEF Arrives, RequestInv
  <2>3. CASE Begin(r)
    BY <1>1, <2>3 DEF Begin
  <2>4. CASE Blocked(r, kind.entry) /\ UNCHANGED runnerVars
    <3>1. pc' = pc /\ stage'[r] # "new"
      BY <1>0, <2>4 DEF Blocked, Reply, Raise, runnerVars, GatewayTypes
    <3>2. UNCHANGED audit \/ \E res \in Replies : Write(r, "blocked", res)
      BY <2>4, MadeUp DEF Blocked
    <3> QED
      BY <1>1, <1>3, <2>2, <3>1, <3>2
  <2>5. CASE (\E n \in {ExecuteRaised, InvalidArgument} : Executed(r, Result(n))) /\ UNCHANGED runnerVars
    <3>1. UNCHANGED audit \/ \E res \in Replies : Write(r, "executed", res)
      BY <2>5, MadeUp DEF Executed
    <3> QED
      BY <1>1, <1>2, <3>1
  <2> QED
    BY <2>1, <2>3, <2>4, <2>5
<1>5. CASE Progress(r)
  <2>1. UNCHANGED audit \/ \E res \in Replies : Write(r, "executed", res)
    BY <1>5, ProgressReplies DEF Progress, Executed, HandOn
  <2> QED
    BY <1>1, <1>2, <2>1
<1>6. CASE ClientDrops(r) \/ ProcessStep(r)
  BY <1>1, <1>6 DEF ClientDrops, ProcessStep, gatewayVars
<1> QED
  BY <1>4, <1>5, <1>6

\* Requests, stages and audit lines keep their types.
LEMMA GatewayTypesStep ==
  ASSUME GInv, [GatewayNext]_vars
  PROVE  GatewayTypes'
<1>0. GatewayTypes
  BY DEF GInv
<1>1. CASE UNCHANGED vars
  BY <1>0, <1>1 DEF vars, gatewayVars, GatewayTypes
<1>2. CASE Crash
  BY <1>0, <1>2 DEF Crash, GatewayTypes, Stages
<1>3. ASSUME NEW r \in Requests, Arrives(r) \/ Progress(r) \/ ClientDrops(r) \/ ProcessStep(r)
      PROVE  GatewayTypes'
  <2>1. audit' \in Seq(AuditLine)
    BY <1>3, LinesWritten
  <2>2. request' \in [Requests -> RequestKinds \cup {NoRequest}]
    BY <1>0, <1>3 DEF Arrives, Progress, ClientDrops, ProcessStep, gatewayVars, GatewayTypes
  <2>3. stage' \in [Requests -> Stages]
    BY <1>0, <1>3 DEF Arrives, Begin, Blocked, Executed, HandOn, Reply, Raise, Progress,
       ClientDrops, ProcessStep, gatewayVars, GatewayTypes, Stages
  <2> QED
    BY <2>1, <2>2, <2>3 DEF GatewayTypes
<1> QED
  BY <1>1, <1>2, <1>3 DEF GatewayNext

\* A step of one request leaves what RequestInv says of another alone, but for
\* the audit file.
LEMMA OtherRequests ==
  ASSUME GInv, NEW r \in Requests, NEW q \in Requests, q # r,
         Arrives(r) \/ Progress(r) \/ ClientDrops(r) \/ ProcessStep(r)
  PROVE  pc'[q] = pc[q] /\ stage'[q] = stage[q] /\ request'[q] = request[q]
<1>0. TypeOK /\ GatewayTypes
  BY DEF GInv, IInv
<1>1. pc'[q] = pc[q]
  BY <1>0, GatewayStepIsRunnerStep, OthersUntouched DEF Requests, runnerVars
<1>2. request'[q] = request[q]
  BY <1>0 DEF Arrives, Progress, ClientDrops, ProcessStep, gatewayVars, GatewayTypes
<1>3. stage'[q] = stage[q]
  BY <1>0 DEF Arrives, Begin, Blocked, Executed, HandOn, Reply, Raise, Progress,
     ClientDrops, ProcessStep, gatewayVars, GatewayTypes
<1> QED
  BY <1>1, <1>2, <1>3

\* The first three conjuncts of RequestInv, for the request that steps.
LEMMA OwnRequest ==
  ASSUME GInv, NEW r \in Requests,
         Arrives(r) \/ Progress(r) \/ ClientDrops(r) \/ ProcessStep(r)
  PROVE  /\ stage'[r] = "new" => pc'[r] = "idle"
         /\ stage'[r] = "executing" => pc'[r] \notin {"idle", "done", "cancelled"}
         /\ pc'[r] # "idle" /\ request'[r].entry # "direct" =>
              Permits(request'[r].cmd, request'[r].danger)
         /\ stage[r] # "new" => stage'[r] # "new"
         /\ pc[r] = "idle" /\ stage[r] # "new" => pc'[r] = "idle"
<1>0. TypeOK /\ IInv /\ GatewayTypes /\ RequestInv(r)
  BY DEF GInv, IInv
<1>1. CASE Arrives(r)
  <2>1. PICK kind \in RequestKinds :
          /\ request' = [request EXCEPT ![r] = kind]
          /\ \/ Begin(r) /\ (kind.entry = "direct" \/ Permits(kind.cmd, kind.danger))
             \/ Blocked(r, kind.entry) /\ UNCHANGED runnerVars
             \/ (\E n \in {ExecuteRaised, InvalidArgument} : Executed(r, Result(n))) /\ UNCHANGED runnerVars
    BY <1>1 DEF Arrives
  <2>2. stage[r] = "new" /\ pc[r] = "idle" /\ request'[r] = kind
    BY <1>0, <1>1, <2>1 DEF Arrives, RequestInv, GatewayTypes
  <2>3. CASE Begin(r) /\ (kind.entry = "direct" \/ Permits(kind.cmd, kind.danger))
    <3>1. pc'[r] = "created" /\ stage'[r] = "executing"
      BY <1>0, <2>3 DEF Begin, Call, TypeOK, GatewayTypes, Requests
    <3> QED
      BY <2>2, <2>3, <3>1
  <2>4. CASE /\ \/ Blocked(r, kind.entry)
                \/ \E n \in {ExecuteRaised, InvalidArgument} : Executed(r, Result(n))
             /\ UNCHANGED runnerVars
    <3>1. stage'[r] \in {"replied", "raised"} /\ pc' = pc
      BY <1>0, <2>4 DEF Blocked, Executed, Reply, Raise, GatewayTypes, runnerVars
    <3> QED
      BY <2>2, <3>1
  <2> QED
    BY <2>1, <2>3, <2>4
<1>2. CASE Progress(r)
  <2>1. stage[r] = "executing" /\ RunnerStep(r) /\ request' = request /\ pc[r] # "idle"
    BY <1>0, <1>2 DEF Progress, RequestInv
  <2>2. pc'[r] # "idle"
    BY <1>0, <2>1, RunnerStepIsUnderWay DEF Requests
  <2>3. \/ pc'[r] \notin Terminal /\ stage' = stage
        \/ stage'[r] \in {"replied", "raised", "dropped"}
    BY <1>0, <1>2 DEF Progress, Executed, HandOn, Reply, Raise, GatewayTypes
  <2> QED
    BY <1>0, <2>1, <2>2, <2>3 DEF RequestInv, Terminal
<1>3. CASE ClientDrops(r) \/ ProcessStep(r)
  <2>1. pc' = pc /\ stage' = stage /\ request' = request
    BY <1>3 DEF ClientDrops, RequestCancel, ProcessStep, HostStep, ProcessExits, gatewayVars
  <2> QED
    BY <1>0, <2>1 DEF RequestInv
<1> QED
  BY <1>1, <1>2, <1>3

\* Every step keeps RequestInv of every request: its own request's, and that of
\* the others, whose audit lines a step never adds.
LEMMA RequestInvStep ==
  ASSUME GInv, [GatewayNext]_vars, NEW q \in Requests
  PROVE  RequestInv(q)'
<1>0. RequestInv(q) /\ GatewayTypes
  BY DEF GInv
<1>1. CASE UNCHANGED vars
  BY <1>0, <1>1 DEF vars, runnerVars, gatewayVars, RequestInv
<1>2. CASE Crash
  <2>1. request' = request /\ audit' = audit
    BY <1>2 DEF Crash
  <2>2. /\ pc'[q] = IF stage[q] = "executing" THEN "cancelled" ELSE pc[q]
        /\ stage'[q] = IF stage[q] = "executing" THEN "lost" ELSE stage[q]
    BY <1>2 DEF Crash, Requests
  <2> QED
    BY <1>0, <2>1, <2>2 DEF RequestInv
<1>3. ASSUME NEW r \in Requests, Arrives(r) \/ Progress(r) \/ ClientDrops(r) \/ ProcessStep(r)
      PROVE  RequestInv(q)'
  <2>1. \A i \in DOMAIN audit' :
          \/ i \in DOMAIN audit /\ audit'[i] = audit[i]
          \/ /\ audit'[i].req = r
             /\ audit'[i].kind = "blocked" => pc' = pc /\ pc[r] = "idle" /\ stage'[r] # "new"
    BY <1>3, LinesWritten
  <2>2. CASE q = r
    BY <1>0, <1>3, <2>1, <2>2, OwnRequest DEF RequestInv
  <2>3. CASE q # r
    <3>1. pc'[q] = pc[q] /\ stage'[q] = stage[q] /\ request'[q] = request[q]
      BY <1>3, <2>3, OtherRequests
    <3> QED
      BY <1>0, <2>1, <2>3, <3>1 DEF RequestInv
  <2> QED
    BY <2>2, <2>3
<1> QED
  BY <1>1, <1>2, <1>3 DEF GatewayNext

\* The invariant holds when the server is started for the first time.
LEMMA GInvInit == GatewayInit => GInv
<1> SUFFICES ASSUME GatewayInit PROVE GInv
  OBVIOUS
<1>1. IInv
  BY InductiveInit DEF GatewayInit
<1>2. GatewayTypes
  BY DEF GatewayInit, GatewayTypes, Stages
<1>3. ASSUME NEW r \in Requests PROVE RequestInv(r)
  BY DEF GatewayInit, Init, RequestInv, Requests
<1> QED
  BY <1>1, <1>2, <1>3 DEF GInv

\* Every step of the gateway keeps the whole invariant.
LEMMA GInvStep == GInv /\ [GatewayNext]_vars => GInv'
BY IInvStep, GatewayTypesStep, RequestInvStep DEF GInv

--------------------------------------------------------------------------------
\* Every behaviour of the gateway satisfies the invariant; so the runner's
\* properties hold of its calls in a process that crashes and is restarted too.
THEOREM GatewayInvariant == GatewaySpec => []GInv
BY GInvInit, GInvStep, PTL DEF GatewaySpec

\* Only permitted commands reach the host through the wrappers, and nothing that
\* is on record as blocked ever did (mcp_server.py 166-186, service.py 57-71).
THEOREM GatewayOnlyPermitted == GatewaySpec => []OnlyPermittedRuns
<1>1. ASSUME GInv PROVE OnlyPermittedRuns
  <2>1. ASSUME NEW r \in Requests, Started(r) PROVE pc[r] # "idle" /\ RequestInv(r)
    BY <1>1, <2>1, IdleNotStarted DEF GInv
  <2> QED
    BY <2>1 DEF OnlyPermittedRuns, RequestInv, LinesOf
<1> QED
  BY <1>1, GatewayInvariant, PTL

\* Retries and abandoned processes are as harmless in the gateway as in the runner
\* alone, crashes included: a command runs again only after a failed attempt.
THEOREM GatewayRetries == GatewaySpec => []RetriedOnlyAfterFailure
<1>1. ASSUME IInv, NEW c \in Calls, NEW a \in Attempts, proc[c][a] # NotStarted,
             NEW b \in 0..(a - 1)
      PROVE  seen[c][b] \in Failures
  BY <1>1, RetriesAssumption DEF IInv, TypeOK, CallInv, AttemptsInOrder, Attempts
<1>2. GInv => RetriedOnlyAfterFailure
  BY <1>1 DEF RetriedOnlyAfterFailure, GInv
<1> QED
  BY <1>2, GatewayInvariant, PTL

--------------------------------------------------------------------------------
(***************************************************************************)
(* The ledger: one audit line for every answer, with its code.  A request's *)
(* lines are counted by where the request is, so the property is inductive  *)
(* once the policy's and the runner's invariants stand beside it.           *)
(***************************************************************************)

LedgerTypes ==
  /\ reply \in [Requests -> Replies]
  /\ metrics \in Counters
  /\ base \in Nat /\ base <= Len(audit)
  /\ crashes \in 0..MaxCrashes

\* AuditedExactlyOnce for one request
AuditedOnce(r) ==
  /\ stage[r] = "replied" /\ request[r].entry # "direct" =>
       \E i \in LinesOf(r) :
         LinesOf(r) = {i} /\ audit[i].ok = reply[r].ok /\ audit[i].code = reply[r].code
  /\ stage[r] = "raised" /\ request[r].entry = "service" =>
       \A i, j \in LinesOf(r) : i = j /\ audit[i].code = BlockedByService
  /\ \/ stage[r] = "replied" /\ request[r].entry # "direct"
     \/ stage[r] = "raised" /\ request[r].entry = "service"
     \/ LinesOf(r) = {}

RequestStep(r) == Arrives(r) \/ Progress(r) \/ ClientDrops(r) \/ ProcessStep(r)

\* The file is appended to only, so the lines of a request stay where they are.
LEMMA LineAdded ==
  ASSUME GatewayTypes, NEW r \in Requests, NEW kind \in {"blocked", "executed"},
         NEW res \in Replies, Write(r, kind, res)
  PROVE  /\ \A q \in Requests : q # r => LinesOf(q)' = LinesOf(q)
         /\ LinesOf(r)' = LinesOf(r) \cup {Len(audit) + 1}
         /\ audit'[Len(audit) + 1].ok = res.ok /\ audit'[Len(audit) + 1].code = res.code
         /\ Len(audit) \in Nat /\ Len(audit') = Len(audit) + 1
         /\ \A i \in DOMAIN audit : i \in DOMAIN audit' /\ audit'[i] = audit[i]
<1> DEFINE line == [req |-> r, kind |-> kind, ok |-> res.ok, code |-> res.code]
<1>1. line \in AuditLine
  BY DEF AuditLine, Replies
<1>2. audit \in Seq(AuditLine) /\ audit' = Append(audit, line)
  BY DEF GatewayTypes, Write
<1>3. line.req = r /\ line.ok = res.ok /\ line.code = res.code
  OBVIOUS
<1> HIDE DEF line
<1>4. /\ audit' \in Seq(AuditLine) /\ Len(audit') = Len(audit) + 1
      /\ \A i \in 1..Len(audit) : audit'[i] = audit[i]
      /\ audit'[Len(audit) + 1] = line
  BY <1>1, <1>2, AppendProperties
<1>5. /\ DOMAIN audit = 1..Len(audit) /\ DOMAIN audit' = 1..(Len(audit) + 1)
      /\ Len(audit) \in Nat
  BY <1>2, <1>4
<1>6. ASSUME NEW q \in Requests, q # r PROVE LinesOf(q)' = LinesOf(q)
  BY <1>3, <1>4, <1>5, <1>6 DEF LinesOf
<1>7. LinesOf(r)' = LinesOf(r) \cup {Len(audit) + 1}
  BY <1>3, <1>4, <1>5 DEF LinesOf
<1> QED
  BY <1>3, <1>4, <1>5, <1>6, <1>7

\* What a request's step writes: a line of its own or none.
LEMMA OwnLine ==
  ASSUME GInv, NEW r \in Requests, RequestStep(r)
  PROVE  \/ UNCHANGED audit
         \/ \E kind \in {"blocked", "executed"}, res \in Replies : Write(r, kind, res)
<1>0. IInv /\ GatewayTypes
  BY DEF GInv
<1>1. CASE Arrives(r)
  BY <1>1, MadeUp DEF Arrives, Begin, Blocked, Executed
<1>2. CASE Progress(r)
  BY <1>2, ProgressReplies DEF Progress, Executed, HandOn
<1>3. CASE ClientDrops(r) \/ ProcessStep(r)
  BY <1>3 DEF ClientDrops, ProcessStep, gatewayVars
<1> QED
  BY <1>1, <1>2, <1>3 DEF RequestStep

\* What a step writes for others is nothing.
LEMMA OtherLines ==
  ASSUME GInv, NEW r \in Requests, NEW q \in Requests, q # r, RequestStep(r)
  PROVE  /\ LinesOf(q)' = LinesOf(q)
         /\ \A i \in LinesOf(q) : audit'[i] = audit[i]
<1>0. GatewayTypes
  BY DEF GInv
<1>1. CASE UNCHANGED audit
  BY <1>1 DEF LinesOf
<1>2. ASSUME NEW kind \in {"blocked", "executed"}, NEW res \in Replies, Write(r, kind, res)
      PROVE  /\ LinesOf(q)' = LinesOf(q)
             /\ \A i \in LinesOf(q) : audit'[i] = audit[i]
  BY <1>0, <1>2, LineAdded DEF LinesOf
<1> QED
  BY <1>1, <1>2, OwnLine

\* Recording keeps the counters natural numbers (metrics.py 19-29).
LEMMA RecordTypes ==
  ASSUME NEW m \in Counters
  PROVE  /\ RecordPolicyBlock(m) \in Counters
         /\ \A res : Record(m, res) \in Counters
<1>1. RecordPolicyBlock(m) \in Counters
  BY DEF RecordPolicyBlock, Counters
<1>2. ASSUME NEW res PROVE Record(m, res) \in Counters
  <2>1. m.requests \in Nat /\ m.errors \in Nat /\ m.timeouts \in Nat /\ m.blocks \in Nat
    BY DEF Counters
  <2>2. \A c \in Counters : \A k \in Nat :
          /\ [c EXCEPT !.requests = k] \in Counters /\ [c EXCEPT !.errors = k] \in Counters
          /\ [c EXCEPT !.timeouts = k] \in Counters
    BY DEF Counters
  <2> DEFINE e == IF res.ok THEN m.errors ELSE m.errors + 1
             t == IF res.code = AttemptsUsedUp THEN m.timeouts + 1 ELSE m.timeouts
  <2>3. e \in Nat /\ t \in Nat /\ m.requests + 1 \in Nat
    BY <2>1
  <2> DEFINE m1 == [m EXCEPT !.requests = m.requests + 1]
             m2 == [m1 EXCEPT !.errors = e]
             m3 == [m2 EXCEPT !.timeouts = t]
  <2>4. Record(m, res) = m3
    BY DEF Record, Counters
  <2> HIDE DEF e, t
  <2>5. m1 \in Counters
    BY <2>2, <2>3
  <2> HIDE DEF m1
  <2>6. m2 \in Counters
    BY <2>2, <2>3, <2>5
  <2> HIDE DEF m2
  <2>7. m3 \in Counters
    BY <2>2, <2>3, <2>6
  <2> QED
    BY <2>4, <2>7
<1> QED
  BY <1>1, <1>2

LEMMA LedgerTypesStep ==
  ASSUME GInv, LedgerTypes, [GatewayNext]_vars
  PROVE  LedgerTypes'
<1>0. GatewayTypes /\ IInv
  BY DEF GInv
<1>l. audit \in Seq(AuditLine) /\ Len(audit) \in Nat
  BY <1>0 DEF GatewayTypes
<1>1. CASE UNCHANGED vars
  BY <1>1 DEF vars, gatewayVars, LedgerTypes
<1>2. CASE Crash
  <2>1. base' \in Nat /\ base' <= Len(audit')
    BY <1>2, <1>l DEF Crash
  <2>2. metrics' \in Counters
    BY <1>2 DEF Crash, ZeroCounters, Counters
  <2>3. crashes' \in 0..MaxCrashes
    BY <1>2, MaxCrashesAssumption DEF Crash, LedgerTypes
  <2> QED
    BY <1>2, <2>1, <2>2, <2>3 DEF Crash, LedgerTypes
<1>3. ASSUME NEW r \in Requests, RequestStep(r) PROVE LedgerTypes'
  <2>1. base' = base /\ crashes' = crashes
    BY <1>3 DEF RequestStep, Arrives, Progress, ClientDrops, ProcessStep, gatewayVars
  <2>2. base' <= Len(audit')
    <3>1. CASE UNCHANGED audit
      BY <2>1, <3>1 DEF LedgerTypes
    <3>2. ASSUME NEW kind \in {"blocked", "executed"}, NEW res \in Replies, Write(r, kind, res)
          PROVE  base' <= Len(audit')
      <4>1. Len(audit') = Len(audit) + 1
        BY <1>0, <3>2, LineAdded
      <4> QED
        BY <1>l, <2>1, <4>1 DEF LedgerTypes
    <3> QED
      BY <1>3, <3>1, <3>2, OwnLine
  <2>3. metrics' \in Counters
    BY <1>3, RecordTypes DEF RequestStep, Arrives, Begin, Blocked, Executed, HandOn, Progress,
       ClientDrops, ProcessStep, gatewayVars, LedgerTypes
  <2>4. reply' \in [Requests -> Replies]
    <3>1. \/ reply' = reply
          \/ \E res \in Replies : reply' = [reply EXCEPT ![r] = res]
      BY <1>3, MadeUp, ProgressReplies DEF RequestStep, Arrives, Begin, Blocked, Executed,
         HandOn, Reply, Raise, Progress, ClientDrops, ProcessStep, gatewayVars
    <3> QED
      BY <3>1 DEF LedgerTypes
  <2> QED
    BY <2>1, <2>2, <2>3, <2>4 DEF LedgerTypes
<1> QED
  BY <1>1, <1>2, <1>3 DEF GatewayNext, RequestStep

\* A step of request r itself: one line exactly when it is answered through a wrapper, or
\* turned away by VMService.exec (mcp_server.py 166-228, cli.py 131-178, service.py 57-71).
LEMMA OwnAudit ==
  ASSUME GInv, LedgerTypes, NEW r \in Requests, AuditedOnce(r), RequestStep(r)
  PROVE  AuditedOnce(r)'
<1>0. IInv /\ GatewayTypes
  BY DEF GInv
<1>n. ASSUME LinesOf(r) = {}, NEW kind \in {"blocked", "executed"}, NEW res \in Replies,
             Write(r, kind, res)
      PROVE  /\ LinesOf(r)' = {Len(audit) + 1}
             /\ audit'[Len(audit) + 1].ok = res.ok /\ audit'[Len(audit) + 1].code = res.code
  BY <1>0, <1>n, LineAdded
<1>u. ASSUME LinesOf(r) = {}, UNCHANGED audit PROVE LinesOf(r)' = {}
  BY <1>u DEF LinesOf
<1>r. ASSUME NEW res, Reply(r, res) PROVE stage'[r] = "replied" /\ reply'[r] = res
  BY <1>0, <1>r DEF Reply, LedgerTypes, GatewayTypes
<1>x. ASSUME Raise(r) PROVE stage'[r] = "raised"
  BY <1>0, <1>x DEF Raise, GatewayTypes
<1>e. ASSUME LinesOf(r) = {}, NEW res \in Replies, Executed(r, res),
             request'[r].entry # "direct"
      PROVE  AuditedOnce(r)'
  <2>1. CASE Write(r, "executed", res) /\ Reply(r, res)
    <3>1. /\ LinesOf(r)' = {Len(audit) + 1}
          /\ audit'[Len(audit) + 1].ok = res.ok /\ audit'[Len(audit) + 1].code = res.code
      BY <1>e, <1>n, <2>1
    <3>2. stage'[r] = "replied" /\ reply'[r] = res
      BY <1>r, <2>1
    <3> QED
      BY <1>e, <3>1, <3>2 DEF AuditedOnce
  <2>2. CASE UNCHANGED audit /\ Raise(r)
    BY <1>e, <1>u, <1>x, <2>2 DEF AuditedOnce
  <2> QED
    BY <1>e, <2>1, <2>2 DEF Executed
<1>1. CASE Arrives(r)
  <2>1. stage[r] = "new" /\ LinesOf(r) = {}
    BY <1>1 DEF Arrives, AuditedOnce
  <2>2. PICK kind \in RequestKinds :
          /\ request' = [request EXCEPT ![r] = kind]
          /\ \/ Begin(r)
             \/ kind.entry # "direct" /\ Blocked(r, kind.entry)
             \/ /\ kind.entry \in {"server", "cli"}
                /\ \E n \in {ExecuteRaised, InvalidArgument} : Executed(r, Result(n))
    BY <1>1 DEF Arrives
  <2>3. request'[r] = kind
    BY <1>0, <2>2 DEF GatewayTypes
  <2>4. CASE Begin(r)
    <3>1. stage'[r] = "executing" /\ LinesOf(r)' = {}
      BY <1>0, <1>u, <2>1, <2>4 DEF Begin, GatewayTypes
    <3> QED
      BY <3>1 DEF AuditedOnce
  <2>5. CASE kind.entry # "direct" /\ Blocked(r, kind.entry)
    <3>1. CASE /\ kind.entry \in {"server", "cli"}
               /\ Write(r, "blocked", Result(BlockedByWrapper))
               /\ Reply(r, Result(BlockedByWrapper))
      <4>1. /\ LinesOf(r)' = {Len(audit) + 1}
            /\ audit'[Len(audit) + 1].ok = Result(BlockedByWrapper).ok
            /\ audit'[Len(audit) + 1].code = Result(BlockedByWrapper).code
        BY <1>n, <2>1, <3>1, MadeUp
      <4>2. stage'[r] = "replied" /\ reply'[r] = Result(BlockedByWrapper)
        BY <1>r, <3>1
      <4> QED
        BY <2>3, <3>1, <4>1, <4>2 DEF AuditedOnce
    <3>2. CASE /\ kind.entry = "service"
               /\ Write(r, "blocked", Result(BlockedByService)) /\ Raise(r)
      <4>1. /\ LinesOf(r)' = {Len(audit) + 1}
            /\ audit'[Len(audit) + 1].code = BlockedByService
        BY <1>n, <2>1, <3>2, MadeUp DEF Result
      <4>2. stage'[r] = "raised"
        BY <1>x, <3>2
      <4> QED
        BY <2>3, <3>2, <4>1, <4>2 DEF AuditedOnce
    <3>3. CASE UNCHANGED audit /\ Raise(r)
      BY <1>u, <1>x, <2>1, <3>3 DEF AuditedOnce
    <3> QED
      BY <2>5, <3>1, <3>2, <3>3 DEF Blocked
  <2>6. CASE /\ kind.entry \in {"server", "cli"}
             /\ \E n \in {ExecuteRaised, InvalidArgument} : Executed(r, Result(n))
    BY <1>e, <2>1, <2>3, <2>6, MadeUp
  <2> QED
    BY <2>2, <2>4, <2>5, <2>6
<1>2. CASE Progress(r)
  <2>1. stage[r] = "executing" /\ LinesOf(r) = {} /\ request' = request
    BY <1>2 DEF Progress, AuditedOnce
  <2>2. Returned(request[r].entry, answer'[r]) \subseteq Replies
    BY <1>2, ProgressReplies
  <2>3. \/ UNCHANGED <<stage, audit>>
        \/ request[r].entry = "direct" /\ HandOn(r, answer'[r])
        \/ /\ request[r].entry # "direct"
           /\ \E res \in Returned(request[r].entry, answer'[r]) : Executed(r, res)
        \/ stage' = [stage EXCEPT ![r] = "dropped"] /\ UNCHANGED audit
    BY <1>2 DEF Progress
  <2>4. CASE UNCHANGED <<stage, audit>>
    BY <1>u, <2>1, <2>4 DEF AuditedOnce
  <2>5. CASE request[r].entry = "direct" /\ HandOn(r, answer'[r])
    <3>1. LinesOf(r)' = {} /\ stage'[r] = "replied"
      BY <1>u, <1>r, <2>1, <2>5 DEF HandOn
    <3> QED
      BY <2>1, <2>5, <3>1 DEF AuditedOnce
  <2>6. CASE /\ request[r].entry # "direct"
             /\ \E res \in Returned(request[r].entry, answer'[r]) : Executed(r, res)
    BY <1>e, <2>1, <2>2, <2>6
  <2>7. CASE stage' = [stage EXCEPT ![r] = "dropped"] /\ UNCHANGED audit
    <3>1. stage'[r] = "dropped" /\ LinesOf(r)' = {}
      BY <1>0, <1>u, <2>1, <2>7 DEF GatewayTypes
    <3> QED
      BY <3>1 DEF AuditedOnce
  <2> QED
    BY <2>3, <2>4, <2>5, <2>6, <2>7
<1>3. CASE ClientDrops(r) \/ ProcessStep(r)
  BY <1>3 DEF ClientDrops, ProcessStep, gatewayVars, AuditedOnce, LinesOf
<1> QED
  BY <1>1, <1>2, <1>3 DEF RequestStep

\* A step of another request, or a crash, leaves the lines and the answer alone.
LEMMA AuditStep ==
  ASSUME GInv, LedgerTypes, NEW q \in Requests, AuditedOnce(q), [GatewayNext]_vars
  PROVE  AuditedOnce(q)'
<1>0. GatewayTypes
  BY DEF GInv
<1>1. CASE UNCHANGED vars
  BY <1>1 DEF vars, gatewayVars, AuditedOnce, LinesOf
<1>2. CASE Crash
  <2>1. LinesOf(q)' = LinesOf(q) /\ audit' = audit /\ request' = request /\ reply' = reply
    BY <1>2 DEF Crash, LinesOf
  <2>2. stage'[q] = IF stage[q] = "executing" THEN "lost" ELSE stage[q]
    BY <1>2 DEF Crash
  <2> QED
    BY <2>1, <2>2 DEF AuditedOnce
<1>3. ASSUME NEW r \in Requests, RequestStep(r) PROVE AuditedOnce(q)'
  <2>1. CASE q = r
    BY <1>3, <2>1, OwnAudit
  <2>2. CASE q # r
    <3>1. LinesOf(q)' = LinesOf(q) /\ \A i \in LinesOf(q) : audit'[i] = audit[i]
      BY <1>3, <2>2, OtherLines
    <3>2. stage'[q] = stage[q] /\ request'[q] = request[q]
      BY <1>3, <2>2, OtherRequests DEF RequestStep
    <3>3. reply'[q] = reply[q]
      BY <1>3, <2>2 DEF RequestStep, Arrives, Begin, Blocked, Executed, HandOn, Reply, Raise,
         Progress, ClientDrops, ProcessStep, gatewayVars, LedgerTypes
    <3> QED
      BY <3>1, <3>2, <3>3 DEF AuditedOnce
  <2> QED
    BY <2>1, <2>2
<1> QED
  BY <1>1, <1>2, <1>3 DEF GatewayNext, RequestStep

LedgerInv == GInv /\ LedgerTypes /\ \A r \in Requests : AuditedOnce(r)

LEMMA LedgerInit == GatewayInit => LedgerInv
<1> SUFFICES ASSUME GatewayInit PROVE LedgerInv
  OBVIOUS
<1>1. GInv
  BY GInvInit
<1>2. LedgerTypes
  BY MaxCrashesAssumption
     DEF GatewayInit, LedgerTypes, NoAnswer, Replies, ZeroCounters, Counters
<1>3. \A r \in Requests : AuditedOnce(r)
  BY DEF GatewayInit, AuditedOnce, LinesOf
<1> QED
  BY <1>1, <1>2, <1>3 DEF LedgerInv

LEMMA LedgerStep == LedgerInv /\ [GatewayNext]_vars => LedgerInv'
BY GInvStep, LedgerTypesStep, AuditStep DEF LedgerInv

THEOREM LedgerInvariant == GatewaySpec => []LedgerInv
BY LedgerInit, LedgerStep, PTL DEF GatewaySpec

\* The gateway's variables keep their types.
THEOREM GatewayTypesHold == GatewaySpec => []GatewayTypeOK
<1>1. ASSUME LedgerInv PROVE GatewayTypeOK
  <2>1. GatewayTypes /\ LedgerTypes /\ TypeOK
    BY <1>1 DEF LedgerInv, GInv, IInv
  <2>2. base \in 0..Len(audit)
    BY <2>1 DEF GatewayTypes, LedgerTypes
  <2> QED
    BY <2>1, <2>2 DEF GatewayTypes, LedgerTypes, GatewayTypeOK
<1> QED
  BY <1>1, LedgerInvariant, PTL

\* Whoever is answered through a wrapper is in the audit file once, with the code it was
\* told; nobody else is, but for VMService.exec's own 403 line
\* (mcp_server.py 166-228, cli.py 131-178, service.py 57-71).
THEOREM GatewayAudit == GatewaySpec => []AuditedExactlyOnce
<1>1. LedgerInv => AuditedExactlyOnce
  BY DEF LedgerInv, AuditedOnce, AuditedExactlyOnce
<1> QED
  BY <1>1, LedgerInvariant, PTL

--------------------------------------------------------------------------------
(***************************************************************************)
(* What callers of run() may rely on, they may rely on beneath a job and    *)
(* beneath a request too: the manager and the wrappers take part in no call  *)
(* but through its own steps.                                               *)
(***************************************************************************)

\* The job manager adds no behaviour to the calls of its jobs (jobs.py 37-76).
THEOREM JobsKeepContract ==
  JobSpec => Contract!Init /\ [][Contract!Next]_(Contract!vars)
<1>1. JobInit => CancelInv /\ Contract!Init
  BY InitMaps DEF JobInit, Init, CancelInv
<1>2. ASSUME ShownInv, CancelInv, [JobNext]_managerVars
      PROVE  CancelInv' /\ [Contract!Next]_(Contract!vars)
  <2>1. IInv /\ TypeOK /\ [Next]_runnerVars
    BY <1>2, JobStepIsRunnerStep DEF ShownInv, IInv
  <2> QED
    BY <1>2, <2>1, CancelInvStep, StepMaps
<1> QED
  BY <1>1, <1>2, ShownInvariant, PTL DEF JobSpec

\* What a crash of the server is to the contract of its calls.
CrashGivesUp ==
  /\ UNCHANGED <<proc, answer>>
  /\ \A c \in Calls :
       Phase(c)' = Phase(c) \/ (Phase(c) = "open" /\ Phase(c)' = "abandoned")

\* Nor do the wrappers, whatever requests overlap and are dropped, except that a crash gives
\* up all calls at once, and leaves every process and every answer as it was
\* (mcp_server.py 166-228, cli.py 131-178, service.py 57-94).
THEOREM GatewayKeepsContract ==
  GatewaySpec => Contract!Init /\ [][Contract!Next \/ CrashGivesUp]_(Contract!vars)
<1>1. GatewayInit => CancelInv /\ Contract!Init
  BY InitMaps DEF GatewayInit, Init, CancelInv
<1>2. ASSUME GInv, CancelInv, [GatewayNext]_vars
      PROVE  CancelInv' /\ [Contract!Next \/ CrashGivesUp]_(Contract!vars)
  <2>1. CASE Crash
    <3>1. CancelInv'
      BY <2>1 DEF Crash, CancelInv
    <3>2. ASSUME NEW c \in Calls
          PROVE  Phase(c)' = Phase(c) \/ (Phase(c) = "open" /\ Phase(c)' = "abandoned")
      <4>1. CASE stage[c] = "executing"
        <5>1. pc[c] \notin {"idle", "done", "cancelled"} /\ pc'[c] = "cancelled"
          BY <1>2, <2>1, <4>1 DEF GInv, RequestInv, Requests, Crash
        <5> QED
          BY <5>1 DEF Phase
      <4>2. CASE stage[c] # "executing"
        BY <2>1, <4>2 DEF Crash, Phase
      <4> QED
        BY <4>1, <4>2
    <3> QED
      BY <2>1, <3>1, <3>2 DEF Crash, CrashGivesUp
  <2>2. CASE ~Crash
    <3>1. [Next]_runnerVars
      BY <1>2, <2>2, GatewayStepIsRunnerStep DEF GatewayNext, Next, Requests, vars, runnerVars
    <3>2. IInv /\ TypeOK
      BY <1>2 DEF GInv, IInv
    <3> QED
      BY <1>2, <3>1, <3>2, CancelInvStep, StepMaps
  <2> QED
    BY <2>1, <2>2
<1> QED
  BY <1>1, <1>2, GatewayInvariant, PTL DEF GatewaySpec

--------------------------------------------------------------------------------
(***************************************************************************)
(* The counters and the audit file agree: every step counts what it writes. *)
(***************************************************************************)

\* What recording does to each counter (metrics.py 19-29).
LEMMA RecordCounts ==
  ASSUME NEW m \in Counters, NEW res \in Replies
  PROVE  /\ RecordPolicyBlock(m).requests = m.requests
         /\ RecordPolicyBlock(m).errors = m.errors
         /\ RecordPolicyBlock(m).timeouts = m.timeouts
         /\ RecordPolicyBlock(m).blocks = m.blocks + 1
         /\ Record(m, res).requests = m.requests + 1
         /\ Record(m, res).errors = IF res.ok THEN m.errors ELSE m.errors + 1
         /\ Record(m, res).timeouts = IF res.code = AttemptsUsedUp THEN m.timeouts + 1 ELSE m.timeouts
         /\ Record(m, res).blocks = m.blocks
BY DEF RecordPolicyBlock, Record, Counters

\* One more element counts one more.
LEMMA OneMore ==
  ASSUME NEW S, IsFiniteSet(S), NEW k, k \notin S
  PROVE  /\ Cardinality(S \cup {k}) = Cardinality(S) + 1
         /\ Cardinality(S) \in Nat
BY FS_AddElement, FS_CardinalityType

\* The lines since the last start are finitely many, and so are those of any sort.
LEMMA SinceFinite ==
  ASSUME GatewayTypes, LedgerTypes
  PROVE  /\ IsFiniteSet(Counted) /\ IsFiniteSet(Failed)
         /\ IsFiniteSet(TimedOut) /\ IsFiniteSet(Refused)
<1>1. base + 1 \in Int /\ Len(audit) \in Int
  BY DEF GatewayTypes, LedgerTypes
<1>2. IsFiniteSet(Since)
  BY <1>1, FS_Interval DEF Since
<1>3. Counted \subseteq Since /\ Failed \subseteq Since /\ TimedOut \subseteq Since
      /\ Refused \subseteq Since
  BY DEF Counted, Failed, TimedOut, Refused
<1> QED
  BY <1>2, <1>3, FS_Subset

\* A line that is written joins the sorts it belongs to, and changes no other.
LEMMA LineSorted ==
  ASSUME GatewayTypes, LedgerTypes, NEW r \in Requests, NEW kind \in {"blocked", "executed"},
         NEW res \in Replies, Write(r, kind, res), base' = base
  PROVE  LET k == Len(audit) + 1
             counts == ~(kind = "blocked" /\ res.code = BlockedByService)
         IN /\ k \notin Since
            /\ Counted' = IF counts THEN Counted \cup {k} ELSE Counted
            /\ Failed' = IF counts /\ ~res.ok THEN Failed \cup {k} ELSE Failed
            /\ TimedOut' = IF counts /\ res.code = AttemptsUsedUp THEN TimedOut \cup {k} ELSE TimedOut
            /\ Refused' = IF kind = "blocked" THEN Refused \cup {k} ELSE Refused
<1> DEFINE k == Len(audit) + 1
           line == [req |-> r, kind |-> kind, ok |-> res.ok, code |-> res.code]
<1>1. line \in AuditLine /\ audit \in Seq(AuditLine) /\ audit' = Append(audit, line)
  BY DEF AuditLine, Replies, GatewayTypes, Write
<1>2. line.kind = kind /\ line.ok = res.ok /\ line.code = res.code
  OBVIOUS
<1> HIDE DEF line
<1>3. /\ Len(audit') = Len(audit) + 1 /\ Len(audit) \in Nat
      /\ \A i \in 1..Len(audit) : audit'[i] = audit[i]
      /\ audit'[Len(audit) + 1] = line
  BY <1>1, AppendProperties
<1>4. base \in Nat /\ base <= Len(audit)
  BY DEF LedgerTypes
<1>5. /\ k \notin Since /\ Since' = Since \cup {k}
      /\ \A i \in Since : i \in 1..Len(audit)
  BY <1>3, <1>4 DEF Since
<1>6. /\ audit'[k].kind = kind /\ audit'[k].ok = res.ok /\ audit'[k].code = res.code
      /\ \A i \in Since : audit'[i] = audit[i]
  BY <1>2, <1>3, <1>5
<1> HIDE DEF k
<1>7. Counted' = IF ~(kind = "blocked" /\ res.code = BlockedByService) THEN Counted \cup {k} ELSE Counted
  BY <1>5, <1>6 DEF Counted
<1>8. Refused' = IF kind = "blocked" THEN Refused \cup {k} ELSE Refused
  BY <1>5, <1>6 DEF Refused
<1>9. \A i \in Counted : i # k /\ audit'[i] = audit[i]
  BY <1>5, <1>6 DEF Counted
<1>10. Failed' = IF ~(kind = "blocked" /\ res.code = BlockedByService) /\ ~res.ok
                   THEN Failed \cup {k} ELSE Failed
  BY <1>6, <1>7, <1>9 DEF Failed
<1>11. TimedOut' = IF ~(kind = "blocked" /\ res.code = BlockedByService) /\ res.code = AttemptsUsedUp
                     THEN TimedOut \cup {k} ELSE TimedOut
  BY <1>6, <1>7, <1>9 DEF TimedOut
<1> QED
  BY <1>5, <1>7, <1>8, <1>10, <1>11 DEF k

\* How a line moves the four counts.
LEMMA LineCounted ==
  ASSUME GatewayTypes, LedgerTypes, NEW r \in Requests, NEW kind \in {"blocked", "executed"},
         NEW res \in Replies, Write(r, kind, res), base' = base
  PROVE  LET counts == ~(kind = "blocked" /\ res.code = BlockedByService)
             More(b, S) == IF b THEN Cardinality(S) + 1 ELSE Cardinality(S)
         IN /\ Cardinality(Counted)' = More(counts, Counted)
            /\ Cardinality(Failed)' = More(counts /\ ~res.ok, Failed)
            /\ Cardinality(TimedOut)' = More(counts /\ res.code = AttemptsUsedUp, TimedOut)
            /\ Cardinality(Refused)' = More(kind = "blocked", Refused)
<1> DEFINE k == Len(audit) + 1
<1>1. k \notin Counted /\ k \notin Failed /\ k \notin TimedOut /\ k \notin Refused
  BY LineSorted DEF Counted, Failed, TimedOut, Refused
<1> HIDE DEF k
<1>2. /\ Cardinality(Counted \cup {k}) = Cardinality(Counted) + 1
      /\ Cardinality(Failed \cup {k}) = Cardinality(Failed) + 1
      /\ Cardinality(TimedOut \cup {k}) = Cardinality(TimedOut) + 1
      /\ Cardinality(Refused \cup {k}) = Cardinality(Refused) + 1
  BY <1>1, SinceFinite, OneMore
<1> QED
  BY <1>2, LineSorted DEF k

\* What a step does to the two ledgers.
LEMMA LedgersMove ==
  ASSUME GInv, NEW r \in Requests, RequestStep(r)
  PROVE  /\ base' = base
         /\ \/ UNCHANGED <<audit, metrics>>
            \/ \E res \in Replies : Write(r, "executed", res) /\ metrics' = Record(metrics, res)
            \/ /\ Write(r, "blocked", Result(BlockedByWrapper))
               /\ metrics' = Record(RecordPolicyBlock(metrics), Result(BlockedByWrapper))
            \/ /\ Write(r, "blocked", Result(BlockedByService))
               /\ metrics' = RecordPolicyBlock(metrics)
            \/ audit' = audit /\ metrics' = RecordPolicyBlock(metrics)
<1>1. CASE Arrives(r)
  BY <1>1, MadeUp DEF Arrives, Begin, Blocked, Executed
<1>2. CASE Progress(r)
  BY <1>2, ProgressReplies DEF Progress, Executed, HandOn
<1>3. CASE ClientDrops(r) \/ ProcessStep(r)
  BY <1>3 DEF ClientDrops, ProcessStep, gatewayVars
<1> QED
  BY <1>1, <1>2, <1>3 DEF RequestStep

\* Every step keeps the ledgers in agreement.
LEMMA LedgersAgreeStep ==
  ASSUME LedgerInv, LedgersAgree, [GatewayNext]_vars
  PROVE  LedgersAgree'
<1>0. GInv /\ GatewayTypes /\ LedgerTypes
  BY DEF LedgerInv, GInv
<1>m. /\ metrics \in Counters
      /\ metrics.requests \in Nat /\ metrics.errors \in Nat /\ metrics.timeouts \in Nat
      /\ metrics.blocks \in Nat
  BY <1>0 DEF LedgerTypes, Counters
<1>c. /\ Cardinality(Counted) \in Nat /\ Cardinality(Failed) \in Nat
      /\ Cardinality(TimedOut) \in Nat /\ Cardinality(Refused) \in Nat
  BY <1>0, SinceFinite, FS_CardinalityType
<1>p. RecordPolicyBlock(metrics) \in Counters
  BY <1>m, RecordTypes
<1>u. ASSUME audit' = audit, base' = base
      PROVE  /\ Counted' = Counted /\ Failed' = Failed /\ TimedOut' = TimedOut
             /\ Refused' = Refused
  BY <1>u DEF Since, Counted, Failed, TimedOut, Refused
<1>1. CASE UNCHANGED <<audit, metrics, base>>
  BY <1>1, <1>u DEF LedgersAgree
<1>2. CASE Crash
  <2>1. Since' = {}
    BY <1>0, <1>2 DEF Crash, Since, GatewayTypes
  <2>2. Counted' = {} /\ Failed' = {} /\ TimedOut' = {} /\ Refused' = {}
    BY <2>1 DEF Counted, Failed, TimedOut, Refused
  <2>3. metrics' = ZeroCounters /\ Cardinality({}) = 0
    BY <1>2, FS_EmptySet DEF Crash
  <2> QED
    BY <2>2, <2>3 DEF LedgersAgree, ZeroCounters
<1>3. ASSUME NEW r \in Requests, RequestStep(r) PROVE LedgersAgree'
  <2>0. base' = base
    BY <1>0, <1>3, LedgersMove
  <2>1. CASE UNCHANGED <<audit, metrics>>
    BY <1>1, <2>0, <2>1
  <2>2. ASSUME NEW res \in Replies, Write(r, "executed", res), metrics' = Record(metrics, res)
        PROVE  LedgersAgree'
    BY <1>0, <1>m, <1>c, <2>0, <2>2, LineCounted, RecordCounts DEF LedgersAgree
  <2>f. /\ ~Result(BlockedByWrapper).ok /\ ~Result(BlockedByService).ok
        /\ Result(BlockedByWrapper).code = BlockedByWrapper
        /\ Result(BlockedByService).code = BlockedByService
        /\ BlockedByWrapper # BlockedByService /\ BlockedByWrapper # AttemptsUsedUp
    <3>1. \A n \in Int : (Result(n).ok <=> n = 0) /\ Result(n).code = n
      BY DEF Result
    <3>2. BlockedByWrapper = 1 /\ BlockedByService = 403 /\ AttemptsUsedUp = 124
      BY DEF BlockedByWrapper, BlockedByService, AttemptsUsedUp
    <3> QED
      BY <3>1, <3>2
  <2>3. CASE /\ Write(r, "blocked", Result(BlockedByWrapper))
             /\ metrics' = Record(RecordPolicyBlock(metrics), Result(BlockedByWrapper))
    <3>1. /\ metrics'.requests = metrics.requests + 1 /\ metrics'.errors = metrics.errors + 1
          /\ metrics'.timeouts = metrics.timeouts /\ metrics'.blocks = metrics.blocks + 1
      BY <1>m, <1>p, <2>3, <2>f, RecordCounts, MadeUp
    <3>2. /\ Cardinality(Counted)' = Cardinality(Counted) + 1
          /\ Cardinality(Failed)' = Cardinality(Failed) + 1
          /\ Cardinality(TimedOut)' = Cardinality(TimedOut)
          /\ Cardinality(Refused)' = Cardinality(Refused) + 1
      BY <1>0, <2>0, <2>3, <2>f, LineCounted, MadeUp
    <3> QED
      BY <1>m, <1>c, <3>1, <3>2 DEF LedgersAgree
  <2>4. CASE Write(r, "blocked", Result(BlockedByService)) /\ metrics' = RecordPolicyBlock(metrics)
    <3>1. /\ metrics'.requests = metrics.requests /\ metrics'.errors = metrics.errors
          /\ metrics'.timeouts = metrics.timeouts /\ metrics'.blocks = metrics.blocks + 1
      BY <1>m, <2>4, RecordCounts, MadeUp
    <3>2. /\ Cardinality(Counted)' = Cardinality(Counted)
          /\ Cardinality(Failed)' = Cardinality(Failed)
          /\ Cardinality(TimedOut)' = Cardinality(TimedOut)
          /\ Cardinality(Refused)' = Cardinality(Refused) + 1
      BY <1>0, <2>0, <2>4, <2>f, LineCounted, MadeUp
    <3> QED
      BY <1>m, <1>c, <3>1, <3>2 DEF LedgersAgree
  <2>5. CASE audit' = audit /\ metrics' = RecordPolicyBlock(metrics)
    BY <1>m, <1>c, <1>u, <2>0, <2>5, RecordCounts, MadeUp DEF LedgersAgree
  <2> QED
    BY <1>0, <1>3, <2>1, <2>2, <2>3, <2>4, <2>5, LedgersMove
<1> QED
  BY <1>1, <1>2, <1>3 DEF GatewayNext, RequestStep, vars, gatewayVars

\* Before anything is written, nothing is counted.
LEMMA LedgersAgreeInit == GatewayInit => LedgersAgree
<1> SUFFICES ASSUME GatewayInit PROVE LedgersAgree
  OBVIOUS
<1>1. Since = {}
  BY DEF GatewayInit, Since
<1>2. Counted = {} /\ Failed = {} /\ TimedOut = {} /\ Refused = {}
  BY <1>1 DEF Counted, Failed, TimedOut, Refused
<1> QED
  BY <1>2, FS_EmptySet DEF GatewayInit, ZeroCounters, LedgersAgree

\* What is counted is what was written since the last start, for any set of requests
\* and whatever writes fail on the way (mcp_server.py 166-228, cli.py 131-178,
\* service.py 57-71, metrics.py 19-29).
THEOREM GatewayLedgersAgree == GatewaySpec => []LedgersAgree
BY LedgersAgreeInit, LedgersAgreeStep, LedgerInvariant, PTL DEF GatewaySpec

--------------------------------------------------------------------------------
(***************************************************************************)
(* The percentile and the objectives, for any durations and thresholds.     *)
(* Both read a place of the sorted durations that moves with their number,  *)
(* so the argument is about where a new duration is put in: behind all that *)
(* took no longer, where it moves the others by one place at most, as does  *)
(* the rank.                                                                *)
(***************************************************************************)

Sorted(s) == \A i, j \in DOMAIN s : i < j => s[i] <= s[j]

StatisticsInv == StatisticsTypeOK /\ Sorted(durations_ms)

\* A list of n durations is a sequence of them.
LEMMA DurationsListed ==
  ASSUME NEW n \in Nat, NEW s \in [1..n -> Durations]
  PROVE  /\ s \in Seq(Durations) /\ Len(s) = n /\ DOMAIN s = 1..n
         /\ s = <<>> <=> n = 0
         /\ \A i \in 1..n : s[i] \in Nat
<1>1. s \in Seq(Durations) /\ Len(s) = n
  BY SeqDef, LenProperties
<1>2. s = <<>> <=> n = 0
  BY <1>1, EmptySeq
<1>3. \A i \in 1..n : s[i] \in Nat
  BY StatisticsAssumption
<1> QED
  BY <1>1, <1>2, <1>3

\* Where the durations are after another one has been put in.
LEMMA PutIn ==
  ASSUME NEW n \in Nat, NEW s \in [1..n -> Durations], NEW p \in 1..(n + 1),
         NEW d \in Durations
  PROVE  /\ InsertAt(s, p, d) \in [1..(n + 1) -> Durations]
         /\ \A i \in 1..(n + 1) :
              /\ i < p => InsertAt(s, p, d)[i] = s[i] /\ i \in 1..n
              /\ i = p => InsertAt(s, p, d)[i] = d
              /\ i > p => InsertAt(s, p, d)[i] = s[i - 1] /\ i - 1 \in 1..n
<1>1. Len(s) = n
  BY DurationsListed
<1> QED
  BY <1>1 DEF InsertAt

\* A duration that is put in behind what took no longer leaves the list sorted.
LEMMA PutInSorted ==
  ASSUME NEW n \in Nat, NEW s \in [1..n -> Durations], Sorted(s), NEW p \in 1..(n + 1),
         NEW d \in Durations, \A i \in 1..n : i < p <=> s[i] <= d
  PROVE  Sorted(InsertAt(s, p, d))
<1> DEFINE t == InsertAt(s, p, d)
<1>1. /\ t \in [1..(n + 1) -> Durations]
      /\ \A i \in 1..(n + 1) :
           /\ i < p => t[i] = s[i] /\ i \in 1..n
           /\ i = p => t[i] = d
           /\ i > p => t[i] = s[i - 1] /\ i - 1 \in 1..n
  BY PutIn
<1> HIDE DEF t
<1>2. d \in Nat /\ \A i \in 1..n : s[i] \in Nat
  BY StatisticsAssumption
<1>3. \A i, j \in 1..n : i < j => s[i] <= s[j]
  BY DEF Sorted
<1>4. ASSUME NEW i \in 1..(n + 1), NEW j \in 1..(n + 1), i < j PROVE t[i] <= t[j]
  <2>1. CASE j < p
    BY <1>1, <1>3, <1>4, <2>1
  <2>2. CASE j = p
    <3>1. i \in 1..n /\ t[i] = s[i] /\ t[j] = d
      BY <1>1, <1>4, <2>2
    <3> QED
      BY <1>4, <2>2, <3>1
  <2>3. CASE j > p
    <3>1. j - 1 \in 1..n /\ t[j] = s[j - 1] /\ s[j - 1] \in Nat /\ ~(s[j - 1] <= d)
      BY <1>1, <1>2, <2>3
    <3>2. CASE i < p
      <4>1. i \in 1..n /\ t[i] = s[i] /\ s[i] <= d /\ s[i] \in Nat
        BY <1>1, <1>2, <3>2
      <4> QED
        BY <1>2, <3>1, <4>1
    <3>3. CASE i = p
      BY <1>1, <1>2, <3>1, <3>3
    <3>4. CASE i > p
      <4>1. i - 1 \in 1..n /\ t[i] = s[i - 1] /\ i - 1 < j - 1
        BY <1>1, <1>4, <3>4
      <4> QED
        BY <1>3, <3>1, <4>1
    <3> QED
      BY <3>2, <3>3, <3>4
  <2> QED
    BY <2>1, <2>2, <2>3
<1> QED
  BY <1>1, <1>4 DEF Sorted, t

\* What a step does: one request more, and its duration put in.
LEMMA Recorded ==
  ASSUME StatisticsInv, NEW d \in Durations, NEW ok \in BOOLEAN, NEW timeout \in BOOLEAN,
         ok => ~timeout, record(d, ok, timeout)
  PROVE  /\ request_count' = request_count + 1 /\ request_count < MaxRequests
         /\ error_count' = IF ok THEN error_count ELSE error_count + 1
         /\ timeout_count' = IF timeout THEN timeout_count + 1 ELSE timeout_count
         /\ \E p \in 1..(request_count + 1) :
              /\ \A i \in 1..request_count : i < p <=> durations_ms[i] <= d
              /\ durations_ms' = InsertAt(durations_ms, p, d)
<1>1. request_count \in Nat /\ durations_ms \in [1..request_count -> Durations]
  BY StatisticsAssumption DEF StatisticsInv, StatisticsTypeOK
<1>2. Len(durations_ms) = request_count /\ DOMAIN durations_ms = 1..request_count
  BY <1>1, DurationsListed
<1> QED
  BY <1>2 DEF record, AddDuration

LEMMA StatisticsInvInit == StatisticsInit => StatisticsInv
BY StatisticsAssumption DEF StatisticsInit, StatisticsInv, StatisticsTypeOK, Sorted

\* A request more, and the counters keep their bounds and the durations their order.
LEMMA StatisticsInvStep ==
  ASSUME StatisticsInv, [StatisticsNext]_statisticsVars
  PROVE  StatisticsInv'
<1>1. CASE UNCHANGED statisticsVars
  BY <1>1 DEF statisticsVars, StatisticsInv, StatisticsTypeOK, Sorted
<1>2. CASE StatisticsNext
  <2>1. PICK d \in Durations, ok \in BOOLEAN, timeout \in BOOLEAN :
          (ok => ~timeout) /\ record(d, ok, timeout)
    BY <1>2 DEF StatisticsNext
  <2>2. /\ request_count \in 0..MaxRequests /\ error_count \in 0..request_count
        /\ timeout_count \in 0..error_count /\ request_count \in Nat
        /\ durations_ms \in [1..request_count -> Durations] /\ Sorted(durations_ms)
    BY StatisticsAssumption DEF StatisticsInv, StatisticsTypeOK
  <2>3. /\ request_count' = request_count + 1 /\ request_count < MaxRequests
        /\ error_count' = IF ok THEN error_count ELSE error_count + 1
        /\ timeout_count' = IF timeout THEN timeout_count + 1 ELSE timeout_count
    BY <2>1, Recorded
  <2>4. PICK p \in 1..(request_count + 1) :
          /\ \A i \in 1..request_count : i < p <=> durations_ms[i] <= d
          /\ durations_ms' = InsertAt(durations_ms, p, d)
    BY <2>1, Recorded
  <2>5. durations_ms' \in [1..request_count' -> Durations] /\ Sorted(durations_ms')
    BY <2>2, <2>3, <2>4, PutIn, PutInSorted
  <2>6. /\ request_count' \in 0..MaxRequests /\ error_count' \in 0..request_count'
        /\ timeout_count' \in 0..error_count'
    BY <2>1, <2>2, <2>3, StatisticsAssumption
  <2> QED
    BY <2>5, <2>6 DEF StatisticsInv, StatisticsTypeOK
<1> QED
  BY <1>1, <1>2

\* The durations are sorted and as many as the requests, and no counter runs ahead of
\* another (metrics.py 18-33).
THEOREM StatisticsInvariant == StatisticsSpec => []StatisticsInv
BY StatisticsInvInit, StatisticsInvStep, PTL DEF StatisticsSpec

--------------------------------------------------------------------------------
\* The rank is a place of the list, and moves by one at most.
LEMMA RankMoves ==
  ASSUME NEW n \in Nat
  PROVE  /\ n > 0 => Rank(n) \in 1..n
         /\ Rank(n) \in Nat /\ Rank(n + 1) \in Nat
         /\ Rank(n) <= Rank(n + 1) /\ Rank(n + 1) <= Rank(n) + 1
         /\ Rank(n) = IF (95 * n) \div 100 = 0 THEN 1 ELSE (95 * n) \div 100
BY DEF Rank

\* Among any other number of requests than two the median stands before the percentile.
LEMMA MedianRank ==
  ASSUME NEW n \in Nat, n > 0, n # 2
  PROVE  /\ n % 2 = 1 => (n + 1) \div 2 \in 1..n /\ (n + 1) \div 2 <= Rank(n)
         /\ n % 2 # 1 => /\ n \div 2 \in 1..n /\ n \div 2 + 1 \in 1..n
                         /\ n \div 2 + 1 <= Rank(n)
BY DEF Rank

\* What the percentile tells of the durations it is taken from.
LEMMA PercentileTellsInv ==
  ASSUME StatisticsInv
  PROVE  PercentileTells
<1> SUFFICES ASSUME request_count > 0 PROVE PercentileTells
  BY DEF PercentileTells
<1> DEFINE n == request_count
           m == (95 * n) \div 100
           r == Rank(n)
<1>1. n \in Nat /\ n > 0 /\ durations_ms \in [1..n -> Durations]
  BY StatisticsAssumption DEF StatisticsInv, StatisticsTypeOK
<1>2. /\ Len(durations_ms) = n /\ DOMAIN durations_ms = 1..n /\ durations_ms # <<>>
      /\ \A i \in 1..n : durations_ms[i] \in Nat
  BY <1>1, DurationsListed
<1>3. r \in 1..n /\ r = IF m = 0 THEN 1 ELSE m
  BY <1>1, RankMoves
<1>4. latency_p95_ms = durations_ms[r]
  BY <1>2 DEF latency_p95_ms
<1>5. \A i, j \in 1..n : i <= j => durations_ms[i] <= durations_ms[j]
  BY <1>2 DEF StatisticsInv, Sorted
<1> DEFINE AtMost == {i \in DOMAIN durations_ms : durations_ms[i] <= latency_p95_ms}
           Below == {i \in DOMAIN durations_ms : durations_ms[i] < latency_p95_ms}
<1>m. m \in Nat
  BY <1>1
<1> HIDE DEF r, m
<1>6. IsFiniteSet(1..n) /\ AtMost \subseteq 1..n /\ 1..r \subseteq AtMost
  <2>1. IsFiniteSet(1..n)
    BY <1>1, FS_Interval
  <2> QED
    BY <1>1, <1>2, <1>3, <1>4, <1>5, <2>1
<1>7. Cardinality(AtMost) >= r
  <2>1. IsFiniteSet(AtMost)
    BY <1>6, FS_Subset
  <2>2. Cardinality(1..r) = r
    BY <1>3, FS_Interval
  <2>3. Cardinality(1..r) <= Cardinality(AtMost)
    BY <1>6, <2>1, FS_Subset
  <2> QED
    BY <1>3, <2>2, <2>3
<1>8. Cardinality(Below) <= r - 1
  <2>1. Below \subseteq 1..(r - 1)
    BY <1>1, <1>2, <1>3, <1>4, <1>5
  <2>2. IsFiniteSet(1..(r - 1)) /\ Cardinality(1..(r - 1)) = r - 1
    <3>1. r \in Nat /\ r >= 1 /\ r - 1 \in Int
      BY <1>1, <1>3
    <3> QED
      BY <3>1, FS_Interval
  <2> QED
    BY <2>1, <2>2, FS_Subset
<1>9. ASSUME n # 2 PROVE latency_p50_ms <= latency_p95_ms
  <2>1. latency_p50_ms = IF n % 2 = 1 THEN durations_ms[(n + 1) \div 2]
          ELSE (durations_ms[n \div 2] + durations_ms[n \div 2 + 1]) \div 2
    BY <1>2 DEF latency_p50_ms, Median
  <2>2. CASE n % 2 = 1
    <3>1. (n + 1) \div 2 \in 1..n /\ (n + 1) \div 2 <= r
      BY <1>1, <1>9, <2>2, MedianRank DEF r
    <3> QED
      BY <1>3, <1>4, <1>5, <2>1, <2>2, <3>1
  <2>3. CASE n % 2 # 1
    <3> DEFINE a == durations_ms[n \div 2]
               b == durations_ms[n \div 2 + 1]
               c == durations_ms[r]
    <3>1. n \div 2 \in 1..n /\ n \div 2 + 1 \in 1..n /\ n \div 2 + 1 <= r
      BY <1>1, <1>9, <2>3, MedianRank DEF r
    <3>2. a <= c /\ b <= c /\ a \in Nat /\ b \in Nat /\ c \in Nat
      <4> DEFINE h == n \div 2
      <4>1. h \in 1..n /\ h + 1 \in 1..n /\ h + 1 <= r
        BY <3>1
      <4>2. durations_ms[h] <= durations_ms[r] /\ durations_ms[h + 1] <= durations_ms[r]
        <5> HIDE DEF h
        <5>0. r \in 1..n /\ n \in Nat
          BY <1>1, <1>3
        <5>1. h <= r
          BY <4>1, <5>0
        <5> QED
          BY <1>5, <4>1, <5>0, <5>1
      <4> QED
        BY <1>2, <1>3, <4>1, <4>2
    <3>3. latency_p50_ms = (a + b) \div 2 /\ latency_p95_ms = c
      BY <1>4, <2>1, <2>3
    <3> HIDE DEF a, b, c
    <3> QED
      BY <3>2, <3>3
  <2> QED
    BY <2>2, <2>3
<1> HIDE DEF AtMost, Below
<1>10. IsFiniteSet(AtMost) /\ IsFiniteSet(Below)
  BY <1>6, <1>2, FS_Subset DEF AtMost, Below
<1>11. /\ Cardinality(AtMost) >= m /\ Cardinality(Below) < IF m = 0 THEN 1 ELSE m
  BY <1>3, <1>7, <1>8, <1>10, <1>m, FS_CardinalityType
<1> QED
  BY <1>9, <1>11 DEF PercentileTells, AtMost, Below, m

\* However many requests there were, at least 95 percent of them, rounded down, took no
\* longer than the percentile says (metrics.py 30-33).
THEOREM PercentileTellsHolds == StatisticsSpec => []PercentileTells
BY PercentileTellsInv, StatisticsInvariant, PTL

--------------------------------------------------------------------------------
\* A slow request leaves no more requests quick than there were: it is put in behind all
\* of them.
LEMMA SlowAddsNoQuick ==
  ASSUME NEW n \in Nat, NEW s \in [1..n -> Durations], NEW t \in [1..(n + 1) -> Durations],
         NEW p \in 1..(n + 1), NEW d \in Durations, d > MaxP95, Sorted(t),
         \A i \in 1..(n + 1) : (i < p => t[i] = s[i] /\ i \in 1..n) /\ (i = p => t[i] = d)
  PROVE  Cardinality({i \in 1..(n + 1) : t[i] <= MaxP95}) <=
           Cardinality({i \in 1..n : s[i] <= MaxP95})
<1> DEFINE S == {i \in 1..n : s[i] <= MaxP95}
           T == {i \in 1..(n + 1) : t[i] <= MaxP95}
<1>1. ASSUME NEW i \in 1..(n + 1), t[i] <= MaxP95 PROVE i < p
  <2>1. t[p] = d /\ t[i] \in Nat /\ d \in Nat /\ MaxP95 \in Nat
    BY StatisticsAssumption
  <2>2. ~(i >= p)
    BY <1>1, <2>1 DEF Sorted
  <2> QED
    BY <2>2
<1>2. T \subseteq S
  BY <1>1
<1>3. IsFiniteSet(S)
  <2>1. IsFiniteSet(1..n) /\ S \subseteq 1..n
    BY FS_Interval
  <2> QED
    BY <2>1, FS_Subset
<1> QED
  BY <1>2, <1>3, FS_Subset

\* A fast request is one quick request more: those behind it move by a place, it takes
\* its own.
LEMMA FastAddsQuick ==
  ASSUME NEW n \in Nat, NEW s \in [1..n -> Durations], NEW t \in [1..(n + 1) -> Durations],
         NEW p \in 1..(n + 1), NEW d \in Durations, d <= MaxP95,
         \A i \in 1..(n + 1) :
            /\ i < p => t[i] = s[i] /\ i \in 1..n
            /\ i = p => t[i] = d
            /\ i > p => t[i] = s[i - 1] /\ i - 1 \in 1..n
  PROVE  Cardinality({i \in 1..(n + 1) : t[i] <= MaxP95}) >
           Cardinality({i \in 1..n : s[i] <= MaxP95})
<1> DEFINE S == {i \in 1..n : s[i] <= MaxP95}
           T == {i \in 1..(n + 1) : t[i] <= MaxP95}
           f == [i \in S |-> IF i < p THEN i ELSE i + 1]
<1>1. IsFiniteSet(1..n) /\ IsFiniteSet(1..(n + 1))
  BY FS_Interval
<1>2. IsFiniteSet(S) /\ IsFiniteSet(T)
  BY <1>1, FS_Subset
<1>3. ASSUME NEW i \in S PROVE f[i] \in T /\ f[i] # p
  <2>1. i \in 1..n /\ s[i] <= MaxP95
    OBVIOUS
  <2>2. CASE i < p
    BY <2>1, <2>2
  <2>3. CASE ~(i < p)
    <3>1. i + 1 \in 1..(n + 1) /\ i + 1 > p /\ i + 1 - 1 = i
      BY <2>1, <2>3
    <3>2. t[i + 1] = s[i]
      BY <3>1
    <3> QED
      BY <2>1, <2>3, <3>1, <3>2
  <2> QED
    BY <2>2, <2>3
<1>4. \A i, j \in S : f[i] = f[j] => i = j
  OBVIOUS
<1>5. p \in T
  OBVIOUS
<1>6. f \in Injection(S, T) /\ f \notin Surjection(S, T)
  <2>1. f \in [S -> T]
    BY <1>3
  <2>2. DOMAIN f = S
    OBVIOUS
  <2> HIDE DEF f, S, T
  <2> QED
    BY <1>3, <1>4, <1>5, <2>1, <2>2 DEF Injection, IsInjective, Surjection, Range
<1> HIDE DEF f, S, T
<1>7. Cardinality(S) <= Cardinality(T) /\ Cardinality(S) # Cardinality(T)
  BY <1>2, <1>6, FS_Injection
<1> QED
  BY <1>2, <1>7, FS_CardinalityType DEF S, T

\* The percentile stays within the limit when a fast request is added, ...
LEMMA FastKeepsPercentile ==
  ASSUME NEW n \in Nat, NEW s \in [1..n -> Durations], NEW t \in [1..(n + 1) -> Durations],
         NEW p \in 1..(n + 1), NEW d \in Durations, d <= MaxP95, Sorted(t),
         \A i \in 1..n : i < p <=> s[i] <= d,
         \A i \in 1..(n + 1) :
            /\ i < p => t[i] = s[i] /\ i \in 1..n
            /\ i = p => t[i] = d
            /\ i > p => t[i] = s[i - 1] /\ i - 1 \in 1..n,
         n > 0 => s[Rank(n)] <= MaxP95
  PROVE  t[Rank(n + 1)] <= MaxP95
<1>0. /\ n > 0 => Rank(n) \in 1..n
      /\ Rank(n + 1) \in 1..(n + 1) /\ Rank(n) \in Nat
      /\ Rank(n + 1) <= Rank(n) + 1
  BY RankMoves
<1>1. /\ d \in Nat /\ MaxP95 \in Nat /\ \A i \in 1..n : s[i] \in Nat
      /\ \A i \in 1..(n + 1) : t[i] \in Nat
  BY StatisticsAssumption
<1>s. \A i, j \in 1..(n + 1) : i <= j => t[i] <= t[j]
  BY <1>1 DEF Sorted
<1>2. PICK k : k = Rank(n + 1)
  OBVIOUS
<1>3. PICK r : r = Rank(n)
  OBVIOUS
<1>4. k \in 1..(n + 1) /\ r \in Nat /\ k <= r + 1 /\ (n > 0 => r \in 1..n)
  BY <1>0, <1>2, <1>3
<1>5. CASE k < p
  <2>1. k \in 1..n /\ t[k] = s[k] /\ s[k] <= d
    BY <1>4, <1>5
  <2> QED
    BY <1>1, <1>2, <1>4, <2>1
<1>6. CASE k = p
  BY <1>2, <1>4, <1>6
<1>7. CASE k > p
  <2>1. k - 1 \in 1..n /\ t[k] = s[k - 1]
    BY <1>4, <1>7
  <2>2. n > 0 /\ r \in 1..n /\ s[r] <= MaxP95 /\ k - 1 <= r
    BY <1>3, <1>4, <2>1
  <2>3. r + 1 \in 1..(n + 1) /\ r + 1 > p /\ t[r + 1] = s[r] /\ k <= r + 1
    BY <1>4, <1>7, <2>2
  <2>4. t[k] <= t[r + 1]
    BY <1>s, <1>4, <2>3
  <2> QED
    BY <1>1, <1>2, <1>4, <2>2, <2>3, <2>4
<1> QED
  BY <1>4, <1>5, <1>6, <1>7

\* ... and one that is within the limit after a slow request was so before it.
LEMMA SlowKeepsPercentile ==
  ASSUME NEW n \in Nat, NEW s \in [1..n -> Durations], NEW t \in [1..(n + 1) -> Durations],
         NEW p \in 1..(n + 1), NEW d \in Durations, d > MaxP95, Sorted(t), n > 0,
         \A i \in 1..(n + 1) : (i < p => t[i] = s[i] /\ i \in 1..n) /\ (i = p => t[i] = d),
         t[Rank(n + 1)] <= MaxP95
  PROVE  s[Rank(n)] <= MaxP95
<1>0. /\ Rank(n) \in 1..n /\ Rank(n + 1) \in 1..(n + 1) /\ Rank(n) <= Rank(n + 1)
  BY RankMoves
<1>1. /\ d \in Nat /\ MaxP95 \in Nat /\ \A i \in 1..(n + 1) : t[i] \in Nat
  BY StatisticsAssumption
<1>s. \A i, j \in 1..(n + 1) : i <= j => t[i] <= t[j]
  BY <1>1 DEF Sorted
<1>2. PICK k : k = Rank(n + 1)
  OBVIOUS
<1>3. PICK r : r = Rank(n)
  OBVIOUS
<1>4. k \in 1..(n + 1) /\ r \in 1..n /\ r <= k /\ t[k] <= MaxP95 /\ t[p] = d
  BY <1>0, <1>2, <1>3
<1>5. k < p
  <2>1. ~(k >= p)
    BY <1>s, <1>1, <1>4
  <2> QED
    BY <1>4, <2>1
<1>6. r \in 1..(n + 1) /\ r < p /\ t[r] = s[r] /\ t[r] <= t[k]
  BY <1>s, <1>4, <1>5
<1> QED
  BY <1>1, <1>3, <1>4, <1>6

\* One request more raises what a rate allows by the rate.
LEMMA RateAllows ==
  ASSUME NEW a \in Nat, NEW n \in Nat
  PROVE  a * n \in Nat /\ a * (n + 1) = a * n + a
OBVIOUS

\* A rate that is kept with one failure more was kept before, because no more requests
\* fail than there are: a limit above 100 percent is always kept.
LEMMA RateKept ==
  ASSUME NEW a \in Nat, NEW n \in Nat, NEW e \in 0..n, 100 * (e + 1) <= a * (n + 1)
  PROVE  100 * e <= a * n
<1>1. a * n \in Nat /\ a * (n + 1) = a * n + a
  BY RateAllows
<1>2. CASE a <= 100
  BY <1>1, <1>2
<1>3. CASE a > 100
  <2>1. PICK b \in Nat : a = 100 + b
    <3>1. a - 100 \in Nat /\ a = 100 + (a - 100)
      BY <1>3
    <3> QED
      BY <3>1
  <2>2. (100 + b) * n = 100 * n + b * n /\ b * n \in Nat
    OBVIOUS
  <2> QED
    BY <2>1, <2>2
<1> QED
  BY <1>2, <1>3

\* A step is a request that goes well or not, fast or slow; either way the objectives
\* follow.
LEMMA FollowsRequestStep ==
  ASSUME StatisticsInv, StatisticsNext
  PROVE  FollowsRequest
<1>1. PICK d \in Durations, ok \in BOOLEAN, timeout \in BOOLEAN :
        (ok => ~timeout) /\ record(d, ok, timeout)
  BY DEF StatisticsNext
<1> DEFINE n == request_count
           s == durations_ms
           t == durations_ms'
<1>2. /\ n \in Nat /\ error_count \in 0..n /\ timeout_count \in 0..n
      /\ s \in [1..n -> Durations]
  BY StatisticsAssumption DEF StatisticsInv, StatisticsTypeOK
<1>3. /\ request_count' = n + 1
      /\ error_count' = IF ok THEN error_count ELSE error_count + 1
      /\ timeout_count' = IF timeout THEN timeout_count + 1 ELSE timeout_count
  BY <1>1, Recorded
<1>4. PICK p \in 1..(n + 1) :
        /\ \A i \in 1..n : i < p <=> s[i] <= d
        /\ t = InsertAt(s, p, d)
  BY <1>1, Recorded
<1>5. /\ t \in [1..(n + 1) -> Durations]
      /\ \A i \in 1..(n + 1) :
           /\ i < p => t[i] = s[i] /\ i \in 1..n
           /\ i = p => t[i] = d
           /\ i > p => t[i] = s[i - 1] /\ i - 1 \in 1..n
  <2>1. /\ InsertAt(s, p, d) \in [1..(n + 1) -> Durations]
        /\ \A i \in 1..(n + 1) :
             /\ i < p => InsertAt(s, p, d)[i] = s[i] /\ i \in 1..n
             /\ i = p => InsertAt(s, p, d)[i] = d
             /\ i > p => InsertAt(s, p, d)[i] = s[i - 1] /\ i - 1 \in 1..n
    BY <1>2, PutIn
  <2> HIDE DEF t
  <2> QED
    BY <1>4, <2>1
<1>6. Sorted(t)
  BY <1>2, <1>4, PutInSorted DEF StatisticsInv
<1>7. /\ latency_p95_ms = IF n = 0 THEN 0 ELSE s[Rank(n)]
      /\ latency_p95_ms' = t[Rank(n + 1)]
  <2>1. Len(s) = n /\ (s = <<>> <=> n = 0)
    BY <1>2, DurationsListed
  <2>2. Len(t) = n + 1 /\ t # <<>>
    BY <1>2, <1>5, DurationsListed
  <2> QED
    BY <2>1, <2>2 DEF latency_p95_ms
<1>8. /\ Quick = {i \in 1..n : s[i] <= MaxP95}
      /\ Quick' = {i \in 1..(n + 1) : t[i] <= MaxP95}
  BY <1>2, <1>5 DEF Quick
<1>9. /\ MaxP95 \in Nat /\ d \in Nat /\ MaxErrors \in Nat /\ MaxTimeouts \in Nat
      /\ MinRequests \in Nat
  BY StatisticsAssumption
<1> HIDE DEF s, t
<1>10. ASSUME error_count' = error_count, Cardinality(Quick') > Cardinality(Quick),
              check_metrics
       PROVE  check_metrics'
  <2>1. ok /\ ~timeout
    BY <1>1, <1>2, <1>3, <1>10
  <2>2. d <= MaxP95
    <3> SUFFICES ASSUME d > MaxP95 PROVE FALSE
      BY <1>9
    <3>0. \A i \in 1..(n + 1) : (i < p => t[i] = s[i] /\ i \in 1..n) /\ (i = p => t[i] = d)
      BY <1>5
    <3>1. Cardinality({i \in 1..(n + 1) : t[i] <= MaxP95}) <=
            Cardinality({i \in 1..n : s[i] <= MaxP95})
      BY <1>2, <1>5, <1>6, <3>0, SlowAddsNoQuick
    <3>2. Cardinality(Quick') \in Nat /\ Cardinality(Quick) \in Nat
      <4>1. IsFiniteSet(1..n) /\ IsFiniteSet(1..(n + 1))
        BY <1>2, FS_Interval
      <4>2. Quick \subseteq 1..n /\ Quick' \subseteq 1..(n + 1)
        BY <1>8
      <4>3. IsFiniteSet(Quick) /\ IsFiniteSet(Quick')
        BY <4>1, <4>2, FS_Subset
      <4> QED
        BY <4>3, FS_CardinalityType
    <3> QED
      BY <1>8, <1>10, <3>1, <3>2
  <2>3. n > 0 => s[Rank(n)] <= MaxP95
    BY <1>2, <1>7, <1>10 DEF check_metrics
  <2>4. t[Rank(n + 1)] <= MaxP95
    BY <1>2, <1>4, <1>5, <1>6, <2>2, <2>3, FastKeepsPercentile DEF s
  <2>5. 100 * error_count <= MaxErrors * n /\ 100 * timeout_count <= MaxTimeouts * n
        /\ n >= MinRequests
    BY <1>10 DEF check_metrics
  <2>6. /\ MaxErrors * n \in Nat /\ MaxErrors * (n + 1) = MaxErrors * n + MaxErrors
        /\ MaxTimeouts * n \in Nat /\ MaxTimeouts * (n + 1) = MaxTimeouts * n + MaxTimeouts
    BY <1>2, <1>9, RateAllows
  <2>7. /\ 100 * error_count' <= MaxErrors * (n + 1)
        /\ 100 * timeout_count' <= MaxTimeouts * (n + 1)
        /\ n + 1 >= MinRequests
    BY <1>2, <1>3, <1>9, <2>1, <2>5, <2>6
  <2> QED
    BY <1>3, <1>7, <2>4, <2>7 DEF check_metrics
<1>11. ASSUME timeout_count' > timeout_count, ~(Cardinality(Quick') > Cardinality(Quick)),
              check_metrics', ~(request_count < MinRequests)
       PROVE  check_metrics
  <2>1. timeout /\ ~ok
    BY <1>1, <1>2, <1>3, <1>11
  <2>2. d > MaxP95
    <3> SUFFICES ASSUME d <= MaxP95 PROVE FALSE
      BY <1>9
    <3> QED
      BY <1>2, <1>5, <1>8, <1>11, FastAddsQuick
  <2>3. t[Rank(n + 1)] <= MaxP95
    BY <1>7, <1>11 DEF check_metrics
  <2>4. n > 0 => s[Rank(n)] <= MaxP95
    BY <1>2, <1>5, <1>6, <2>2, <2>3, SlowKeepsPercentile
  <2>5. latency_p95_ms <= MaxP95
    BY <1>2, <1>7, <1>9, <2>4
  <2>6. 100 * (error_count + 1) <= MaxErrors * (n + 1)
        /\ 100 * (timeout_count + 1) <= MaxTimeouts * (n + 1)
    BY <1>3, <1>11, <2>1 DEF check_metrics
  <2>7. 100 * error_count <= MaxErrors * n /\ 100 * timeout_count <= MaxTimeouts * n
    BY <1>2, <1>9, <2>6, RateKept
  <2> QED
    BY <1>2, <1>9, <1>11, <2>5, <2>7 DEF check_metrics
<1> QED
  BY <1>10, <1>11 DEF FollowsRequest

\* Whatever durations occur and whatever the limits are, the objectives follow the requests
\* (slo.py 25-49, metrics.py 18-33).
THEOREM ObjectivesFollow == StatisticsSpec => ObjectivesFollowRequests
<1>1. StatisticsInv /\ [StatisticsNext]_statisticsVars => [FollowsRequest]_statisticsVars
  BY FollowsRequestStep
<1> QED
  BY <1>1, StatisticsInvariant, PTL DEF StatisticsSpec, ObjectivesFollowRequests
================================================================================
