------------------------------- MODULE JobManager ------------------------------
(***************************************************************************)
(* JobManager (jobs.py): a host command as a background asyncio task that a *)
(* client starts, polls and cancels by id.  The status a client reads is    *)
(* not the task's own: job_cancel writes "cancelled" before the task has    *)
(* seen the cancellation, and the done-callback _finalize, which the loop   *)
(* runs some time after the task has ended, writes the status again.        *)
(* A job's call of run() is the call of CommandRunner of the same name.     *)
(***************************************************************************)
EXTENDS CommandRunner, Sequences

CONSTANT MaxCancels   \* bound: how often clients ask to cancel one job

ASSUME MaxCancelsAssumption == MaxCancels \in Nat

VARIABLES
  status,     \* status[j]: JobState.status, "none" before job_start
  result,     \* result[j]: JobState.result
  events,     \* events[j]: the types of JobState.events, oldest first
  finalized,  \* finalized[j]: the done-callback has run
  refused     \* refused[j]: some job_cancel(j) returned False

jobVars == <<status, result, events, finalized, refused>>
managerVars == <<runnerVars, jobVars>>

Jobs == Calls
Statuses == {"none", "running", "cancelled", "completed"}
Events == {"started", "cancel_requested", "cancelled", "completed"}

JobTypeOK ==
  /\ TypeOK
  /\ status \in [Jobs -> Statuses]
  /\ result \in [Jobs -> Results \cup {NoAnswer}]
  /\ events \in [Jobs -> Seq(Events)]
  /\ finalized \in [Jobs -> BOOLEAN]
  /\ refused \in [Jobs -> BOOLEAN]

JobInit ==
  /\ Init
  /\ status = [j \in Jobs |-> "none"]
  /\ result = [j \in Jobs |-> NoAnswer]
  /\ events = [j \in Jobs |-> <<>>]
  /\ finalized = [j \in Jobs |-> FALSE]
  /\ refused = [j \in Jobs |-> FALSE]

AddEvent(j, type) == events' = [events EXCEPT ![j] = Append(@, type)]

job_start(j) ==
  /\ Call(j)
  /\ status' = [status EXCEPT ![j] = "running"]
  /\ AddEvent(j, "started")
  /\ UNCHANGED <<result, finalized, refused>>

\* Mutation: a task that has ended is shown as cancelled too.
CancelsEndedJob(j) ==
  /\ status[j] # "none"
  /\ Len(events[j]) <= MaxCancels
  /\ IF pc[j] \in Terminal THEN UNCHANGED runnerVars ELSE RequestCancel(j)
  /\ status' = [status EXCEPT ![j] = "cancelled"]
  /\ AddEvent(j, "cancel_requested")
  /\ UNCHANGED <<result, finalized, refused>>

\* Mutation: the status is set but the task is not told.
CancelForgetsTask(j) ==
  /\ status[j] # "none"
  /\ pc[j] \notin Terminal
  /\ Len(events[j]) <= MaxCancels
  /\ status' = [status EXCEPT ![j] = "cancelled"]
  /\ AddEvent(j, "cancel_requested")
  /\ UNCHANGED <<runnerVars, result, finalized, refused>>

\* The task has not ended: cancel it, and show it as cancelled at once.  Asking
\* again, before the cancellation is delivered, is accepted again.
job_cancel(j) ==
  /\ status[j] # "none"
  /\ Len(events[j]) <= MaxCancels
  /\ RequestCancel(j)
  /\ status' = [status EXCEPT ![j] = "cancelled"]
  /\ AddEvent(j, "cancel_requested")
  /\ UNCHANGED <<result, finalized, refused>>

\* Mutation: the status is written before task.done() is looked at.
RefusesAfterWriting(j) ==
  /\ pc[j] \in Terminal
  /\ refused' = [refused EXCEPT ![j] = TRUE]
  /\ status' = [status EXCEPT ![j] = "cancelled"]
  /\ UNCHANGED <<runnerVars, result, events, finalized>>

\* The task has ended, though _finalize may not have run: job_cancel says False.
job_cancel_refused(j) ==
  /\ pc[j] \in Terminal
  /\ refused' = [refused EXCEPT ![j] = TRUE]
  /\ UNCHANGED <<runnerVars, status, result, events, finalized>>

\* Mutation: task.cancelled() is not looked at, the answer is stored regardless.
FinalizeIgnoresCancelled(j) ==
  /\ pc[j] \in Terminal
  /\ ~finalized[j]
  /\ finalized' = [finalized EXCEPT ![j] = TRUE]
  /\ result' = [result EXCEPT ![j] = answer[j]]
  /\ status' = [status EXCEPT ![j] = "completed"]
  /\ AddEvent(j, "completed")
  /\ UNCHANGED <<runnerVars, refused>>

\* Mutation: task.result() of a cancelled task raises out of the callback.
FinalizeRaisesWhenCancelled(j) ==
  /\ pc[j] = "done"
  /\ ~finalized[j]
  /\ finalized' = [finalized EXCEPT ![j] = TRUE]
  /\ result' = [result EXCEPT ![j] = answer[j]]
  /\ status' = [status EXCEPT ![j] = "completed"]
  /\ AddEvent(j, "completed")
  /\ UNCHANGED <<runnerVars, refused>>

\* _finalize, called by the loop after the task has ended.
finalize(j) ==
  /\ pc[j] \in Terminal
  /\ ~finalized[j]
  /\ finalized' = [finalized EXCEPT ![j] = TRUE]
  /\ \/ /\ pc[j] = "cancelled"
        /\ status' = [status EXCEPT ![j] = "cancelled"]
        /\ AddEvent(j, "cancelled")
        /\ UNCHANGED result
     \/ /\ pc[j] = "done"
        /\ result' = [result EXCEPT ![j] = answer[j]]
        /\ status' = [status EXCEPT ![j] = "completed"]
        /\ AddEvent(j, "completed")
  /\ UNCHANGED <<runnerVars, refused>>

\* The job's task and its processes run; the manager learns of it in finalize.
TaskStep(j) == RunnerStep(j) /\ UNCHANGED jobVars
CommandStep(j) == HostStep(j) /\ UNCHANGED jobVars

ManagerStep(j) == job_start(j) \/ job_cancel(j) \/ job_cancel_refused(j) \/ finalize(j)

JobNext == \E j \in Jobs : ManagerStep(j) \/ TaskStep(j) \/ CommandStep(j)

\* The event loop also runs every scheduled done-callback.
JobFairness == \A j \in Jobs : WF_managerVars(TaskStep(j)) /\ WF_managerVars(finalize(j))

JobSpec == JobInit /\ [][JobNext]_managerVars /\ JobFairness

--------------------------------------------------------------------------------
\* The event list a client polls agrees with the status it polls, whatever order
\* job_cancel and the callback run in, and nothing follows a final event
\* (jobs.py 47-55, 68-76).
EventsTellStatus ==
  \A j \in Jobs :
    LET es == events[j] IN
    /\ status[j] = "none" <=> es = <<>>
    /\ status[j] # "none" =>
         /\ es[1] = "started"
         /\ \A i \in 2..Len(es) : es[i] # "started"
         /\ status[j] = CASE es[Len(es)] = "started"   -> "running"
                          [] es[Len(es)] = "completed" -> "completed"
                          [] OTHER                     -> "cancelled"
         /\ \A i \in 1..(Len(es) - 1) : es[i] \notin {"completed", "cancelled"}

\* A job shows a result exactly when it shows "completed", and the result is the
\* answer its command's run() returned: no result appears for a cancelled job
\* and no cancelled task ends up completed (jobs.py 49-54).
ResultIffCompleted ==
  \A j \in Jobs :
    /\ status[j] = "completed" <=> result[j] # NoAnswer
    /\ status[j] = "completed" => pc[j] = "done" /\ result[j] = answer[j]

\* A refused cancellation is not a silent one: a job that only ever refused
\* keeps running to its answer and is never shown as cancelled (jobs.py 70-71,
\* which may run between the end of the task and the callback).
RefusedJobIsNotCancelled ==
  \A j \in Jobs :
    refused[j] /\ (\A i \in DOMAIN events[j] : events[j][i] # "cancel_requested") =>
      pc[j] = "done" /\ status[j] # "cancelled"

\* On Python 3.12 and later, a job shown as cancelled stays cancelled, although
\* job_cancel writes that status while the command may be finishing.
CancelledIsFinal ==
  [][\A j \in Jobs : status[j] = "cancelled" => status'[j] = "cancelled"]_managerVars

\* On Python 3.12 and later, a job shown as cancelled starts no process: the
\* cancellation also reaches a job that sleeps before a retry.
CancelStopsAttempts ==
  [][\A j \in Jobs : status[j] = "cancelled" =>
       \A a \in Attempts : proc[j][a] = NotStarted => proc'[j][a] = NotStarted]_managerVars

\* Every job that was started ends, its callback runs, and the status a client
\* polls is not "running" for ever, even if the command hangs.
JobsSettle ==
  \A j \in Jobs : status[j] # "none" ~> finalized[j] /\ status[j] \in {"cancelled", "completed"}
================================================================================
