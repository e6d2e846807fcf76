----------------------------- MODULE CommandRunner -----------------------------
(***************************************************************************)
(* CommandRunner.run (runner.py): the one place PveMCP starts host          *)
(* processes.  A call splits the command line, then makes up to Retries + 1 *)
(* attempts: start a process, wait for it with a deadline, and give the     *)
(* process's exit code as the answer, whatever it is.  A timeout, a process *)
(* that cannot be started and output that does not decode each cost an      *)
(* attempt.  A process whose attempt timed out or whose caller was          *)
(* cancelled is not killed: it runs on while the next attempt starts        *)
(* another copy, and may end at any later moment or never.                  *)
(***************************************************************************)
EXTENDS HostProcess

CONSTANTS
  Calls,          \* calls of run(), each made once
  Retries,        \* max_retries; RunnerConfig.retries is 1
  SwallowsCancel  \* TRUE for asyncio.wait_for before Python 3.12, which drops a
                  \* cancellation that arrives when its awaitable is already done

ASSUME RetriesAssumption == Retries \in Nat
ASSUME SwallowsCancelAssumption == SwallowsCancel \in BOOLEAN

VARIABLES
  pc,         \* pc[c]: the await call c is suspended at
  attempt,    \* attempt[c]: the loop variable of call c
  proc,       \* proc[c][a]: the process attempt a of call c started
  seen,       \* seen[c][a]: what the except clauses made of attempt a
  answer,     \* answer[c]: the CommandResult returned
  cancelling  \* cancelling[c]: task.cancel() was called, not yet delivered

runnerVars == <<pc, attempt, proc, seen, answer, cancelling>>

Attempts == 0..Retries

Labels == {"idle", "created", "spawning", "communicating", "backoff", "done", "cancelled"}
Terminal == {"done", "cancelled"}

\* An attempt fails in one of the three ways that lead to another one.
Failures == {"timeout", "spawn_error", "undecodable"}
Outcomes == {"none", "answered", "aborted", "interrupted"} \cup Failures

TypeOK ==
  /\ pc \in [Calls -> Labels]
  /\ attempt \in [Calls -> Attempts]
  /\ proc \in [Calls -> [Attempts -> ProcessStates]]
  /\ seen \in [Calls -> [Attempts -> Outcomes]]
  /\ answer \in [Calls -> Results \cup {NoAnswer}]
  /\ cancelling \in [Calls -> BOOLEAN]

Init ==
  /\ pc = [c \in Calls |-> "idle"]
  /\ attempt = [c \in Calls |-> 0]
  /\ proc = [c \in Calls |-> [a \in Attempts |-> NotStarted]]
  /\ seen = [c \in Calls |-> [a \in Attempts |-> "none"]]
  /\ answer = [c \in Calls |-> NoAnswer]
  /\ cancelling = [c \in Calls |-> FALSE]

--------------------------------------------------------------------------------
(***************************************************************************)
(* The call, one action per stretch of code between two awaits.             *)
(***************************************************************************)

\* run(...) is called; its coroutine is scheduled and has not run yet.
Call(c) ==
  /\ pc[c] = "idle"
  /\ pc' = [pc EXCEPT ![c] = "created"]
  /\ UNCHANGED <<attempt, proc, seen, answer, cancelling>>

Return(c, n) ==
  /\ pc' = [pc EXCEPT ![c] = "done"]
  /\ answer' = [answer EXCEPT ![c] = Result(n)]

\* Mutation: one attempt too many.
ExtraAttempt(c, a, why) ==
  /\ seen' = [seen EXCEPT ![c][a] = why]
  /\ IF a <= Retries
       THEN pc' = [pc EXCEPT ![c] = "backoff"] /\ UNCHANGED answer
       ELSE Return(c, AttemptsUsedUp)

\* Mutation: giving up is reported as success.
GivesUpWithCodeZero(c, a, why) ==
  /\ seen' = [seen EXCEPT ![c][a] = why]
  /\ IF a < Retries
       THEN pc' = [pc EXCEPT ![c] = "backoff"] /\ UNCHANGED answer
       ELSE Return(c, 0)

\* Attempt a raised: sleep if there is another attempt, else code 124.
AttemptFails(c, a, why) ==
  /\ seen' = [seen EXCEPT ![c][a] = why]
  /\ IF a < Retries
       THEN pc' = [pc EXCEPT ![c] = "backoff"] /\ UNCHANGED answer
       ELSE Return(c, AttemptsUsedUp)

\* create_subprocess_exec: the process exists from here on, or cannot be started.
StartAttempt(c, a) ==
  /\ attempt' = [attempt EXCEPT ![c] = a]
  /\ \/ /\ proc' = [proc EXCEPT ![c][a] = Running]
        /\ pc' = [pc EXCEPT ![c] = "spawning"]
        /\ UNCHANGED <<seen, answer>>
     \/ /\ AttemptFails(c, a, "spawn_error")
        /\ UNCHANGED proc
  /\ UNCHANGED cancelling

\* shlex.split raises or finds no word: code 2 and no process.
RejectCommand(c) ==
  /\ pc[c] = "created"
  /\ ~cancelling[c]
  /\ Return(c, UnusableCommand)
  /\ UNCHANGED <<attempt, proc, seen, cancelling>>

FirstAttempt(c) ==
  /\ pc[c] = "created"
  /\ ~cancelling[c]
  /\ StartAttempt(c, 0)

\* The pipes are connected; wait_for(proc.communicate(), timeout) begins.
Connect(c) ==
  /\ pc[c] = "spawning"
  /\ ~cancelling[c]
  /\ pc' = [pc EXCEPT ![c] = "communicating"]
  /\ UNCHANGED <<attempt, proc, seen, answer, cancelling>>

\* Mutation: whichever process of the call has exited is read.
CollectAnyProcess(c) ==
  /\ pc[c] = "communicating"
  /\ cancelling[c] => SwallowsCancel
  /\ \E a \in Attempts : proc[c][a].state = "exited" /\ Return(c, proc[c][a].code)
  /\ seen' = [seen EXCEPT ![c][attempt[c]] = "answered"]
  /\ cancelling' = [cancelling EXCEPT ![c] = FALSE]
  /\ UNCHANGED <<attempt, proc>>

\* Mutation: a nonzero exit code costs an attempt too.
CollectRetriesNonzero(c) ==
  LET a == attempt[c] IN
  /\ pc[c] = "communicating"
  /\ proc[c][a].state = "exited"
  /\ cancelling[c] => SwallowsCancel
  /\ IF proc[c][a].code = 0
       THEN Return(c, 0) /\ seen' = [seen EXCEPT ![c][a] = "answered"]
       ELSE AttemptFails(c, a, "answered")
  /\ cancelling' = [cancelling EXCEPT ![c] = FALSE]
  /\ UNCHANGED <<attempt, proc>>

\* communicate() returned.  The exit code is the answer, zero or not, unless the
\* output is not UTF-8.  With SwallowsCancel this may also drop a cancellation.
Collect(c) ==
  LET a == attempt[c] IN
  /\ pc[c] = "communicating"
  /\ proc[c][a].state = "exited"
  /\ cancelling[c] => SwallowsCancel
  /\ \/ /\ Return(c, proc[c][a].code)
        /\ seen' = [seen EXCEPT ![c][a] = "answered"]
     \/ AttemptFails(c, a, "undecodable")
  /\ cancelling' = [cancelling EXCEPT ![c] = FALSE]
  /\ UNCHANGED <<attempt, proc>>

\* The deadline passes first; the process may have exited all the same, while a
\* descendant keeps its pipes open.  Nothing is killed.
TimeOut(c) ==
  /\ pc[c] = "communicating"
  /\ ~cancelling[c]
  /\ AttemptFails(c, attempt[c], "timeout")
  /\ UNCHANGED <<attempt, proc, cancelling>>

\* Mutation: the loop variable is not advanced.
NextAttemptSameNumber(c) ==
  /\ pc[c] = "backoff"
  /\ ~cancelling[c]
  /\ StartAttempt(c, attempt[c])

\* Mutation: a cancellation delivered during the sleep is lost.
NextAttemptIgnoresCancel(c) ==
  /\ pc[c] = "backoff"
  /\ StartAttempt(c, attempt[c] + 1)

\* asyncio.sleep(0.2 * (attempt + 1)) is over.
NextAttempt(c) ==
  /\ pc[c] = "backoff"
  /\ ~cancelling[c]
  /\ StartAttempt(c, attempt[c] + 1)

\* task.cancel() on the task that awaits run(): job_cancel, or a client that
\* drops its request.
RequestCancel(c) ==
  /\ pc[c] \notin {"idle"} \cup Terminal
  /\ cancelling' = [cancelling EXCEPT ![c] = TRUE]
  /\ UNCHANGED <<pc, attempt, proc, seen, answer>>

\* Mutation: a process that is being set up is not killed.
DeliverCancelKeepsProcess(c) ==
  LET a == attempt[c] IN
  /\ cancelling[c]
  /\ pc[c] \notin Terminal
  /\ pc' = [pc EXCEPT ![c] = "cancelled"]
  /\ cancelling' = [cancelling EXCEPT ![c] = FALSE]
  /\ seen' = CASE pc[c] = "spawning"      -> [seen EXCEPT ![c][a] = "aborted"]
               [] pc[c] = "communicating" -> [seen EXCEPT ![c][a] = "interrupted"]
               [] OTHER                   -> seen
  /\ UNCHANGED <<attempt, answer, proc>>

\* CancelledError is raised at the await and no clause of run() catches it.
\* create_subprocess_exec kills a process it was still setting up; a process
\* being waited for is left alone.
DeliverCancel(c) ==
  LET a == attempt[c] IN
  /\ cancelling[c]
  /\ pc[c] \notin Terminal
  /\ pc' = [pc EXCEPT ![c] = "cancelled"]
  /\ cancelling' = [cancelling EXCEPT ![c] = FALSE]
  /\ proc' = IF pc[c] = "spawning" /\ proc[c][a] = Running
               THEN [proc EXCEPT ![c][a] = Killed]
               ELSE proc
  /\ seen' = CASE pc[c] = "spawning"      -> [seen EXCEPT ![c][a] = "aborted"]
               [] pc[c] = "communicating" -> [seen EXCEPT ![c][a] = "interrupted"]
               [] OTHER                   -> seen
  /\ UNCHANGED <<attempt, answer>>

\* The operating system: a process ends with some code, watched or not.
ProcessExits(c, a) ==
  /\ proc[c][a] = Running
  /\ \E n \in ExitCodes : proc' = [proc EXCEPT ![c][a] = Exited(n)]
  /\ UNCHANGED <<pc, attempt, seen, answer, cancelling>>

--------------------------------------------------------------------------------
\* What the event loop does for call c: run its coroutine to the next await.
RunnerStep(c) ==
  \/ RejectCommand(c)
  \/ FirstAttempt(c)
  \/ Connect(c)
  \/ Collect(c)
  \/ TimeOut(c)
  \/ NextAttempt(c)
  \/ DeliverCancel(c)

HostStep(c) == \E a \in Attempts : ProcessExits(c, a)

Next == \E c \in Calls : Call(c) \/ RunnerStep(c) \/ RequestCancel(c) \/ HostStep(c)

\* The event loop runs every ready handle and fires every due timer; nothing is
\* assumed of host processes, which may hang for ever.
RunnerFairness == \A c \in Calls : WF_runnerVars(RunnerStep(c))

Spec == Init /\ [][Next]_runnerVars /\ RunnerFairness

--------------------------------------------------------------------------------
\* An answer other than "attempts used up" and "unusable command" is the exit
\* code of the process of the attempt that read it, and the processes of earlier
\* attempts, which may exit at any moment before or after, never leak into it
\* (runner.py 84-101: the loop rebinds proc).
AnswerIsFromLastProcess ==
  \A c \in Calls : \A a \in Attempts :
    seen[c][a] = "answered" =>
      /\ a = attempt[c]
      /\ proc[c][a].state = "exited"
      /\ answer[c] = Result(proc[c][a].code)

\* A command is started again only after its previous attempt failed in one of
\* the three ways runner.py 102-105 catches: a process whose exit code was read,
\* zero or not, is never run a second time.
RetriedOnlyAfterFailure ==
  \A c \in Calls : \A a \in Attempts :
    proc[c][a] # NotStarted => \A b \in 0..(a - 1) : seen[c][b] \in Failures

\* A process still running while no call waits for it is one whose deadline
\* passed or whose caller was cancelled while waiting: no other path through
\* run() leaves a process behind (runner.py 77-108).
OrphansExplained ==
  \A c \in Calls : \A a \in Attempts :
    /\ proc[c][a] = Running
    /\ ~(a = attempt[c] /\ pc[c] \in {"spawning", "communicating"})
    => seen[c][a] \in {"timeout", "interrupted"}

\* Every call that is made returns or is cancelled, even if every process it
\* starts hangs for ever: the deadline and the attempt limit bound it.
EveryCallEnds == \A c \in Calls : pc[c] # "idle" ~> pc[c] \in Terminal

\* run() implements the contract its callers rely on.
Phase(c) ==
  CASE pc[c] = "idle"      -> "idle"
    [] pc[c] = "done"      -> "answered"
    [] pc[c] = "cancelled" -> "abandoned"
    [] OTHER               -> "open"

Contract == INSTANCE HostCommand WITH
  Copies <- Attempts, phase <- [c \in Calls |-> Phase(c)], copy <- proc

ImplementsHostCommand == Contract!Spec
================================================================================
