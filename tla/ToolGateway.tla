------------------------------- MODULE ToolGateway -----------------------------
(***************************************************************************)
(* One PveMCP process answering requests: the wrapper every tool body goes  *)
(* through (policy check, execution, audit record, metrics), VMService.exec *)
(* where it is called bare, and the tools that call the runner directly.    *)
(* Requests run concurrently on one event loop, so their steps interleave   *)
(* at awaits only: a blocked request is handled in one step, an executed    *)
(* one is accounted for in the same step in which its command's run()       *)
(* returns.  A client may drop a request at any await, the audit file may   *)
(* refuse a write, and the process may crash and be started again.          *)
(*                                                                          *)
(* The call of run() a request makes is the call of CommandRunner of the    *)
(* same name.                                                               *)
(***************************************************************************)
EXTENDS CommandRunner, Sequences, FiniteSets

CONSTANTS
  Entries,     \* ways into the process, a subset of the four below
  Commands,    \* commands, by what the policy finds in them
  AuditMayFail, \* TRUE: a write to the audit file may raise
  MaxCrashes   \* bound: how often the process is killed and restarted

ASSUME EntriesAssumption == Entries \subseteq {"server", "cli", "service", "direct"}
ASSUME CommandsAssumption == Commands \subseteq [denied : BOOLEAN, allowed : BOOLEAN]
ASSUME AuditMayFailAssumption == AuditMayFail \in BOOLEAN
ASSUME MaxCrashesAssumption == MaxCrashes \in Nat

VARIABLES
  request,   \* request[r]: entry point, command and danger_mode of request r
  stage,     \* stage[r]: how far the request is, as its client sees it
  reply,     \* reply[r]: the result a replied request was given
  audit,     \* the lines of the audit file, oldest first
  metrics,   \* the counters of MetricsStore
  base,      \* length of the audit file when the process was last started
  crashes    \* how often it crashed

gatewayVars == <<request, stage, reply, audit, metrics, base, crashes>>
vars == <<runnerVars, gatewayVars>>

Requests == Calls

\* All the policy looks at: a denylisted substring, an allowlisted beginning.
\* (An empty command begins with nothing allowlisted.)
RequestKinds == [entry : Entries, cmd : Commands, danger : BOOLEAN]
NoRequest == [entry |-> "none"]

Stages == {"new", "executing", "replied", "raised", "dropped", "lost"}
Over == {"replied", "raised", "dropped", "lost"}

BlockedByWrapper == 1
BlockedByService == 403
ExecuteRaised == 1
InvalidArgument == 2

\* The CommandResult a wrapper accounts for and hands out.  Beyond the runner it is
\* no longer so that ok means code 0: see Returned.
Replies == [ok : BOOLEAN, code : Int]

AuditLine == [req : Requests, kind : {"blocked", "executed"}, ok : BOOLEAN, code : Int]

Counters == [requests : Nat, errors : Nat, timeouts : Nat, blocks : Nat]
ZeroCounters == [requests |-> 0, errors |-> 0, timeouts |-> 0, blocks |-> 0]

GatewayTypeOK ==
  /\ TypeOK
  /\ request \in [Requests -> RequestKinds \cup {NoRequest}]
  /\ stage \in [Requests -> Stages]
  /\ reply \in [Requests -> Replies]
  /\ audit \in Seq(AuditLine)
  /\ metrics \in Counters
  /\ base \in 0..Len(audit)
  /\ crashes \in 0..MaxCrashes

GatewayInit ==
  /\ Init
  /\ request = [r \in Requests |-> NoRequest]
  /\ stage = [r \in Requests |-> "new"]
  /\ reply = [r \in Requests |-> NoAnswer]
  /\ audit = <<>>
  /\ metrics = ZeroCounters
  /\ base = 0
  /\ crashes = 0

--------------------------------------------------------------------------------
\* PolicyEnforcer.validate.  Every truthy danger_mode, "safe" included, waives
\* the denylist; nothing waives the allowlist; command_context is not read.
Permits(cmd, danger) == (cmd.denied => danger) /\ cmd.allowed

\* MetricsStore.record, as the wrappers call it: an error is a result that is not
\* ok, a timeout one with the code 124.
Record(m, res) ==
  [m EXCEPT !.requests = @ + 1,
            !.errors   = IF res.ok THEN @ ELSE @ + 1,
            !.timeouts = IF res.code = AttemptsUsedUp THEN @ + 1 ELSE @]

\* MetricsStore.record_policy_block
RecordPolicyBlock(m) == [m EXCEPT !.blocks = @ + 1]

Write(r, kind, res) ==
  audit' = Append(audit, [req |-> r, kind |-> kind, ok |-> res.ok, code |-> res.code])

Reply(r, res) ==
  /\ stage' = [stage EXCEPT ![r] = "replied"]
  /\ reply' = [reply EXCEPT ![r] = res]

\* An exception leaves the wrapper, to the client of the tool.
Raise(r) == stage' = [stage EXCEPT ![r] = "raised"] /\ UNCHANGED reply

\* The policy refuses: nothing is executed.  The three wrappers differ in the
\* order of audit and block counter, which shows when the audit write fails;
\* VMService.exec counts no request and raises in any case.
Blocked(r, entry) ==
  \/ /\ entry \in {"server", "cli"}
     /\ Write(r, "blocked", Result(BlockedByWrapper))
     /\ metrics' = Record(RecordPolicyBlock(metrics), Result(BlockedByWrapper))
     /\ Reply(r, Result(BlockedByWrapper))
  \/ /\ entry = "service"
     /\ Write(r, "blocked", Result(BlockedByService))
     /\ metrics' = RecordPolicyBlock(metrics)
     /\ Raise(r)
  \/ /\ AuditMayFail
     /\ UNCHANGED audit
     /\ metrics' = IF entry = "server" THEN metrics ELSE RecordPolicyBlock(metrics)
     /\ Raise(r)

\* Mutation: metrics are recorded before the audit write that may raise.
ExecutedCountsFirst(r, res) ==
  \/ /\ Write(r, "executed", res)
     /\ metrics' = Record(metrics, res)
     /\ Reply(r, res)
  \/ /\ AuditMayFail
     /\ UNCHANGED audit
     /\ metrics' = Record(metrics, res)
     /\ Raise(r)

\* Mutation: the audit record is best-effort, its failure is swallowed.
ExecutedAuditOptional(r, res) ==
  /\ Write(r, "executed", res) \/ (AuditMayFail /\ UNCHANGED audit)
  /\ metrics' = Record(metrics, res)
  /\ Reply(r, res)

\* Execution is over with res: redact, audit, count, reply.  If the audit file
\* refuses the line, the exception skips the counting and the reply.
Executed(r, res) ==
  \/ /\ Write(r, "executed", res)
     /\ metrics' = Record(metrics, res)
     /\ Reply(r, res)
  \/ /\ AuditMayFail
     /\ UNCHANGED <<audit, metrics>>
     /\ Raise(r)

\* What execute() makes of the result of run(): the result itself, or for a file get
\* that qm carried out, but whose file did not arrive, one that is not ok and still
\* has the code 0.  VMService.exec runs no file transfers.
Returned(entry, res) ==
  IF entry \in {"server", "cli"} /\ res.ok THEN {res, [res EXCEPT !.ok = FALSE]} ELSE {res}

\* A direct tool hands the result on as it is.
HandOn(r, res) == Reply(r, res) /\ UNCHANGED <<audit, metrics>>

Begin(r) ==
  /\ Call(r)
  /\ stage' = [stage EXCEPT ![r] = "executing"]
  /\ UNCHANGED <<reply, audit, metrics>>

\* Mutation: a request is executed first and checked never.
ArrivesUnchecked(r) ==
  /\ stage[r] = "new"
  /\ \E kind \in RequestKinds : request' = [request EXCEPT ![r] = kind] /\ Begin(r)
  /\ UNCHANGED <<base, crashes>>

\* A request arrives.  A wrapper's execute() may also end before it reaches the
\* runner: it raises (a local file that cannot be read, an FTP server that cannot
\* start), a result with code 1 like any other, or finds an argument invalid, one
\* with code 2.
Arrives(r) ==
  /\ stage[r] = "new"
  /\ \E kind \in RequestKinds :
       /\ request' = [request EXCEPT ![r] = kind]
       /\ \/ /\ kind.entry = "direct"
             /\ Begin(r)
          \/ /\ kind.entry # "direct"
             /\ ~Permits(kind.cmd, kind.danger)
             /\ Blocked(r, kind.entry)
             /\ UNCHANGED runnerVars
          \/ /\ kind.entry # "direct"
             /\ Permits(kind.cmd, kind.danger)
             /\ Begin(r)
          \/ /\ kind.entry \in {"server", "cli"}
             /\ Permits(kind.cmd, kind.danger)
             /\ \E n \in {ExecuteRaised, InvalidArgument} : Executed(r, Result(n))
             /\ UNCHANGED runnerVars
  /\ UNCHANGED <<base, crashes>>

\* Mutation: a dropped request stays in the table of running requests.
ProgressForgetsDropped(r) ==
  /\ stage[r] = "executing"
  /\ RunnerStep(r)
  /\ \/ /\ pc'[r] # "done"
        /\ UNCHANGED <<stage, reply, audit, metrics>>
     \/ /\ pc'[r] = "done"
        /\ IF request[r].entry = "direct"
             THEN HandOn(r, answer'[r])
             ELSE \E res \in Returned(request[r].entry, answer'[r]) : Executed(r, res)
  /\ UNCHANGED <<request, base, crashes>>

\* The request's coroutine runs.  There is no await between the return of run()
\* and the wrapper's own return.  CancelledError is no Exception: it passes the
\* wrapper's except clause, so neither audit nor metrics see a dropped request.
Progress(r) ==
  /\ stage[r] = "executing"
  /\ RunnerStep(r)
  /\ \/ /\ pc'[r] \notin Terminal
        /\ UNCHANGED <<stage, reply, audit, metrics>>
     \/ /\ pc'[r] = "done"
        /\ IF request[r].entry = "direct"
             THEN HandOn(r, answer'[r])
             ELSE \E res \in Returned(request[r].entry, answer'[r]) : Executed(r, res)
     \/ /\ pc'[r] = "cancelled"
        /\ stage' = [stage EXCEPT ![r] = "dropped"]
        /\ UNCHANGED <<reply, audit, metrics>>
  /\ UNCHANGED <<request, base, crashes>>

ClientDrops(r) == RequestCancel(r) /\ UNCHANGED gatewayVars

ProcessStep(r) == HostStep(r) /\ UNCHANGED gatewayVars

\* The process is killed and started again: counters and running requests are
\* gone, the audit file and the host processes stay.
Crash ==
  /\ crashes < MaxCrashes
  /\ crashes' = crashes + 1
  /\ pc' = [c \in Calls |-> IF stage[c] = "executing" THEN "cancelled" ELSE pc[c]]
  /\ seen' = [c \in Calls |->
       IF stage[c] = "executing" /\ pc[c] \in {"spawning", "communicating"}
         THEN [seen[c] EXCEPT ![attempt[c]] = "interrupted"]
         ELSE seen[c]]
  /\ cancelling' = [c \in Calls |-> FALSE]
  /\ stage' = [r \in Requests |-> IF stage[r] = "executing" THEN "lost" ELSE stage[r]]
  /\ metrics' = ZeroCounters
  /\ base' = Len(audit)
  /\ UNCHANGED <<attempt, proc, answer, request, reply, audit>>

GatewayNext ==
  \/ \E r \in Requests : Arrives(r) \/ Progress(r) \/ ClientDrops(r) \/ ProcessStep(r)
  \/ Crash

GatewayFairness == \A r \in Requests : WF_vars(Progress(r))

GatewaySpec == GatewayInit /\ [][GatewayNext]_vars /\ GatewayFairness

--------------------------------------------------------------------------------
Started(r) == \E a \in Attempts : proc[r][a] # NotStarted

LinesOf(r) == {i \in DOMAIN audit : audit[i].req = r}

\* Only a command the policy permits reaches the host, by whatever interleaving
\* of requests, and a request the audit file shows as blocked never started a
\* process (mcp_server.py 166-186, service.py 57-71).
OnlyPermittedRuns ==
  \A r \in Requests :
    /\ Started(r) /\ request[r].entry # "direct" =>
         Permits(request[r].cmd, request[r].danger)
    /\ \A i \in LinesOf(r) : audit[i].kind = "blocked" => ~Started(r)

\* A request that got an answer through a wrapper has exactly one audit line,
\* with the ok and the code its client saw; any other request has none, except that
\* VMService.exec writes its 403 line before it raises.
AuditedExactlyOnce ==
  \A r \in Requests :
    CASE stage[r] = "replied" /\ request[r].entry # "direct" ->
           \E i \in LinesOf(r) :
             LinesOf(r) = {i} /\ audit[i].ok = reply[r].ok /\ audit[i].code = reply[r].code
      [] stage[r] = "raised" /\ request[r].entry = "service" ->
           \A i, j \in LinesOf(r) : i = j /\ audit[i].code = BlockedByService
      [] OTHER -> LinesOf(r) = {}

\* The lines written since the process was started, those that stand for a counted
\* request, and among them the failures and timeouts; and the refusals.
Since == (base + 1)..Len(audit)
Counted == {i \in Since : ~(audit[i].kind = "blocked" /\ audit[i].code = BlockedByService)}
Failed == {i \in Counted : ~audit[i].ok}
TimedOut == {i \in Counted : audit[i].code = AttemptsUsedUp}
Refused == {i \in Since : audit[i].kind = "blocked"}

\* The counters tell the same story as the audit file since the process was
\* started: what is counted is written and what is written is counted, even when
\* an audit write fails halfway through a request.
LedgersAgree ==
  /\ metrics.requests = Cardinality(Counted)
  /\ metrics.errors = Cardinality(Failed)
  /\ metrics.timeouts = Cardinality(TimedOut)
  /\ metrics.blocks >= Cardinality(Refused)

\* Every request that starts executing leaves the process's hands: it is
\* answered, fails, is dropped or is lost in a crash.
RequestsEnd == \A r \in Requests : stage[r] = "executing" ~> stage[r] \in Over
================================================================================
