# A TLA+ verification of PveMCP

PveMCP is an MCP server and a command line (`vmctl`) that let an agent operate
Proxmox VE: every tool turns into one or more host commands (`qm`, `pvesh`, ...),
most of which run something in a guest. This directory holds TLA+ modules that
model it, TLC configurations that check them, and proofs TLAPS checks.
`PROJECT.json` maps every definition to the lines it models, and lists runs,
mutants, findings, hazards and theorems. Paths below are relative to
`src/src/pvemcp/` unless they start with `README`, `docs` or `tests`.

## 1. The system

### Components

| Component | Code | State | Operations |
|---|---|---|---|
| Command runner | `runner.py`, `models.py` | none between calls; per call: attempt, process | `run` |
| Background jobs | `jobs.py` | jobs, tasks | `job_start`, `job_cancel`, `job_status`, callback `_finalize` |
| Policy | `policy.py` | two constant lists | `validate` |
| Audit log | `audit.py` | an append-only file | `log` |
| Metrics, objectives | `metrics.py`, `slo.py` | counters, list of durations | `record`, `record_policy_block`, `snapshot`, checks |
| Request wrappers | `_run_with_policy` of `mcp_server.py`, `cli.py`, `workflows.py`; `service.py` | none of their own | validate, execute, audit, count |
| Transactional execution | `power_tools.py` 20-52 | snapshots and disk of a VM (in Proxmox) | snapshot, exec, validate, then delete, or roll back and delete |
| VM memory | `vm_memory.py` | one JSON file | annotate, secret, clear, load |
| File transfer | `ftp_server.py`, `proxmox.py` 257-320 | temporary directory and server per transfer; one class attribute | `put`, `get` |
| Guest tools | most of `mcp_server.py`, `power_tools.py`, `analysis_tools.py`, `orchestration.py` | the VM's record in the memory; the guest | sequences of guest commands, and a reply made of their answers |
| Host tools, federation, workflows, remote commands | `proxmox.py`, `mcp_server.py`, `analysis_tools.py`, `federation.py`, `workflows.py`, `remote.py` | VMs, snapshots (in Proxmox); the script and output of a workflow (in the guest) | sequences of host commands with stop conditions; one command on many VMs |
| `vmctl` | `cli.py` | none | the same requests, one per process |
| Watchdog | `analysis_tools.py` 118-203 | a listener and its connections | HTTP trigger, notification |
| Xen, replay, Lua, redaction and encryption, cloud-init, profiles | `xen.py`, `replay.py`, `lua_engine.py`, `security.py`, `crypto.py`, `cloudinit.py`, `profiles.py` | none | thin wrappers, text transformations, tables |

### How they interact

All tools run as tasks of one asyncio event loop, so their code interleaves at
`await` only. A request goes

    client -> tool -> _run_with_policy -> policy.validate
                          | execute()  -> proxmox.* / service.exec -> runner.run -> host process
                          | audit.log, metrics.record
                          v
                        result

Three wrappers are almost the same function, and differ in the order of audit and
block counter. `service.exec` is a fourth, with other codes and an exception
for a refusal. Some tools call a runner directly and pass all of it by. `JobManager`
runs `run` as a background task; no tool uses it, only `tests/test_core.py`.
Shared state: the counters and the audit file (all requests), the memory file
(the server and every `vmctl` process), `FTPHandler.authorizer` (all transfers of
a process), the file names that workflows write under, and the VMs themselves. The watchdog's handlers share the loop with everything else.

### What is hard, and what correct means

- **Runner.** A timeout or a cancellation does not kill the process, so a retry
  starts a second copy next to the first. Correct: the answer is that of the last
  process; a command whose exit code was read is never run again; every process
  left behind is explained by a timeout or a cancellation; the call ends.
- **Jobs.** Three writers of one status (`job_cancel`, the task's end, the
  callback), in an order the event loop chooses. Correct: status, events and
  result tell one story, a cancelled job stays so and starts nothing more.
- **Wrappers.** A check before an await and two records after it, one of which may
  raise; dropped requests; restarts. Correct: only permitted commands run through
  a wrapper, an answered request has one audit line, the counters agree with the file. An
  error is a result that is not ok, which is not the same as one with another code than
  0: `get` makes a failure of a result and leaves its code.
- **Transactions.** Five commands, each of which may take its effect late; equal
  snapshot names; being broken off. Correct: the snapshot is there while it is
  needed, what is reported as undone is, and what is committed is lost to a rival at most
  that was already under way.
- **Memory.** Unlocked read-modify-write by several processes and a write that
  first empties the file and then fills it piece by piece. Correct: taking turns loses
  nothing; nothing is invented until the pieces of two long texts have met.
- **Transfers.** Overlapping transfers share one authorizer. Correct: a transfer
  alone moves its own file; overlapping ones cannot mix files of different names.
- **Guest tools.** Whether a host command succeeded, what the guest's command ended
  with and what it printed are three things, and each tool looks at another one of
  them; a command written for a shell runs without one; several tools read and
  write one record of the memory around their awaits; a service has a name with
  ".service" and one without. Correct: a health or drift report is about what was seen,
  and the memory holds what there was a reason to put there.
- **Host tools.** Steps of which some must succeed and some need not, that share
  file names and VMs, and whose work may come after the tool has gone on. Correct: a
  sandbox is not on the LAN, a workflow returns its own output, a bootstrap boots. The
  code keeps a part of the first only.
- **Watchdog.** Clients that send a part of a request and close. Correct: only a whole
  trigger notifies, and a whole request is answered as long as the loop runs.
- **Statistics.** A rank that moves with the number of requests. Correct: the percentile
  is one, and a good request never makes the objectives be missed.

The full list, each at its line, is `hazards` in `PROJECT.json`.

## 2. The modules

| Module | Role |
|---|---|
| `HostProcess` | values: process states, exit codes, `CommandResult` (ok and code) |
| `HostCommand` | abstract specification: what a caller of `run` may rely on |
| `CommandRunner` | `CommandRunner.run`, implements `HostCommand` |
| `JobManager` | extends `CommandRunner`: a job's command is a call of the runner |
| `ToolGateway` | extends `CommandRunner`: a request's command is a call of the runner |
| `TransactionalExec` | `vm_transactional_exec` over host commands that keep `HostCommand` |
| `VmMemory` | the memory file and the processes that use it |
| `FtpBridge` | `put` and `get` and the shared authorizer |
| `GuestExec` | values: what a tool sees of a guest command, and `_fmt` and `_guest_stdout` |
| `GuestTools` | the tools that work in a guest, the guest, and the VM's record in the memory |
| `HostTools` | the tools that work with whole VMs, and the host |
| `Watchdog` | the listener, its handlers and their clients |
| `Statistics` | the metrics store's percentiles and the objectives |
| `MCCommandRunner`, `MCJobManager`, `MCToolGateway`, `MCTransactionalExec`, `MCVmMemory`, `MCFtpBridge`, `MCGuestTools`, `MCHostTools`, `MCWatchdog`, `MCStatistics` | small instances for TLC |
| `CommandRunnerProofs`, `ServerProofs` (of `JobManager`, `ToolGateway` and `Statistics`), `TransactionalExecProofs`, `VmMemoryProofs`, `FtpBridgeProofs`, `GuestToolsProofs`, `HostToolsProofs`, `WatchdogProofs` | theorems and proofs |

A definition after a comment beginning "Mutation:" is a deliberately
wrong version of the definition that follows it. It takes no part in any
specification; putting it in the place of the right one must break the
property `PROJECT.json` names for it.

**CommandRunner.** One action for each stretch of code between two awaits of
`run`. `pc` is the await a call is suspended at: `created` (the coroutine has not
run), `spawning` (`create_subprocess_exec`), `communicating` (`wait_for`),
`backoff` (`sleep`). `attempt` is the loop variable, `proc[c][a]` the process of
attempt `a`, `seen[c][a]` what the `except` clauses made of it, `cancelling` a
cancellation asked for and not delivered. `ProcessExits` is the operating system: a
process ends at any moment or never. `TimeOut` may happen when the process has
exited, since a descendant may hold its pipes open. `SwallowsCancel` tells the
Pythons apart: before 3.12 `wait_for` may drop a cancellation that arrives when its
awaitable is done (`pyproject.toml` allows 3.10).

**HostCommand.** A call is open, then answered or abandoned. It may launch several
copies, in order, only while it is open; each ends by itself; the answer is the
exit code of the copy launched last, or 2 without any copy, or 124. It promises
neither "exactly once" nor "nothing left running", because the code does not.

**JobManager.** `job_start`, `job_cancel` (accepted), `job_cancel_refused`,
`finalize`, and the runner's steps. `job_status` only reads. Event lists grow with
repeated cancellation and are bounded by `MaxCancels`.

**ToolGateway.** A `CommandResult` is ok with code 0 when it comes from the runner; what the
`execute` of a tool makes of it need not be (`Returned`: `get` of a file that did not come is
not ok and has code 0). Counters look at ok, audit lines keep both. `Arrives` is a wrapper up to its await, refusal included (no await
there, so one step); `Progress` is a step of the request's `run`, and when that
returns, everything up to the wrapper's own return, since there is no await in
between; `ClientDrops` and `Crash` come from outside. (`Arrives` and the start of the
first process are two steps here and one stretch of code there: the model has a few
more interleavings, and a request dropped in between looks like one dropped while
its process is set up.) A command is what the policy
finds in it: a denylisted substring, an allowlisted beginning. `AuditMayFail` lets
an audit write raise. The flags `skip_*` of `service.exec` are used only beneath a
wrapper, which is then the wrapper's case.

**TransactionalExec.** `Launch`, `Answered` and `BreaksOff` are the tool and its
awaited call; `CopyExits` is the host, where a copy takes its effect when it exits
with 0, waited for or not. `late` counts copies nobody waits for. `rivals` are, for each transaction, those that were
under way when its command took effect; `invalid` those whose validation failed in the
guest, which qm reports with 0. `disk` is the set
of transactions whose effect is on the guest's disk, `snaps[n]` the disk held by
snapshot `n` (a set of at most one). `Names` are the seconds `tx_<second>` is made of.

**VmMemory.** The actions are file accesses: the read of the record, the second
read in `save_vm_memory`, the truncation by `open("w")`, and the pieces a text is written
in: `Flush` when the buffer is full, `Close` for the rest. A piece goes behind the process's
own last one, whatever others have done to the file. A record is the set of facts it has
been told. A file is a store, or empty, or `garbled`, which the loader takes for an empty
store, or `undecodable`: cut within a character, where reading raises an error that is not caught
(`save_raises`; an operation whose first reading raises changes nothing and is left out).
While one process alone writes, the file holds the beginning of its text. Once pieces of two
texts have met, the model lets them read as any store at all, and notes it in
`tangled`. `known`, `told`, `disturbed` and `tangled` are history.
`record_history` has no caller and is left out, and with it the limit of 20 entries.

**FtpBridge.** `Begin` is `put` or `get` up to the await of the guest's command,
`Login`, `Store`, `Fetch` and `GuestFails` the guest and the FTP library, `Finish`
the rest of the call. A session keeps the directory the class attribute names when
it logs in (that is how pyftpdlib, which is not part of the repository, is used).
Content is told apart by the transfer it is right for.

**GuestTools.** A tool is a *plan*: its commands, which of them wait for which
others (one after the other, or a `gather`), which are made only sometimes (a
second program if the first was not found, the rest of a discovery if the agent
answered), and the rule its reply follows (`ReplyFrom`): whether `qm` succeeded, `_fmt` of
the first or of the last answer, always ok, or what a health or drift check
concludes. The catalogue has the 67 tools and `vmctl` commands that run something
in a guest, those with several modes once for each kind of plan. `Invoke` is a call,
`Perform` the answer to one of its commands with the stretch of code up to the next
await: what is put into the memory there (`Learned`, `Annotate`) and the reply.
`AnswersTo` are what may come of a command, from a refusal to a `qm` that gave
up waiting, `MayHaveActed` whether it did what its text says, given its answer. Of the
two kinds of reads of which tools look at the text alone (`OnlyTextCounts`), an answer without
output stands for itself as a failed one. The guest is `up`, the services and containers that run; `GuestChanges` happens from
elsewhere. A service may be named with or without ".service" (`FullNames`, `Stripped`): in
the guest both are the same `Unit`, a list has the short name, and the memory keeps what it
is given. Text is a set of words: names, `Detail` for the number and status docker prints
beside a name, `Envelope` for qm's own text. A health check asks whether a name occurs
anywhere in a text, so `Within` says which names occur in which words. A step marked `Shell` has a text written for a shell, with pipes,
redirections, `&&` or assignments, which `ProxmoxGuestExec.exec` splits into words: it does
not do what it is meant to. The memory is one record here, since there is no
await within an operation on it and one process; `VmMemory` has the file and several processes.

**HostTools.** Plans again, of steps that end the tool when they fail (`Must`) or do not
(`Try`), or of one command on a list of VMs. Commands that change nothing here are told
apart by what the policy says of them alone (`look`, `unlisted`, `unchecked`). The
`Effects` of the others are what qm makes of them: a VM's power state, what its first and
second interface are on, the script and output in its guest, and its one snapshot, which
is taken without the VM's memory. An upload or a run that is ok may have done nothing, since
ok is what qm says. `late` are commands the runner gave up whose work is still to come
(`Arrive`). `Unlisted` are the commands whose text is on no allowlist: the server has the
default list and no way to another (`service.py` 35), so `host write_snippet`, `zpool` and
others are always refused, and what a VM boots with is not modelled: no call of
`vm_bootstrap` gets as far as attaching it (through `vm_config_set` a caller attaches a file
somebody else has put there). `meddled` and `collected` are history.

**Watchdog.** The handler is one action for each stretch between two awaits: the
request line, a header line (`ReadHeader`, up to the next await, so with the
decision if there is no body), the body (which raises if it is no UTF-8), the notification, the flush. A
request is a sequence of items whose contents do not matter. `spinning` is a handler
that reads empty lines at the end of its input for ever, without an await that
waits: nothing else in the server runs from then on.

**Statistics.** `record`, and the percentiles and checks as operators of the
durations, which are kept in the order `sorted()` gives them (`AddDuration`). `int(n * 0.95)` is `(95 * n) \div 100` and a comparison of rates is one
of integers multiplied out: for the sizes used these agree with the floating-point code.

## 3. The runs

| Run | What it shows | Bounds, and why they are enough |
|---|---|---|
| `runner` | types; answer, retries and orphans as promised; every call ends; `HostCommand` is implemented, its fairness included | one call, since calls share nothing; three attempts, so there is a first, a middle and a last one (the code's default is two); exit codes 0, 1 and 124, the last one because it is also the made-up code; swallowing Python |
| `jobs` | status, events and result agree; a refused job is not shown as cancelled; cancellation is final and stops attempts; jobs settle | one job, since jobs share only the loop; three attempts; two cancellations, the second one while the first is pending; Python 3.12 and later |
| `gateway` | only permitted commands run; one audit line for an answered request; counters agree with the file; requests end | two concurrent requests through any of four entries, three kinds of command, one attempt each (retries are the runner's business), one crash; exit code 0, as failures come from refusal, from `execute` raising and from the deadline |
| `tx` | safety net, undone when rolled back, kept when committed | two transactions with equal or different names, which is what a rival needs; one copy of each command |
| `tx_retry` | the same net, with second copies; transactions end | one transaction, two copies, which is what the default of one retry gives |
| `memory` | taking turns loses nothing; nothing is invented | two processes, two VMs, two facts; three operations, so that one process can come back to what the other did, or meet it after a kill; one kill; texts of any number of pieces |
| `ftp` | a transfer alone is right; only namesakes mix | three transfers, so that one may come after two that overlapped; two names |
| `guest_tools` | types; drift and health reports; what the memory holds and who forgets | one call of any of the 67, next to one discovery, drift check or enabling of a service where it is one of these itself (the others share no state with them); two services, one of them with a full name too, one container, and a name that occurs in what docker says of a healthy one; one change in the guest and one edit of the memory, enough to come between any two steps |
| `guest_write` | a counterexample, see below | one `vm_write` |
| `host_tools` | types; the first interface of a sandbox stays off the LAN | one call of any of the 55, next to one of six that change a VM; two VMs, one of them absent at first, one perhaps with a second interface; a list of VMs that names one twice; two commands given up and still to come. 264 thousand states |
| `watchdog` | only whole triggers notify; whole requests proceed | two clients, so that one may spin while the other waits; six requests, with and without body, a body that is no UTF-8, a wrong length, garbage; two starts |
| `statistics` | the percentile is one; objectives follow requests | 21 requests, because the rank first skips a request at 20; durations far below, at and above the limit; an error rate of 20 and a timeout rate of 10 percent in place of the code's 5 and 2, so that among 21 requests one timeout does not settle the matter. 0 requests and 5000 ms are the code's defaults |

Deadlock checking is off: calls, jobs, requests, transactions, transfers, connections and
records are made a bounded number of times, so each model ends when all are over. Symmetry is
used where only safety is checked and the sets play interchangeable roles.

### Bounds in guards

`MaxCancels` (cancellations of a job), `MaxCrashes` (restarts, kills), `MaxCopies`
(copies of a command in `TransactionalExec`, which is `Retries + 1` of the
runner), `MaxOps` (operations on the memory), `MaxChanges` and `MaxEdits` (in the guest
and of the memory), `MaxLate` (commands given up), `MaxStarts` (of the listener), `MaxRequests` in
`Statistics`, and `Alone` (tools that are not called next to others). Among inputs, `Orders` are
the lists of VMs, and the VMs that callers create have a second interface on the LAN or none
(`NewMachines`). `Retries` is no
bound but the code's parameter.

### Fairness

- `RunnerFairness`: the event loop runs every ready handle and fires every due timer.
  It is weak fairness of the steps of one call together; the deadline (`TimeOut`) is
  always among them while a process is waited for. Nothing is assumed of
  processes: `EveryCallEnds` holds although they may hang for ever.
- `JobFairness` adds that scheduled done-callbacks run, `GatewayFairness` is the same
  for a request's coroutine, crashes aside.
- `TransactionalExec` assumes that the awaited call is settled, which is what
  `EveryCallEnds` says of it.
- `Watchdog` has weak fairness of the steps of each handler: the loop gets round to what
  can go on. Nothing makes a client send or close, and nothing makes the
  program that sends notifications end, as it is run without a deadline.
- `VmMemory`, `FtpBridge`, `GuestTools`, `HostTools` and `Statistics` are checked for
  safety only.

### What the code does not do

Some texts of the repository are properties the code violates. The run `guest_write` finds
one such; for the others there is a configuration too, each of one such property and of a
small instance that shows it (`tlc -config X.cfg M` prints the counterexample). They
are no runs of `PROJECT.json`, whose findings describe them:

| Text | Property, configuration | What the counterexample shows |
|---|---|---|
| `docs/tools.md` 93: `vm_write` writes or appends to a guest file | `WriteIsWritten`, `MCGuestToolsWrite.cfg` | the text has a redirection, runs without a shell, ends with 0 and writes nothing (`mcp_server.py` 1342) |
| `mcp_server.py` 95: `_fmt` reflects the guest-side status | `OkReflectsGuest`, `MCGuestToolsFmt.cfg` | a text without an exit code, as qm prints it when it gives up waiting, makes an ok reply (`mcp_server.py` 109) |
| `mcp_server.py` 2544: a drift check detects expected services that do not run | `DriftIsReal`, `MCGuestToolsDrift.cfg` | a service that runs, remembered with ".service", is missing (`mcp_server.py` 2578) |
| `power_tools.py` 29, `docs/tools.md` 154: rolled back if validation fails | `CommitsOnlyValidated`, `MCTransactionalExecValidation.cfg` | a validation that failed in the guest commits, for qm ran it (`power_tools.py` 43) |
| `README.md` 42: a persistent knowledge base | `Persistent`, `MCVmMemoryKill.cfg` | a kill between `open("w")` and the write loses all of it (`vm_memory.py` 77) |
| `docs/tools.md` 198: `vm_bootstrap` provisions and boots | `BootstrapIsTried`, `MCHostToolsBootstrap.cfg` | its first command is refused by the only list the server is built with (`mcp_server.py` 1403) |
| `docs/tools.md` 208: the clone is placed on an isolated network | `SandboxIsIsolated`, `MCHostToolsIsolation.cfg` | a clone whose isolation failed is started and reported all the same (`analysis_tools.py` 43) |
| the same line: it is airgapped | `SandboxIsAirgapped`, `MCHostToolsAirgap.cfg` | a second interface stays on the LAN (`analysis_tools.py` 42) |
| `workflows.py` 102: upload script, run it, collect output | `OutputIsOwn`, `MCHostToolsOutput.cfg` | an upload that failed in the guest is ok, and an earlier script's output is returned (`workflows.py` 115) |

The others were met while modelling; the models contain the first four as the code has them,
and the properties say what holds all the same:

- `check_guest_health` and `vmctl slo` compare qm's JSON text with "active", so no service
  is ever healthy for them (`slo.py` 59).
- `README.md` 100 has every action logged. A dropped request raises `CancelledError`, which
  the wrapper's `except Exception` does not catch: no line (`mcp_server.py` 187).
- `README.md` 98 has every command permitted by policy. `vm_remote_exec` and others call
  their runner directly (`mcp_server.py` 2659).
- `proxmox.py` 290 has `get` read a file from the guest. Two overlapping gets of files of
  one name may return each other's (`ftp_server.py` 30).
- `docs/tools.md` 155: `vm_expose_port` reports success whatever happened (`power_tools.py` 81).
  Its plan and verdict are modelled, the port is not.

## 4. The proofs

Everything below holds for every value of the constants that satisfies the named
assumptions of the modules (retries, copies and bounds are natural numbers, exit codes
are integers, commands are records of two Booleans, requests to the watchdog send nothing
after their headers but an announced body, a name occurs in itself, and service and container
names differ from each other and from the words that stand for other text).

- **CommandRunnerProofs.** `TypeOK`, `AnswerIsFromLastProcess`,
  `RetriedOnlyAfterFailure` and `OrphansExplained` are not inductive: that the
  answer is the last process's needs to know that no later attempt was made, that
  earlier ones failed, and that an attempt being waited for has not been judged.
  `CallInv` says this for one call (`AttemptsInOrder`, `CurrentAttempt`, `Orphans`,
  `Answered`), and `IInv` is `TypeOK` with `CallInv` of every call. A step of
  one call leaves the others' variables alone (`OthersUntouched`), so the induction
  is about the call that steps (`CallStep`, one case for each action).
  `RunnerImplementsContract`: initial states map to initial states of `HostCommand`, and
  every step maps to a step or a stutter. One lemma for each kind of step; the
  invariant supplies that an answer read from a process is the code of the copy
  launched last.
- **ServerProofs, jobs.** `CancelIsFinal` and `CancelStops`, both under
  `~SwallowsCancel`: with an earlier Python they are false. `JobInv` says what is
  under way: a job shown as cancelled has a cancellation pending or its task has
  ended by one. `IInv` of the runner is used as it is, a job's step being a runner's
  step or a stutter of it (`JobStepIsRunnerStep`). `JobEventsTell`, `JobResults`,
  `JobRefusals` and `JobTypes` hold on every Python and rest on `ShownInv`, which ties
  what a client is shown of a job to where its task is.
- **ServerProofs, gateway.** `GatewayOnlyPermitted` and `GatewayRetries`. `RequestInv`
  ties the policy's verdict, given when the request arrives, and the audit lines to
  the program counter of its call. The runner's invariant has to be carried through
  `Crash`, which is no step of the runner (`CrashKeepsIInv`). `GatewayAudit` and
  `GatewayTypesHold` rest on `LedgerInv`: a request whose command is under way has no
  line yet, and one that was answered has the line of its answer. `GatewayLedgersAgree`, which
  counts errors by ok and not by code, follows line by line: what a step writes joins the
  sorts of lines the counters stand for (`LineSorted`), and `LedgersMove` lists what a step
  can write and count.
- **ServerProofs, contract.** `JobsKeepContract` and `GatewayKeepsContract`: beneath a
  job and beneath a request, a call keeps the contract of `HostCommand` as well, since
  managers and wrappers take part in it through its own steps only. A crash is the one
  exception: it gives up all open calls in one step.
- **ServerProofs, statistics.** `PercentileTellsHolds` and `ObjectivesFollow`, for any
  durations and thresholds. The invariant is that the durations are sorted and as many as
  the requests. A new duration goes behind all that took no longer (`PutInSorted`), so it
  moves others by one place, as the rank moves by one at most (`RankMoves`); how many are
  within the limit is compared by an injection (`FastAddsQuick`, `SlowAddsNoQuick`).
- **TransactionalExecProofs.** `TxInv` has three parts. `PInv`: which copies a
  transaction can have left behind at which step. `OneHolder`: where every call launches
  one copy, at most one transaction per name made the snapshot and may still have it
  deleted, and the snapshot is there meanwhile; without it, a second transaction of the
  same second could delete the first one's net. `SnapInv`: what is in a snapshot and on
  the disk at each step. Of an effect that is kept it says that whoever may still roll back
  and is no rival rolls back to a snapshot that has it (`Kept`). It gives `TxSafetyNet`, `TxRolledBack`, `TxCommitted` and
  `TxTypes`, for any number of transactions, names and copies.
- **VmMemoryProofs.** `MemoryInventsNothing` (from `ToldInv`: until `tangled`,
  everything in the file, and in what a process has read, was told of that VM) and `MemoryTurns` (from
  `TurnInv`: as long as nothing was disturbed, at most one process is at work, what it
  read is what the file held, and what it has written is the beginning of its own text).
- **FtpBridgeProofs.** `TransfersKeepNames` (from `NamedInv`: content lies in a file, or
  with a transfer, of the name it is filed under) and `TransfersAlone` (from
  `AloneInv`: a transfer no other overlapped owns the authorizer for as long as it is served).
- **GuestToolsProofs.** A reply or a note in the memory is about what a command did some
  time ago, so the invariant `GuestInv` ties each answer to the history: `Tells` says, for
  each kind of step, what its answer proves to have been done, seen or accepted. Around it
  stand what calls that were not made look like (`Uncalled`), that a start names a service
  (`Targeted`), that a reply follows its plan's rule from the answers the call still holds
  (`ReplyIsOfAnswers`), that a drift check's list is all it has seen of services
  (`DriftSees`), and that what runs or was seen is a ground for the memory
  (`RunsAreGrounds`). It gives the type invariant and
  `HealthMeansSeenHolds`, `DriftTellsTruthHolds`, `MemoryIsGroundedHolds` and
  `OnlyClearForgetsHolds`, for any sets of calls, services (by both kinds of name) and
  containers, any way names occur in other words and any bounds, over the catalogue as it is;
  what the proofs need of its plans is shown family by family.
- **HostToolsProofs.** `HInv` says how far a sandbox has come after each of its steps
  (`ForkKnows`), as long as no other call meddled. That knowledge has to survive the commands
  given up: each of them still is a command of its call (`LateOfSteps`), so that its arrival is
  either meddling for the others or does again what its own step did. Steps are answered in order
  (`InOrder`). It gives `HostToolsTypes` and `SandboxStaysOffHolds`, for any calls, VMs, lists
  and commands given up.
- **WatchdogProofs.** `OnlyWholeTriggers`. `WInv` says, for each await of a handler, what it
  has read: the items so far, whether they announced a body, and that the rest is still
  to come.

Every invariant and every action property of the passing runs is proved. The type
invariants of `CommandRunner`, `GuestTools` and `HostTools` are run and proved, those of the other
modules are proved and not run.

Trying to prove the properties of `GuestTools` showed the model wrong once: an operator
precedence in the set of possible answers kept the reads of container and host names from
ever succeeding with output, so that what discoveries learn of containers was checked on
failures alone. `AnswersTo` is the corrected set, and the properties hold with it.
`LedgersAgree` used to count lines by their code alone, which is right only as long as no
process can end with 403; it looks at their kind as well now.

Only model-checked: the liveness properties (`EveryCallEnds`, `JobsSettle`,
`RequestsEnd`, `TransactionsEnd`, `WholeRequestsProceed`) and the fairness in
`ImplementsHostCommand`, which are out of the prover's reach; and the counterexamples.

## 5. What is not modelled, and why

- Redaction, encryption, cloud-init, profiles: text transformations without state.
- `lua_engine.py`: hands a script to an interpreter; what runs is the script's.
- `xen.py`: four commands of which `vmctl state` alone uses any; their effects are Proxmox's.
- `replay.py`: one loop that reads the audit file.
- Of `vmctl`: parsing and printing, and the commands `file`, `metrics`, `workflow` and
  `memory clear`, the last of which fails at once.
- Of the server: dashboards and prompts, which only read; the index of artifacts
  of the workflows, which only grows; `record_history`, which nobody calls.
- The user data a VM boots with: the command that puts it on the host is always refused, and
  a `cicustom` set through `vm_config_set` names a file of somebody else's.
- What a fan-out reports: a result per VM, the last one of a VM named twice (`federation.py` 58).
- The wording of commands and replies, durations other than those the objectives are
  made of, and the contents of output no tool reads.

## 6. The plan

The order is that of the harm a fault would do: what starts processes, what decides
and records, what changes VMs and stores, then what is built on top. Done are the core
(`CommandRunner` with `HostCommand`, `JobManager`, `ToolGateway`, `TransactionalExec`,
`VmMemory`, `FtpBridge`), the tools (`GuestTools`, `HostTools`), the listener
(`Watchdog`) and the arithmetic (`Statistics`), with proofs of all their safety properties.

Left: an abstract specification of the memory (a set of facts per VM that each operation
changes at once) and a proof that the file implements it as long as operations take turns;
the host commands of `TransactionalExec` as instances of `HostCommand`, so that what it
assumes of them is a theorem about the runner rather than a comment.
