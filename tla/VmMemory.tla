-------------------------------- MODULE VmMemory -------------------------------
(***************************************************************************)
(* The VM memory (vm_memory.py): one JSON file with a record for every VM,  *)
(* which each operation reads whole, changes in memory and writes whole,    *)
(* without a lock and without a temporary file.  In one process operations  *)
(* never overlap, for they do not await; but the MCP server and every vmctl *)
(* command are processes of their own on the same file, and a process may   *)
(* be killed anywhere.  A text reaches the file through a buffer: whenever  *)
(* the buffer is full, and at the end, a piece is written at the place      *)
(* where the process's own last one ended.                                  *)
(***************************************************************************)
EXTENDS Naturals

CONSTANTS
  Procs,     \* processes that use the file
  Vms,       \* vmids
  Facts,     \* what one annotate_vm or annotate_vm_secret call adds to a record
  MaxOps,    \* bound: operations begun
  MaxCrashes \* bound: processes killed in the middle of an operation

ASSUME MaxOpsAssumption == MaxOps \in Nat
ASSUME MaxCrashesAssumption == MaxCrashes \in Nat

VARIABLES
  file,      \* what the file holds
  pc,        \* pc[p]: the file access process p is about to make
  op,        \* op[p]: the operation it carries out
  mine,      \* mine[p]: the record load_vm_memory gave it, changed
  data,      \* data[p]: the store it is about to write
  known,     \* the facts of operations that returned, less those of a VM whose
             \* clearing has begun
  told,      \* the facts any operation was ever given, with their VM
  disturbed, \* two operations have overlapped, or one was cut short
  tangled,   \* a text that is written in pieces has met another process's text
  ops,       \* operations begun
  crashes    \* processes killed

locals == <<pc, op, mine, data>>
history == <<known, told, disturbed, tangled, ops, crashes>>
vars == <<file, locals, history>>

\* A store maps each VM it has a record of to that record, the set of its facts.
Stores == UNION {[vs -> SUBSET Facts] : vs \in SUBSET Vms}
EmptyStore == [v \in {} |-> {}]

\* The file is a store in JSON; or emptied and not written yet; or the beginning of
\* the text of the one process that writes it; or some other mixture of texts that
\* is no JSON, or is cut within a character and not even text.
Json(s) == [state |-> "json", store |-> s]
Emptied == [state |-> "emptied"]
NotJson == {"garbled", "undecodable"}
Broken == [state : NotJson]
Beginning(p) == [state : NotJson, of : {p}]

Files == {Json(s) : s \in Stores} \cup {Emptied} \cup Broken \cup UNION {Beginning(p) : p \in Procs}

\* _load_all: a file that is no JSON cannot be told from a store without records;
\* one that is not text raises an error nobody catches.
LoadAll(f) == IF f.state = "json" THEN f.store ELSE EmptyStore
Readable(f) == f.state # "undecodable"

\* load_vm_memory
Load(f, v) == IF v \in DOMAIN LoadAll(f) THEN LoadAll(f)[v] ELSE {}

With(s, v, rec) == [w \in DOMAIN s \cup {v} |-> IF w = v THEN rec ELSE s[w]]
Without(s, v) == [w \in DOMAIN s \ {v} |-> s[w]]

\* open is to empty the file, dump to write the text, rest to write what is left of it.
Places == {"idle", "reload", "open", "dump", "rest", "dead"}

Operations == [kind : {"annotate"}, vm : Vms, fact : Facts] \cup [kind : {"clear"}, vm : Vms]
NoOp == [kind |-> "none"]

TypeOK ==
  /\ file \in Files
  /\ pc \in [Procs -> Places]
  /\ op \in [Procs -> Operations \cup {NoOp}]
  /\ mine \in [Procs -> SUBSET Facts]
  /\ data \in [Procs -> Stores]
  /\ known \in Stores
  /\ told \in SUBSET (Vms \X Facts)
  /\ disturbed \in BOOLEAN
  /\ tangled \in BOOLEAN
  /\ ops \in 0..MaxOps
  /\ crashes \in 0..MaxCrashes

Init ==
  /\ file = Json(EmptyStore)
  /\ pc = [p \in Procs |-> "idle"]
  /\ op = [p \in Procs |-> NoOp]
  /\ mine = [p \in Procs |-> {}]
  /\ data = [p \in Procs |-> EmptyStore]
  /\ known = EmptyStore
  /\ told = {}
  /\ disturbed = FALSE
  /\ tangled = FALSE
  /\ ops = 0
  /\ crashes = 0

--------------------------------------------------------------------------------
Busy(p) == pc[p] \in {"reload", "open", "dump", "rest"}

\* Bookkeeping at the start of an operation, whose first access is to read the file.
\* If that raises, the operation has changed nothing.
Begin(p, o) ==
  /\ pc[p] = "idle"
  /\ Readable(file)
  /\ ops < MaxOps
  /\ ops' = ops + 1
  /\ op' = [op EXCEPT ![p] = o]
  /\ disturbed' = (disturbed \/ \E q \in Procs : Busy(q))
  /\ UNCHANGED <<tangled, crashes>>

\* annotate_vm, annotate_vm_secret: read the record and merge the fact into it.
annotate_vm(p, v, f) ==
  /\ Begin(p, [kind |-> "annotate", vm |-> v, fact |-> f])
  /\ told' = told \cup {<<v, f>>}
  /\ mine' = [mine EXCEPT ![p] = Load(file, v) \cup {f}]
  /\ pc' = [pc EXCEPT ![p] = "reload"]
  /\ UNCHANGED <<file, data, known>>

\* Mutation: the record is saved into an empty store.
SavesOnlyRecord(p) ==
  /\ pc[p] = "reload"
  /\ data' = [data EXCEPT ![p] = With(EmptyStore, op[p].vm, mine[p])]
  /\ pc' = [pc EXCEPT ![p] = "open"]
  /\ UNCHANGED <<file, op, mine, history>>

\* Mutation: a VM without a record is given the record of some other VM.
SavesUnderAnyVm(p) ==
  /\ pc[p] = "reload"
  /\ \E v \in Vms : data' = [data EXCEPT ![p] = With(LoadAll(file), v, mine[p])]
  /\ pc' = [pc EXCEPT ![p] = "open"]
  /\ UNCHANGED <<file, op, mine, history>>

\* save_vm_memory: read the whole store again and put the record into it.
save_vm_memory(p) ==
  /\ pc[p] = "reload"
  /\ Readable(file)
  /\ data' = [data EXCEPT ![p] = With(LoadAll(file), op[p].vm, mine[p])]
  /\ pc' = [pc EXCEPT ![p] = "open"]
  /\ UNCHANGED <<file, op, mine, history>>

\* Process p is done with its operation, or has been started again.
Idle(p) ==
  /\ pc' = [pc EXCEPT ![p] = "idle"]
  /\ op' = [op EXCEPT ![p] = NoOp]
  /\ mine' = [mine EXCEPT ![p] = {}]
  /\ data' = [data EXCEPT ![p] = EmptyStore]

\* The second reading raises: the operation ends with an error, and nothing is saved.
save_raises(p) ==
  /\ pc[p] = "reload"
  /\ ~Readable(file)
  /\ Idle(p)
  /\ UNCHANGED <<file, history>>

\* clear_vm_memory, for a VM with a record: read the store, take the record out.
clear_vm_memory(p, v) ==
  /\ v \in DOMAIN LoadAll(file)
  /\ Begin(p, [kind |-> "clear", vm |-> v])
  /\ data' = [data EXCEPT ![p] = Without(LoadAll(file), v)]
  /\ pc' = [pc EXCEPT ![p] = "open"]
  /\ known' = Without(known, v)
  /\ UNCHANGED <<file, mine, told>>

\* _save_all, open(..., "w"): the file is emptied at once.
Truncate(p) ==
  /\ pc[p] = "open"
  /\ file' = Emptied
  /\ pc' = [pc EXCEPT ![p] = "dump"]
  /\ UNCHANGED <<op, mine, data, history>>

\* The known facts, once the operation of process p has returned
Recorded(p) ==
  LET v == op[p].vm
  IN  With(known, v, (IF v \in DOMAIN known THEN known[v] ELSE {}) \cup {op[p].fact})

\* What the file holds is the beginning of p's text and nothing else, if p has written
\* any of it.
Alone(p) ==
  \/ pc[p] = "dump" /\ file = Emptied
  \/ pc[p] = "rest" /\ file \in Beginning(p)

\* What pieces of several texts may read as: at worst a store that none of them is, whose
\* facts are put together from halves or stand under another VM's name.
Mixtures == {Json(s) : s \in Stores} \cup Broken

\* _save_all, json.dump: the buffer is full, and a piece of the text, though not all of it,
\* goes to the file.
Flush(p) ==
  /\ pc[p] \in {"dump", "rest"}
  /\ file' \in IF Alone(p) THEN Beginning(p) ELSE Mixtures
  /\ tangled' = (tangled \/ ~Alone(p))
  /\ pc' = [pc EXCEPT ![p] = "rest"]
  /\ UNCHANGED <<op, mine, data, known, told, disturbed, ops, crashes>>

\* _save_all, close: what is left of the text goes to the file, all of it if it was never
\* longer than the buffer.  Then, over a text another process wrote in the meantime, it
\* leaves that text's tail behind, if the other one is longer.  The operation returns.
Close(p) ==
  /\ pc[p] \in {"dump", "rest"}
  /\ file' \in CASE Alone(p) -> {Json(data[p])}
                [] ~Alone(p) /\ pc[p] = "dump" -> {Json(data[p])} \cup Broken
                [] ~Alone(p) /\ pc[p] = "rest" -> Mixtures
  /\ tangled' = (tangled \/ (~Alone(p) /\ pc[p] = "rest"))
  /\ known' = IF op[p].kind = "clear" THEN known ELSE Recorded(p)
  /\ Idle(p)
  /\ UNCHANGED <<told, disturbed, ops, crashes>>

\* The process is killed, before or after it has emptied the file, or between two pieces
\* of its text.
Crash(p) ==
  /\ Busy(p)
  /\ crashes < MaxCrashes
  /\ crashes' = crashes + 1
  /\ pc' = [pc EXCEPT ![p] = "dead"]
  /\ disturbed' = TRUE
  /\ UNCHANGED <<file, op, mine, data, known, told, tangled, ops>>

\* It is started again.
Restart(p) ==
  /\ pc[p] = "dead"
  /\ Idle(p)
  /\ UNCHANGED <<file, history>>

Next ==
  \E p \in Procs :
    \/ \E v \in Vms, f \in Facts : annotate_vm(p, v, f)
    \/ \E v \in Vms : clear_vm_memory(p, v)
    \/ save_vm_memory(p)
    \/ save_raises(p)
    \/ Truncate(p)
    \/ Flush(p)
    \/ Close(p)
    \/ Crash(p)
    \/ Restart(p)

Spec == Init /\ [][Next]_vars

--------------------------------------------------------------------------------
Quiet == \A p \in Procs : ~Busy(p)

\* Processes that take turns lose nothing: as long as no two operations overlapped
\* and none was cut short, the file holds between operations exactly what the
\* operations that returned have told it, for every VM and however long the store
\* (vm_memory.py 75-78 and 95-101: the store is read a second time, so one VM's
\* record never overwrites another's).
TurnsLoseNothing == Quiet /\ ~disturbed => file = Json(known)

\* However operations overlap and whenever processes die, a fact is only ever
\* found in the record of a VM it was told of: what concurrent use does to the
\* memory is loss, never invention, until a text longer than the buffer has met
\* another one in the file (vm_memory.py 66-101).
NothingInvented ==
  ~tangled => \A v \in Vms : \A f \in Load(file, v) : <<v, f>> \in told

\* "A unified, persistent JSON knowledge base" (README.md:42): between operations the
\* file holds at least what the operations that returned have told it
\* (vm_memory.py 75-78).
Persistent == Quiet => \A v \in DOMAIN known : known[v] \subseteq Load(file, v)
================================================================================
