----------------------------- MODULE VmMemoryProofs ----------------------------
(***************************************************************************)
(* What the memory file holds, for any number of processes, operations and  *)
(* crashes.  Both invariants follow a store from the moment an operation     *)
(* reads it to the moment the operation writes it back.                      *)
(***************************************************************************)
EXTENDS VmMemory, TLAPS

AnnotateOps == [kind : {"annotate"}, vm : Vms, fact : Facts]
ClearOps == [kind : {"clear"}, vm : Vms]

\* What an operation under way is, by where it is.
OpTyped(p) ==
  /\ pc[p] = "reload" => op[p] \in AnnotateOps
  /\ pc[p] \in {"open", "dump", "rest"} => op[p] \in AnnotateOps \cup ClearOps

MTypes == TypeOK /\ \A p \in Procs : OpTyped(p)

--------------------------------------------------------------------------------
LEMMA EmptyStoreIsStore == EmptyStore \in Stores
<1>1. EmptyStore \in [{} -> SUBSET Facts]
  BY DEF EmptyStore
<1> QED
  BY <1>1 DEF Stores

LEMMA StoreFacts ==
  ASSUME NEW s \in Stores
  PROVE  DOMAIN s \in SUBSET Vms /\ s \in [DOMAIN s -> SUBSET Facts]
<1>1. PICK vs \in SUBSET Vms : s \in [vs -> SUBSET Facts]
  BY DEF Stores
<1> QED
  BY <1>1

LEMMA StoreIntro ==
  ASSUME NEW vs \in SUBSET Vms, NEW s \in [vs -> SUBSET Facts]
  PROVE  s \in Stores
BY DEF Stores

\* save_vm_memory's store and clear_vm_memory's are stores (vm_memory.py 99-101, 110-113).
LEMMA WithIsStore ==
  ASSUME NEW s \in Stores, NEW v \in Vms, NEW rec \in SUBSET Facts
  PROVE  With(s, v, rec) \in Stores
<1>1. DOMAIN s \cup {v} \in SUBSET Vms /\ \A w \in DOMAIN s : s[w] \in SUBSET Facts
  BY StoreFacts
<1>2. With(s, v, rec) \in [DOMAIN s \cup {v} -> SUBSET Facts]
  BY <1>1 DEF With
<1> QED
  BY <1>1, <1>2, StoreIntro

LEMMA WithoutIsStore ==
  ASSUME NEW s \in Stores, NEW v \in Vms
  PROVE  Without(s, v) \in Stores
<1>1. DOMAIN s \ {v} \in SUBSET Vms /\ \A w \in DOMAIN s : s[w] \in SUBSET Facts
  BY StoreFacts
<1>2. Without(s, v) \in [DOMAIN s \ {v} -> SUBSET Facts]
  BY <1>1 DEF Without
<1> QED
  BY <1>1, <1>2, StoreIntro

\* A text that is no JSON reads as a store without records (vm_memory.py 71-72).
LEMMA NotJsonIsEmpty ==
  /\ \A f \in Broken : LoadAll(f) = EmptyStore
  /\ \A p \in Procs : \A f \in Beginning(p) : LoadAll(f) = EmptyStore
BY DEF Broken, Beginning, NotJson, LoadAll

\* What is read from the file is a store, whatever state the file is in
\* (vm_memory.py 57-71).
LEMMA FileStore ==
  ASSUME NEW f \in Files
  PROVE  LoadAll(f) \in Stores
<1>1. CASE \E s \in Stores : f = Json(s)
  BY <1>1 DEF Json, LoadAll
<1>2. CASE f = Emptied
  BY <1>2, EmptyStoreIsStore DEF Emptied, LoadAll
<1>3. CASE f \in Broken
  BY <1>3, NotJsonIsEmpty, EmptyStoreIsStore
<1>4. CASE \E p \in Procs : f \in Beginning(p)
  BY <1>4, NotJsonIsEmpty, EmptyStoreIsStore
<1> QED
  BY <1>1, <1>2, <1>3, <1>4 DEF Files

\* Every outcome of a write is a state of the file.
LEMMA FilesWritten ==
  /\ Emptied \in Files
  /\ Broken \subseteq Files
  /\ Mixtures \subseteq Files
  /\ \A p \in Procs : Beginning(p) \subseteq Files
BY DEF Files, Mixtures

LEMMA JsonIsFile ==
  ASSUME NEW s \in Stores
  PROVE  Json(s) \in Files /\ LoadAll(Json(s)) = s
BY DEF Files, Json, LoadAll

LEMMA LoadIsRecord ==
  ASSUME NEW f \in Files, NEW v \in Vms
  PROVE  Load(f, v) \in SUBSET Facts
<1>1. \A w \in DOMAIN LoadAll(f) : LoadAll(f)[w] \in SUBSET Facts
  BY FileStore, StoreFacts
<1> QED
  BY <1>1 DEF Load

LEMMA TypesInit == Init => MTypes
<1> SUFFICES ASSUME Init PROVE MTypes
  OBVIOUS
<1>1. file \in Files /\ known \in Stores /\ data \in [Procs -> Stores]
  BY EmptyStoreIsStore, JsonIsFile DEF Init
<1>2. ops \in 0..MaxOps /\ crashes \in 0..MaxCrashes
  BY MaxOpsAssumption, MaxCrashesAssumption DEF Init
<1>3. TypeOK
  BY <1>1, <1>2 DEF Init, TypeOK, Places
<1>4. \A p \in Procs : OpTyped(p)
  BY DEF Init, OpTyped
<1> QED
  BY <1>3, <1>4 DEF MTypes

\* An operation begins: the bookkeeping keeps its types.
LEMMA BeginTypes ==
  ASSUME TypeOK, NEW p \in Procs, NEW o \in Operations, Begin(p, o)
  PROVE  /\ ops' \in 0..MaxOps /\ crashes' \in 0..MaxCrashes
         /\ op' \in [Procs -> Operations \cup {NoOp}] /\ disturbed' \in BOOLEAN
         /\ tangled' \in BOOLEAN
<1>1. ops \in 0..MaxOps /\ ops' = ops + 1 /\ ops < MaxOps
  BY DEF TypeOK, Begin
<1>2. ops' \in 0..MaxOps
  BY <1>1, MaxOpsAssumption
<1>3. op \in [Procs -> Operations \cup {NoOp}] /\ op' = [op EXCEPT ![p] = o]
  BY DEF TypeOK, Begin
<1>4. op' \in [Procs -> Operations \cup {NoOp}]
  BY <1>3
<1>5. disturbed' \in BOOLEAN /\ tangled' \in BOOLEAN
  BY DEF TypeOK, Begin
<1> QED
  BY <1>2, <1>4, <1>5 DEF TypeOK, Begin

\* A process that is done, or started again, has nothing in hand.
LEMMA IdleTypes ==
  ASSUME TypeOK, NEW p \in Procs, Idle(p)
  PROVE  /\ pc' \in [Procs -> Places]
         /\ op' \in [Procs -> Operations \cup {NoOp}]
         /\ mine' \in [Procs -> SUBSET Facts]
         /\ data' \in [Procs -> Stores]
BY EmptyStoreIsStore DEF TypeOK, Idle, Places

\* What an operation that returns adds to the known facts makes a store.
LEMMA RecordedIsStore ==
  ASSUME known \in Stores, NEW p \in Procs, op[p] \in AnnotateOps
  PROVE  Recorded(p) \in Stores
<1>1. op[p].vm \in Vms /\ op[p].fact \in Facts
  BY DEF AnnotateOps
<1>2. \A w \in DOMAIN known : known[w] \in SUBSET Facts
  BY StoreFacts
<1> DEFINE rec == (IF op[p].vm \in DOMAIN known THEN known[op[p].vm] ELSE {}) \cup {op[p].fact}
<1>3. rec \in SUBSET Facts
  BY <1>1, <1>2
<1>4. Recorded(p) = With(known, op[p].vm, rec)
  BY DEF Recorded
<1> HIDE DEF rec
<1> QED
  BY <1>1, <1>3, <1>4, WithIsStore

\* Every step keeps the types.
LEMMA TypesStep ==
  ASSUME MTypes, [Next]_vars
  PROVE  MTypes'
<1>0. TypeOK /\ \A p \in Procs : OpTyped(p)
  BY DEF MTypes
<1>t. /\ file \in Files /\ known \in Stores /\ told \in SUBSET (Vms \X Facts)
      /\ pc \in [Procs -> Places]
      /\ op \in [Procs -> Operations \cup {NoOp}]
      /\ mine \in [Procs -> SUBSET Facts]
      /\ data \in [Procs -> Stores]
  BY <1>0 DEF TypeOK
<1>1. CASE UNCHANGED vars
  BY <1>0, <1>1 DEF vars, locals, history, MTypes, TypeOK, OpTyped
<1>2. ASSUME NEW p \in Procs, NEW v \in Vms, NEW f \in Facts, annotate_vm(p, v, f)
      PROVE  MTypes'
  <2> DEFINE o == [kind |-> "annotate", vm |-> v, fact |-> f]
  <2>1. o \in Operations /\ o \in AnnotateOps /\ Begin(p, o)
    BY <1>2 DEF annotate_vm, Operations, AnnotateOps
  <2>2. /\ ops' \in 0..MaxOps /\ crashes' \in 0..MaxCrashes
        /\ op' \in [Procs -> Operations \cup {NoOp}] /\ disturbed' \in BOOLEAN
        /\ tangled' \in BOOLEAN
    BY <2>1, <1>0, BeginTypes
  <2>3. mine' \in [Procs -> SUBSET Facts]
    <3>1. Load(file, v) \cup {f} \in SUBSET Facts
      BY <1>t, LoadIsRecord
    <3> QED
      BY <3>1, <1>2, <1>t DEF annotate_vm
  <2>4. pc' \in [Procs -> Places]
    BY <1>2, <1>t DEF annotate_vm, Places
  <2>5. told' \in SUBSET (Vms \X Facts)
    BY <1>2, <1>t DEF annotate_vm
  <2>6. TypeOK'
    BY <1>2, <1>t, <2>2, <2>3, <2>4, <2>5 DEF annotate_vm, TypeOK
  <2>7. op' = [op EXCEPT ![p] = o] /\ pc' = [pc EXCEPT ![p] = "reload"]
    BY <1>2, <2>1 DEF annotate_vm, Begin
  <2>8. ASSUME NEW q \in Procs PROVE OpTyped(q)'
    BY <1>0, <1>t, <2>1, <2>7 DEF OpTyped
  <2> QED
    BY <2>6, <2>8 DEF MTypes
<1>3. ASSUME NEW p \in Procs, NEW v \in Vms, clear_vm_memory(p, v)
      PROVE  MTypes'
  <2> DEFINE o == [kind |-> "clear", vm |-> v]
  <2>1. o \in Operations /\ o \in ClearOps /\ Begin(p, o)
    BY <1>3 DEF clear_vm_memory, Operations, ClearOps
  <2>2. /\ ops' \in 0..MaxOps /\ crashes' \in 0..MaxCrashes
        /\ op' \in [Procs -> Operations \cup {NoOp}] /\ disturbed' \in BOOLEAN
        /\ tangled' \in BOOLEAN
    BY <2>1, <1>0, BeginTypes
  <2>3. data' \in [Procs -> Stores]
    <3>1. Without(LoadAll(file), v) \in Stores
      BY <1>t, FileStore, WithoutIsStore
    <3> QED
      BY <3>1, <1>3, <1>t DEF clear_vm_memory
  <2>4. pc' \in [Procs -> Places]
    BY <1>3, <1>t DEF clear_vm_memory, Places
  <2>5. known' \in Stores
    BY <1>3, <1>t, WithoutIsStore DEF clear_vm_memory
  <2>6. TypeOK'
    BY <1>3, <1>t, <2>2, <2>3, <2>4, <2>5 DEF clear_vm_memory, TypeOK
  <2>7. op' = [op EXCEPT ![p] = o] /\ pc' = [pc EXCEPT ![p] = "open"]
    BY <1>3, <2>1 DEF clear_vm_memory, Begin
  <2>8. ASSUME NEW q \in Procs PROVE OpTyped(q)'
    BY <1>0, <1>t, <2>1, <2>7 DEF OpTyped
  <2> QED
    BY <2>6, <2>8 DEF MTypes
<1>4. ASSUME NEW p \in Procs, save_vm_memory(p) PROVE MTypes'
  <2>1. op[p] \in AnnotateOps
    BY <1>0, <1>4 DEF OpTyped, save_vm_memory
  <2>2. op[p].vm \in Vms
    BY <2>1 DEF AnnotateOps
  <2>3. With(LoadAll(file), op[p].vm, mine[p]) \in Stores
    BY <1>t, <2>2, FileStore, WithIsStore
  <2>4. data' \in [Procs -> Stores]
    BY <1>4, <1>t, <2>3 DEF save_vm_memory
  <2>5. pc' \in [Procs -> Places]
    BY <1>4, <1>t DEF save_vm_memory, Places
  <2>6. TypeOK'
    BY <1>0, <1>4, <2>4, <2>5 DEF save_vm_memory, TypeOK, history
  <2>7. ASSUME NEW q \in Procs PROVE OpTyped(q)'
    BY <1>0, <1>4, <1>t, <2>1 DEF OpTyped, save_vm_memory
  <2> QED
    BY <2>6, <2>7 DEF MTypes
<1>5. ASSUME NEW p \in Procs, Truncate(p) PROVE MTypes'
  <2>1. pc' \in [Procs -> Places]
    BY <1>5, <1>t DEF Truncate, Places
  <2>2. TypeOK'
    BY <1>0, <1>5, <2>1, FilesWritten DEF Truncate, TypeOK, history
  <2>3. ASSUME NEW q \in Procs PROVE OpTyped(q)'
    BY <1>0, <1>5, <1>t DEF OpTyped, Truncate
  <2> QED
    BY <2>2, <2>3 DEF MTypes
<1>6. ASSUME NEW p \in Procs, Flush(p) PROVE MTypes'
  <2>1. file' \in Files
    BY <1>6, FilesWritten DEF Flush
  <2>2. pc' \in [Procs -> Places]
    BY <1>6, <1>t DEF Flush, Places
  <2>3. tangled' \in BOOLEAN
    BY <1>0, <1>6 DEF Flush, TypeOK
  <2>4. TypeOK'
    BY <1>0, <1>6, <2>1, <2>2, <2>3 DEF Flush, TypeOK
  <2>5. ASSUME NEW q \in Procs PROVE OpTyped(q)'
    BY <1>0, <1>6, <1>t DEF OpTyped, Flush
  <2> QED
    BY <2>4, <2>5 DEF MTypes
<1>7. ASSUME NEW p \in Procs, Crash(p) PROVE MTypes'
  <2>1. pc' \in [Procs -> Places]
    BY <1>7, <1>t DEF Crash, Places
  <2>2. crashes' \in 0..MaxCrashes
    BY <1>0, <1>7, MaxCrashesAssumption DEF Crash, TypeOK
  <2>3. TypeOK'
    BY <1>0, <1>7, <2>1, <2>2 DEF Crash, TypeOK
  <2>4. ASSUME NEW q \in Procs PROVE OpTyped(q)'
    BY <1>0, <1>7, <1>t DEF OpTyped, Crash
  <2> QED
    BY <2>3, <2>4 DEF MTypes
<1>i. ASSUME NEW p \in Procs, Idle(p), NEW q \in Procs PROVE OpTyped(q)'
  BY <1>0, <1>i, <1>t DEF OpTyped, Idle
<1>8. ASSUME NEW p \in Procs, Restart(p) PROVE MTypes'
  <2>1. TypeOK'
    BY <1>0, <1>8, IdleTypes DEF Restart, TypeOK, history
  <2> QED
    BY <1>8, <1>i, <2>1 DEF MTypes, Restart
<1>9. ASSUME NEW p \in Procs, Close(p) PROVE MTypes'
  <2>1. op[p] \in AnnotateOps \cup ClearOps
    BY <1>0, <1>9 DEF OpTyped, Close
  <2>2. file' \in Files
    BY <1>9, <1>t, JsonIsFile, FilesWritten DEF Close
  <2>3. known' \in Stores
    BY <1>9, <1>t, <2>1, RecordedIsStore DEF Close, ClearOps
  <2>4. tangled' \in BOOLEAN
    BY <1>0, <1>9 DEF Close, TypeOK
  <2>5. TypeOK'
    BY <1>0, <1>9, <2>2, <2>3, <2>4, IdleTypes DEF Close, TypeOK
  <2> QED
    BY <1>9, <1>i, <2>5 DEF MTypes, Close
<1>10. ASSUME NEW p \in Procs, save_raises(p) PROVE MTypes'
  <2>1. TypeOK'
    BY <1>0, <1>10, IdleTypes DEF save_raises, TypeOK, history
  <2> QED
    BY <1>10, <1>i, <2>1 DEF MTypes, save_raises
<1> QED
  BY <1>1, <1>2, <1>3, <1>4, <1>5, <1>6, <1>7, <1>8, <1>9, <1>10 DEF Next

\* The memory's variables keep their types, for any processes, VMs and facts.
THEOREM MemoryTypes == Spec => []TypeOK
<1>1. MTypes => TypeOK
  BY DEF MTypes
<1> QED
  BY <1>1, TypesInit, TypesStep, PTL DEF Spec

--------------------------------------------------------------------------------
\* A store that holds nothing but facts told of the VM they are filed under
OnlyTold(s) == \A v \in DOMAIN s : \A f \in s[v] : <<v, f>> \in told

\* So does the file, and what each process is about to write, until texts are tangled.
ProcTold(p) ==
  /\ pc[p] = "reload" => \A f \in mine[p] : <<op[p].vm, f>> \in told
  /\ pc[p] \in {"open", "dump", "rest"} => OnlyTold(data[p])

AllTold == OnlyTold(LoadAll(file)) /\ \A p \in Procs : ProcTold(p)

ToldInv == ~tangled => AllTold

LEMMA ToldOnlyGrows ==
  ASSUME [Next]_vars
  PROVE  told \subseteq told' /\ (tangled => tangled')
<1>1. ASSUME NEW p \in Procs, NEW v \in Vms,
             (\E f \in Facts : annotate_vm(p, v, f)) \/ clear_vm_memory(p, v)
      PROVE  told \subseteq told' /\ tangled' = tangled
  BY <1>1 DEF annotate_vm, clear_vm_memory, Begin
<1>2. ASSUME NEW p \in Procs,
             save_vm_memory(p) \/ save_raises(p) \/ Truncate(p) \/ Crash(p) \/ Restart(p)
      PROVE  told' = told /\ (tangled => tangled')
  <2>1. CASE UNCHANGED history
    BY <2>1 DEF history
  <2>2. CASE Crash(p)
    BY <2>2, Zenon DEF Crash
  <2> QED
    BY <1>2, <2>1, <2>2, Zenon DEF save_vm_memory, save_raises, Truncate, Restart
<1>4. ASSUME NEW p \in Procs, Flush(p) \/ Close(p)
      PROVE  told' = told /\ (tangled => tangled')
  <2>1. told' = told
    BY <1>4, Zenon DEF Flush, Close
  <2>2. tangled => tangled'
    BY <1>4, Zenon DEF Flush, Close
  <2> QED
    BY <2>1, <2>2
<1>3. CASE UNCHANGED vars
  BY <1>3 DEF vars, history
<1> QED
  BY <1>1, <1>2, <1>3, <1>4 DEF Next

LEMMA WithOnlyTold ==
  ASSUME NEW s, OnlyTold(s), NEW v, NEW rec, \A f \in rec : <<v, f>> \in told
  PROVE  OnlyTold(With(s, v, rec))
BY DEF OnlyTold, With

LEMMA WithoutOnlyTold ==
  ASSUME NEW s, OnlyTold(s), NEW v
  PROVE  OnlyTold(Without(s, v))
BY DEF OnlyTold, Without

LEMMA EmptyOnlyTold == OnlyTold(EmptyStore)
BY DEF OnlyTold, EmptyStore

LEMMA ToldInit == Init => ToldInv
BY DEF Init, ToldInv, AllTold, OnlyTold, LoadAll, Json, EmptyStore, ProcTold

\* A process a step does not concern is as told as it was.
LEMMA OtherProcTold ==
  ASSUME NEW q \in Procs, ProcTold(q), [Next]_vars,
         pc'[q] = pc[q], op'[q] = op[q], mine'[q] = mine[q], data'[q] = data[q]
  PROVE  ProcTold(q)'
<1>1. told \subseteq told'
  BY ToldOnlyGrows
<1>2. ASSUME OnlyTold(data[q]) PROVE \A v \in DOMAIN data'[q] : \A f \in data'[q][v] : <<v, f>> \in told'
  BY <1>1, <1>2 DEF OnlyTold
<1> QED
  BY <1>1, <1>2 DEF ProcTold, OnlyTold

LEMMA ToldStep ==
  ASSUME MTypes, ToldInv, [Next]_vars
  PROVE  ToldInv'
<1> SUFFICES ASSUME ~tangled' PROVE AllTold'
  BY DEF ToldInv
<1>0. /\ told \subseteq told'
      /\ \A p \in Procs : OpTyped(p) /\ ProcTold(p)
      /\ OnlyTold(LoadAll(file))
  BY ToldOnlyGrows DEF MTypes, ToldInv, AllTold
<1>t. /\ pc \in [Procs -> Places]
      /\ op \in [Procs -> Operations \cup {NoOp}]
      /\ mine \in [Procs -> SUBSET Facts]
      /\ data \in [Procs -> Stores]
  BY DEF MTypes, TypeOK
<1>m. ASSUME file' = file PROVE OnlyTold(LoadAll(file))'
  BY <1>0, <1>m DEF OnlyTold
<1>1. CASE UNCHANGED vars
  BY <1>0, <1>1 DEF vars, locals, history, AllTold, ProcTold, OnlyTold
<1>2. ASSUME NEW p \in Procs, NEW v \in Vms, NEW f \in Facts, annotate_vm(p, v, f)
      PROVE  AllTold'
  <2>1. /\ pc' = [pc EXCEPT ![p] = "reload"]
        /\ op' = [op EXCEPT ![p] = [kind |-> "annotate", vm |-> v, fact |-> f]]
        /\ mine' = [mine EXCEPT ![p] = Load(file, v) \cup {f}]
        /\ data' = data /\ file' = file /\ told' = told \cup {<<v, f>>}
    BY <1>2 DEF annotate_vm, Begin
  <2>2. \A g \in Load(file, v) : <<v, g>> \in told
    BY <1>0 DEF OnlyTold, Load
  <2>3. ProcTold(p)'
    BY <1>t, <2>1, <2>2 DEF ProcTold
  <2>4. ASSUME NEW q \in Procs, q # p PROVE ProcTold(q)'
    BY <1>0, <1>t, <2>1, <2>4, OtherProcTold
  <2> QED
    BY <1>m, <2>1, <2>3, <2>4 DEF AllTold
<1>3. ASSUME NEW p \in Procs, NEW v \in Vms, clear_vm_memory(p, v)
      PROVE  AllTold'
  <2>1. /\ pc' = [pc EXCEPT ![p] = "open"]
        /\ op' = [op EXCEPT ![p] = [kind |-> "clear", vm |-> v]]
        /\ data' = [data EXCEPT ![p] = Without(LoadAll(file), v)]
        /\ mine' = mine /\ file' = file /\ told' = told
    BY <1>3 DEF clear_vm_memory, Begin
  <2>2. OnlyTold(Without(LoadAll(file), v))
    BY <1>0, WithoutOnlyTold
  <2>3. ProcTold(p)'
    BY <1>t, <2>1, <2>2 DEF ProcTold, OnlyTold
  <2>4. ASSUME NEW q \in Procs, q # p PROVE ProcTold(q)'
    BY <1>0, <1>t, <2>1, <2>4, OtherProcTold
  <2> QED
    BY <1>m, <2>1, <2>3, <2>4 DEF AllTold
<1>4. ASSUME NEW p \in Procs, save_vm_memory(p) PROVE AllTold'
  <2>1. /\ pc[p] = "reload" /\ pc' = [pc EXCEPT ![p] = "open"]
        /\ data' = [data EXCEPT ![p] = With(LoadAll(file), op[p].vm, mine[p])]
        /\ op' = op /\ mine' = mine /\ file' = file /\ told' = told
    BY <1>4 DEF save_vm_memory, history
  <2>2. OnlyTold(With(LoadAll(file), op[p].vm, mine[p]))
    BY <1>0, <2>1, WithOnlyTold DEF ProcTold
  <2>3. ProcTold(p)'
    BY <1>t, <2>1, <2>2 DEF ProcTold, OnlyTold
  <2>4. ASSUME NEW q \in Procs, q # p PROVE ProcTold(q)'
    BY <1>0, <1>t, <2>1, <2>4, OtherProcTold
  <2> QED
    BY <1>m, <2>1, <2>3, <2>4 DEF AllTold
<1>5. ASSUME NEW p \in Procs, Truncate(p) PROVE AllTold'
  <2>1. /\ pc[p] = "open" /\ pc' = [pc EXCEPT ![p] = "dump"]
        /\ data' = data /\ op' = op /\ mine' = mine /\ file' = Emptied /\ told' = told
    BY <1>5 DEF Truncate, history
  <2>2. OnlyTold(LoadAll(file))'
    BY <2>1 DEF OnlyTold, LoadAll, Emptied, EmptyStore
  <2>3. ProcTold(p)'
    BY <1>0, <1>t, <2>1 DEF ProcTold, OnlyTold
  <2>4. ASSUME NEW q \in Procs, q # p PROVE ProcTold(q)'
    BY <1>0, <1>t, <2>1, <2>4, OtherProcTold
  <2> QED
    BY <2>2, <2>3, <2>4 DEF AllTold
<1>6. ASSUME NEW p \in Procs, Flush(p) PROVE AllTold'
  <2>1. /\ pc[p] \in {"dump", "rest"} /\ pc' = [pc EXCEPT ![p] = "rest"]
        /\ data' = data /\ op' = op /\ mine' = mine /\ told' = told
        /\ Alone(p) /\ file' \in Beginning(p)
    BY <1>6 DEF Flush
  <2>2. OnlyTold(LoadAll(file))'
    BY <2>1, NotJsonIsEmpty, EmptyOnlyTold DEF OnlyTold
  <2>3. ProcTold(p)'
    BY <1>0, <1>t, <2>1 DEF ProcTold, OnlyTold
  <2>4. ASSUME NEW q \in Procs, q # p PROVE ProcTold(q)'
    BY <1>0, <1>t, <2>1, <2>4, OtherProcTold
  <2> QED
    BY <2>2, <2>3, <2>4 DEF AllTold
<1>7. ASSUME NEW p \in Procs, Crash(p) PROVE AllTold'
  <2>1. /\ pc' = [pc EXCEPT ![p] = "dead"] /\ data' = data /\ op' = op /\ mine' = mine
        /\ file' = file
    BY <1>7 DEF Crash
  <2>2. ProcTold(p)'
    BY <1>t, <2>1 DEF ProcTold
  <2>3. ASSUME NEW q \in Procs, q # p PROVE ProcTold(q)'
    BY <1>0, <1>t, <2>1, <2>3, OtherProcTold
  <2> QED
    BY <1>7, <1>m, <2>1, <2>2, <2>3 DEF AllTold, Crash
<1>i. ASSUME NEW p \in Procs, Idle(p), NEW q \in Procs PROVE ProcTold(q)'
  <2>1. /\ pc' = [pc EXCEPT ![p] = "idle"] /\ op' = [op EXCEPT ![p] = NoOp]
        /\ mine' = [mine EXCEPT ![p] = {}] /\ data' = [data EXCEPT ![p] = EmptyStore]
    BY <1>i DEF Idle
  <2>2. CASE q = p
    BY <1>t, <2>1, <2>2 DEF ProcTold
  <2>3. CASE q # p
    BY <1>0, <1>i, <1>t, <2>1, <2>3, OtherProcTold
  <2> QED
    BY <2>2, <2>3
<1>8. ASSUME NEW p \in Procs, Restart(p) PROVE AllTold'
  BY <1>8, <1>m, <1>i DEF AllTold, Restart
<1>9. ASSUME NEW p \in Procs, Close(p) PROVE AllTold'
  <2>1. pc[p] \in {"dump", "rest"} /\ told' = told /\ file' \in {Json(data[p])} \cup Broken
    BY <1>9 DEF Close, Alone
  <2>2. OnlyTold(data[p])
    BY <1>0, <2>1 DEF ProcTold
  <2>3. OnlyTold(LoadAll(file))'
    <3>1. CASE file' = Json(data[p])
      BY <2>1, <2>2, <3>1 DEF OnlyTold, LoadAll, Json
    <3>2. CASE file' \in Broken
      BY <3>2, NotJsonIsEmpty, EmptyOnlyTold DEF OnlyTold, EmptyStore
    <3> QED
      BY <2>1, <3>1, <3>2
  <2> QED
    BY <1>9, <1>i, <2>3 DEF AllTold, Close
<1>10. ASSUME NEW p \in Procs, save_raises(p) PROVE AllTold'
  BY <1>10, <1>m, <1>i DEF AllTold, save_raises
<1> QED
  BY <1>1, <1>2, <1>3, <1>4, <1>5, <1>6, <1>7, <1>8, <1>9, <1>10 DEF Next

\* However many processes overlap or die, a fact is only ever found in the record of a VM it
\* was told of, until a text longer than the buffer has met another one in the file
\* (vm_memory.py 66-101).
THEOREM MemoryInventsNothing == Spec => []NothingInvented
<1>1. Init => MTypes /\ ToldInv
  BY TypesInit, ToldInit
<1>2. (MTypes /\ ToldInv) /\ [Next]_vars => (MTypes /\ ToldInv)'
  BY TypesStep, ToldStep
<1>3. MTypes /\ ToldInv => NothingInvented
  BY DEF ToldInv, AllTold, OnlyTold, NothingInvented, Load
<1> QED
  BY <1>1, <1>2, <1>3, PTL DEF Spec

--------------------------------------------------------------------------------
\* What the operation of process p makes of the facts that are known when it returns
After(p) == IF op[p].kind = "clear" THEN known ELSE Recorded(p)

\* An operation that nothing disturbs, by where it is
ProcTurn(p) ==
  /\ pc[p] = "reload" =>
       file = Json(known) /\ mine[p] = Load(Json(known), op[p].vm) \cup {op[p].fact}
  /\ pc[p] \in {"open", "dump", "rest"} => data[p] = After(p)
  /\ pc[p] \in {"dump", "rest"} => Alone(p)

Turn ==
  /\ \A p, q \in Procs : Busy(p) /\ Busy(q) => p = q
  /\ Quiet => file = Json(known)
  /\ \A p \in Procs : ProcTurn(p)

TurnInv == ~disturbed => Turn

LEMMA TurnInit == Init => TurnInv
BY DEF Init, TurnInv, Turn, Busy, Quiet, ProcTurn

\* An operation that begins undisturbed begins on the known facts, alone.
LEMMA BeginsAlone ==
  ASSUME TurnInv, NEW p \in Procs, NEW o, Begin(p, o), ~disturbed'
  PROVE  /\ ~disturbed /\ Turn
         /\ \A q \in Procs : ~Busy(q)
         /\ file = Json(known)
BY DEF TurnInv, Turn, Begin, Quiet

\* While an undisturbed operation is under way nothing else is.
LEMMA AloneUnderWay ==
  ASSUME Turn, NEW p \in Procs, Busy(p), NEW q \in Procs, q # p
  PROVE  ~Busy(q)
BY DEF Turn

\* A turn, put together from what holds of its process and of the idle others
LEMMA TurnOf ==
  ASSUME NEW p \in Procs, \A q \in Procs : q # p => ~Busy(q)', Busy(p)', ProcTurn(p)'
  PROVE  Turn'
BY DEF Turn, Busy, Quiet, ProcTurn

LEMMA TurnStep ==
  ASSUME MTypes, TurnInv, [Next]_vars
  PROVE  TurnInv'
<1>t. /\ pc \in [Procs -> Places]
      /\ op \in [Procs -> Operations \cup {NoOp}]
      /\ mine \in [Procs -> SUBSET Facts]
      /\ data \in [Procs -> Stores]
      /\ \A p \in Procs : OpTyped(p)
  BY DEF MTypes, TypeOK
<1> SUFFICES ASSUME ~disturbed' PROVE Turn'
  BY DEF TurnInv
<1>1. CASE UNCHANGED vars
  BY <1>1 DEF vars, locals, history, TurnInv, Turn, Busy, Quiet, ProcTurn, After, Recorded, Alone
<1>2. ASSUME NEW p \in Procs, NEW v \in Vms, NEW f \in Facts, annotate_vm(p, v, f)
      PROVE  Turn'
  <2> DEFINE o == [kind |-> "annotate", vm |-> v, fact |-> f]
  <2>1. Begin(p, o)
    BY <1>2 DEF annotate_vm
  <2>2. (\A q \in Procs : ~Busy(q)) /\ file = Json(known)
    BY <2>1, BeginsAlone
  <2>3. /\ pc' = [pc EXCEPT ![p] = "reload"] /\ op' = [op EXCEPT ![p] = o]
        /\ mine' = [mine EXCEPT ![p] = Load(file, v) \cup {f}]
        /\ file' = file /\ known' = known
    BY <1>2 DEF annotate_vm, Begin
  <2>4. op'[p].vm = v /\ op'[p].fact = f /\ pc'[p] = "reload"
    BY <1>t, <2>3
  <2>5. mine'[p] = Load(Json(known), v) \cup {f}
    BY <1>t, <2>2, <2>3
  <2>6. ProcTurn(p)'
    BY <2>2, <2>3, <2>4, <2>5 DEF ProcTurn
  <2>7. Busy(p)' /\ \A q \in Procs : q # p => ~Busy(q)'
    BY <1>t, <2>2, <2>3 DEF Busy
  <2> QED
    BY <2>6, <2>7, TurnOf
<1>3. ASSUME NEW p \in Procs, NEW v \in Vms, clear_vm_memory(p, v)
      PROVE  Turn'
  <2> DEFINE o == [kind |-> "clear", vm |-> v]
  <2>1. Begin(p, o)
    BY <1>3 DEF clear_vm_memory
  <2>2. (\A q \in Procs : ~Busy(q)) /\ file = Json(known)
    BY <2>1, BeginsAlone
  <2>3. /\ pc' = [pc EXCEPT ![p] = "open"] /\ op' = [op EXCEPT ![p] = o]
        /\ data' = [data EXCEPT ![p] = Without(LoadAll(file), v)]
        /\ known' = Without(known, v)
    BY <1>3 DEF clear_vm_memory, Begin
  <2>4. op'[p].kind = "clear" /\ pc'[p] = "open"
    BY <1>t, <2>3
  <2>5. data'[p] = known'
    BY <1>t, <2>2, <2>3 DEF LoadAll, Json
  <2>6. ProcTurn(p)'
    BY <2>4, <2>5 DEF ProcTurn, After
  <2>7. Busy(p)' /\ \A q \in Procs : q # p => ~Busy(q)'
    BY <1>t, <2>2, <2>3 DEF Busy
  <2> QED
    BY <2>6, <2>7, TurnOf
<1>4. ASSUME NEW p \in Procs, save_vm_memory(p) PROVE Turn'
  <2>1. /\ pc[p] = "reload" /\ pc' = [pc EXCEPT ![p] = "open"]
        /\ data' = [data EXCEPT ![p] = With(LoadAll(file), op[p].vm, mine[p])]
        /\ op' = op /\ file' = file /\ known' = known /\ disturbed' = disturbed
    BY <1>4 DEF save_vm_memory, history
  <2>2. Turn /\ Busy(p) /\ op[p].kind = "annotate"
    BY <1>t, <2>1 DEF TurnInv, Busy, OpTyped, AnnotateOps
  <2>3. file = Json(known) /\ mine[p] = Load(Json(known), op[p].vm) \cup {op[p].fact}
    BY <2>1, <2>2 DEF Turn, ProcTurn
  <2>4. data'[p] = With(known, op[p].vm, Load(Json(known), op[p].vm) \cup {op[p].fact})
    BY <1>t, <2>1, <2>3 DEF LoadAll, Json
  <2>5. data'[p] = Recorded(p)
    BY <2>4 DEF Recorded, Load, LoadAll, Json
  <2>6. Recorded(p)' = Recorded(p) /\ After(p)' = Recorded(p)
    BY <2>1, <2>2 DEF After, Recorded
  <2>7. ProcTurn(p)'
    BY <1>t, <2>1, <2>5, <2>6 DEF ProcTurn
  <2>8. Busy(p)' /\ \A q \in Procs : q # p => ~Busy(q)'
    BY <1>t, <2>1, <2>2, AloneUnderWay DEF Busy
  <2> QED
    BY <2>7, <2>8, TurnOf
<1>5. ASSUME NEW p \in Procs, Truncate(p) PROVE Turn'
  <2>1. /\ pc[p] = "open" /\ pc' = [pc EXCEPT ![p] = "dump"] /\ file' = Emptied
        /\ data' = data /\ op' = op /\ known' = known /\ disturbed' = disturbed
    BY <1>5 DEF Truncate, history
  <2>2. Turn /\ Busy(p)
    BY <2>1 DEF TurnInv, Busy
  <2>3. data[p] = After(p) /\ After(p)' = After(p)
    BY <2>1, <2>2 DEF Turn, ProcTurn, After, Recorded
  <2>4. ProcTurn(p)'
    BY <1>t, <2>1, <2>3 DEF ProcTurn, Alone
  <2>5. Busy(p)' /\ \A q \in Procs : q # p => ~Busy(q)'
    BY <1>t, <2>1, <2>2, AloneUnderWay DEF Busy
  <2> QED
    BY <2>4, <2>5, TurnOf
<1>6. ASSUME NEW p \in Procs, Flush(p) PROVE Turn'
  <2>1. /\ pc[p] \in {"dump", "rest"} /\ pc' = [pc EXCEPT ![p] = "rest"]
        /\ data' = data /\ op' = op /\ known' = known /\ disturbed' = disturbed
    BY <1>6 DEF Flush
  <2>2. Turn /\ Busy(p)
    BY <2>1 DEF TurnInv, Busy
  <2>3. data[p] = After(p) /\ After(p)' = After(p) /\ Alone(p)
    BY <2>1, <2>2 DEF Turn, ProcTurn, After, Recorded
  <2>4. file' \in Beginning(p)
    BY <1>6, <2>3 DEF Flush
  <2>5. ProcTurn(p)'
    <3>1. pc'[p] = "rest"
      BY <1>t, <2>1
    <3>3. data'[p] = After(p)'
      BY <2>1, <2>3
    <3>2. Alone(p)'
      BY <2>4, <3>1 DEF Alone, Beginning
    <3> QED
      BY <3>1, <3>2, <3>3 DEF ProcTurn
  <2>6. Busy(p)' /\ \A q \in Procs : q # p => ~Busy(q)'
    BY <1>t, <2>1, <2>2, AloneUnderWay DEF Busy
  <2> QED
    BY <2>5, <2>6, TurnOf
<1>7. ASSUME NEW p \in Procs, Crash(p) PROVE Turn'
  BY <1>7 DEF Crash
<1>8. ASSUME NEW p \in Procs, Restart(p) PROVE Turn'
  <2>1. /\ pc[p] = "dead" /\ pc' = [pc EXCEPT ![p] = "idle"]
        /\ op' = [op EXCEPT ![p] = NoOp] /\ mine' = [mine EXCEPT ![p] = {}]
        /\ data' = [data EXCEPT ![p] = EmptyStore]
        /\ file' = file /\ known' = known /\ disturbed' = disturbed
    BY <1>8 DEF Restart, Idle, history
  <2>2. Turn
    BY <2>1 DEF TurnInv
  <2>3. \A q \in Procs : Busy(q)' <=> Busy(q)
    BY <1>t, <2>1 DEF Busy
  <2>4. ProcTurn(p)'
    BY <1>t, <2>1 DEF ProcTurn
  <2>5. ASSUME NEW q \in Procs, q # p PROVE ProcTurn(q)'
    <3>1. /\ pc'[q] = pc[q] /\ op'[q] = op[q] /\ mine'[q] = mine[q] /\ data'[q] = data[q]
      BY <1>t, <2>1, <2>5
    <3> QED
      BY <2>1, <2>2, <3>1 DEF Turn, ProcTurn, After, Recorded, Alone
  <2> QED
    BY <2>1, <2>2, <2>3, <2>4, <2>5 DEF Turn, Quiet
<1>9. ASSUME NEW p \in Procs, Close(p) PROVE Turn'
  <2>1. /\ pc[p] \in {"dump", "rest"} /\ pc' = [pc EXCEPT ![p] = "idle"]
        /\ disturbed' = disturbed
    BY <1>9 DEF Close, Idle
  <2>2. Turn /\ Busy(p)
    BY <2>1 DEF TurnInv, Busy
  <2>3. Alone(p) /\ data[p] = After(p)
    BY <2>1, <2>2 DEF Turn, ProcTurn
  <2>4. file' = Json(After(p)) /\ known' = After(p)
    BY <1>9, <2>3 DEF Close, After
  <2>5. \A q \in Procs : pc'[q] \notin {"reload", "open", "dump", "rest"}
    BY <1>t, <2>1, <2>2, AloneUnderWay DEF Busy
  <2> QED
    BY <2>4, <2>5 DEF Turn, Busy, Quiet, ProcTurn
<1>10. ASSUME NEW p \in Procs, save_raises(p) PROVE Turn'
  <2>1. pc[p] = "reload" /\ ~Readable(file) /\ disturbed' = disturbed
    BY <1>10 DEF save_raises, history
  <2>2. file = Json(known)
    BY <2>1 DEF TurnInv, Turn, ProcTurn
  <2> QED
    BY <2>1, <2>2 DEF Readable, Json
<1> QED
  BY <1>1, <1>2, <1>3, <1>4, <1>5, <1>6, <1>7, <1>8, <1>9, <1>10 DEF Next

\* As long as no two operations overlapped and none was cut short, the file holds between
\* operations what the operations that returned have told it (vm_memory.py 95-101).
THEOREM MemoryTurns == Spec => []TurnsLoseNothing
<1>1. Init => MTypes /\ TurnInv
  BY TypesInit, TurnInit
<1>2. (MTypes /\ TurnInv) /\ [Next]_vars => (MTypes /\ TurnInv)'
  BY TypesStep, TurnStep
<1>3. MTypes /\ TurnInv => TurnsLoseNothing
  BY DEF TurnInv, Turn, TurnsLoseNothing
<1> QED
  BY <1>1, <1>2, <1>3, PTL DEF Spec
================================================================================
