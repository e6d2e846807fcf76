----------------------------- MODULE FtpBridgeProofs ---------------------------
(***************************************************************************)
(* Which content transfers move, for any number of them, any files and any   *)
(* order of starts, logins and ends.                                        *)
(***************************************************************************)
EXTENDS FtpBridge, TLAPS

\* Only the transfers a login was given a directory of are ever stored to or fetched from.
HasHome(t) ==
  /\ pc[t] # "new" => authorizer \in Transfers
  /\ guest[t] \in {"logged_in", "ok"} => home[t] \in Transfers

FTypes == TypeOK /\ \A t \in Transfers : HasHome(t)

--------------------------------------------------------------------------------
\* One file of one directory is replaced; every other is as it was (proxmox.py 281-287,
\* 299-306).
LEMMA OneFile ==
  ASSUME NEW h \in Transfers, NEW n \in FileNames, NEW t \in Transfers,
         dir \in [Transfers -> [FileNames -> Contents]],
         dir' = [dir EXCEPT ![h][n] = t]
  PROVE  /\ dir' \in [Transfers -> [FileNames -> Contents]]
         /\ \A u \in Transfers, f \in FileNames :
              dir'[u][f] = IF u = h /\ f = n THEN t ELSE dir[u][f]
<1>1. t \in Contents /\ dir[h] \in [FileNames -> Contents]
  BY DEF Contents
<1>2. [dir[h] EXCEPT ![n] = t] \in [FileNames -> Contents]
  BY <1>1
<1>3. dir' = [dir EXCEPT ![h] = [dir[h] EXCEPT ![n] = t]]
  OBVIOUS
<1> QED
  BY <1>1, <1>2, <1>3

\* A directory is removed with everything in it (ftp_server.py 51-58).
LEMMA NoFiles ==
  ASSUME NEW t \in Transfers, dir \in [Transfers -> [FileNames -> Contents]],
         dir' = [dir EXCEPT ![t] = EmptyDir]
  PROVE  /\ dir' \in [Transfers -> [FileNames -> Contents]]
         /\ \A u \in Transfers, f \in FileNames :
              dir'[u][f] = IF u = t THEN Nobody ELSE dir[u][f]
<1>1. EmptyDir \in [FileNames -> Contents] /\ \A f \in FileNames : EmptyDir[f] = Nobody
  BY DEF EmptyDir, Contents
<1> QED
  BY <1>1

LEMMA FTypesInit == Init => FTypes
<1> SUFFICES ASSUME Init PROVE FTypes
  OBVIOUS
<1>1. EmptyDir \in [FileNames -> Contents] /\ Nobody \in Contents
  BY DEF EmptyDir, Contents
<1>2. TypeOK
  BY <1>1 DEF Init, TypeOK
<1>3. \A t \in Transfers : HasHome(t)
  BY DEF Init, HasHome
<1> QED
  BY <1>2, <1>3 DEF FTypes

\* What put or get does before its await, and what that leaves of the types.
LEMMA BeginTypes ==
  ASSUME FTypes, NEW t \in Transfers, Begin(t)
  PROVE  FTypes'
<1>0. TypeOK /\ \A u \in Transfers : HasHome(u)
  BY DEF FTypes
<1>1. pc' \in [Transfers -> {"new", "serving", "over"}] /\ authorizer' \in Transfers
  BY <1>0 DEF Begin, Authorize, TypeOK
<1>2. dir' \in [Transfers -> [FileNames -> Contents]]
  <2>1. name[t] \in FileNames /\ dir \in [Transfers -> [FileNames -> Contents]]
    BY <1>0 DEF TypeOK
  <2>2. CASE kind[t] = "put"
    BY <2>1, <2>2, OneFile DEF Begin
  <2>3. CASE kind[t] # "put"
    BY <2>1, <2>3 DEF Begin
  <2> QED
    BY <2>2, <2>3
<1>3. /\ guest \in [Transfers -> {"none", "started", "logged_in", "ok", "failed"}]
      /\ guest' = [guest EXCEPT ![t] = "started"]
  BY <1>0 DEF Begin, TypeOK
<1>4. guest' \in [Transfers -> {"none", "started", "logged_in", "ok", "failed"}]
  BY <1>3
<1>5. overlap' \in [Transfers -> BOOLEAN]
  BY DEF Begin
<1>6. TypeOK'
  BY <1>0, <1>1, <1>2, <1>4, <1>5 DEF Begin, TypeOK, Contents
<1>7. ASSUME NEW u \in Transfers PROVE HasHome(u)'
  BY <1>0, <1>1, <1>3 DEF Begin, HasHome
<1> QED
  BY <1>6, <1>7 DEF FTypes

\* Every step keeps the types.
LEMMA FTypesStep ==
  ASSUME FTypes, [Next]_vars
  PROVE  FTypes'
<1>0. TypeOK /\ \A u \in Transfers : HasHome(u)
  BY DEF FTypes
<1>t. /\ pc \in [Transfers -> {"new", "serving", "over"}]
      /\ dir \in [Transfers -> [FileNames -> Contents]]
      /\ guest \in [Transfers -> {"none", "started", "logged_in", "ok", "failed"}]
      /\ home \in [Transfers -> Contents]
      /\ content \in [Transfers -> Contents]
      /\ name \in [Transfers -> FileNames]
      /\ outcome \in [Transfers -> {"none", "ok", "missing", "failed"}]
  BY <1>0 DEF TypeOK
<1>1. CASE UNCHANGED vars
  BY <1>0, <1>1 DEF vars, FTypes, TypeOK, HasHome
<1>2. ASSUME NEW t \in Transfers, Begin(t) PROVE FTypes'
  BY <1>2, BeginTypes
<1>3. ASSUME NEW t \in Transfers, Login(t) PROVE FTypes'
  <2>1. authorizer \in Transfers
    BY <1>0, <1>3 DEF Login, HasHome
  <2>2. guest' \in [Transfers -> {"none", "started", "logged_in", "ok", "failed"}]
    BY <1>3, <1>t DEF Login
  <2>3. home' \in [Transfers -> Contents]
    BY <1>3, <1>t, <2>1 DEF Login, Contents
  <2>4. TypeOK'
    BY <1>0, <1>3, <2>2, <2>3 DEF Login, TypeOK
  <2>5. ASSUME NEW u \in Transfers PROVE HasHome(u)'
    BY <1>0, <1>3, <1>t, <2>1 DEF Login, HasHome
  <2> QED
    BY <2>4, <2>5 DEF FTypes
<1>4. ASSUME NEW t \in Transfers, Store(t) PROVE FTypes'
  <2>1. home[t] \in Transfers /\ name[t] \in FileNames
    BY <1>0, <1>4, <1>t DEF Store, HasHome
  <2>2. dir' \in [Transfers -> [FileNames -> Contents]]
    BY <1>4, <1>t, <2>1, OneFile DEF Store
  <2>3. guest' \in [Transfers -> {"none", "started", "logged_in", "ok", "failed"}]
    BY <1>4, <1>t DEF Store
  <2>4. TypeOK'
    BY <1>0, <1>4, <2>2, <2>3 DEF Store, TypeOK
  <2>5. ASSUME NEW u \in Transfers PROVE HasHome(u)'
    BY <1>0, <1>4, <1>t, <2>1 DEF Store, HasHome
  <2> QED
    BY <2>4, <2>5 DEF FTypes
<1>5. ASSUME NEW t \in Transfers, Fetch(t) PROVE FTypes'
  <2>1. home[t] \in Transfers /\ name[t] \in FileNames
    BY <1>0, <1>5, <1>t DEF Fetch, HasHome
  <2>2. dir[home[t]][name[t]] \in Contents
    BY <1>t, <2>1
  <2>3. content' \in [Transfers -> Contents]
    BY <1>5, <1>t, <2>2 DEF Fetch
  <2>4. guest' \in [Transfers -> {"none", "started", "logged_in", "ok", "failed"}]
    BY <1>5, <1>t DEF Fetch
  <2>5. TypeOK'
    BY <1>0, <1>5, <2>3, <2>4 DEF Fetch, TypeOK
  <2>6. ASSUME NEW u \in Transfers PROVE HasHome(u)'
    BY <1>0, <1>5, <1>t, <2>1 DEF Fetch, HasHome
  <2> QED
    BY <2>5, <2>6 DEF FTypes
<1>6. ASSUME NEW t \in Transfers, GuestFails(t) PROVE FTypes'
  <2>1. guest' \in [Transfers -> {"none", "started", "logged_in", "ok", "failed"}]
    BY <1>6, <1>t DEF GuestFails
  <2>2. TypeOK'
    BY <1>0, <1>6, <2>1 DEF GuestFails, TypeOK
  <2>3. ASSUME NEW u \in Transfers PROVE HasHome(u)'
    BY <1>0, <1>6, <1>t DEF GuestFails, HasHome
  <2> QED
    BY <2>2, <2>3 DEF FTypes
<1>7. ASSUME NEW t \in Transfers, Finish(t) PROVE FTypes'
  <2>1. dir' \in [Transfers -> [FileNames -> Contents]]
    BY <1>7, <1>t, NoFiles DEF Finish
  <2>2. dir[t][name[t]] \in Contents
    BY <1>t
  <2>3. content' \in [Transfers -> Contents]
    BY <1>7, <1>t, <2>2 DEF Finish, Read
  <2>4. outcome' \in [Transfers -> {"none", "ok", "missing", "failed"}]
    BY <1>7, <1>t DEF Finish, Read
  <2>5. pc' \in [Transfers -> {"new", "serving", "over"}]
    BY <1>7, <1>t DEF Finish
  <2>6. TypeOK'
    BY <1>0, <1>7, <2>1, <2>3, <2>4, <2>5 DEF Finish, TypeOK
  <2>7. ASSUME NEW u \in Transfers PROVE HasHome(u)'
    BY <1>0, <1>7, <1>t DEF Finish, HasHome
  <2> QED
    BY <2>6, <2>7 DEF FTypes
<1> QED
  BY <1>1, <1>2, <1>3, <1>4, <1>5, <1>6, <1>7 DEF Next

\* The transfers' variables keep their types, for any transfers and file names.
THEOREM TransferTypes == Spec => []TypeOK
<1>1. FTypes => TypeOK
  BY DEF FTypes
<1> QED
  BY <1>1, FTypesInit, FTypesStep, PTL DEF Spec

--------------------------------------------------------------------------------
\* Content lies in a file, or with a transfer, of the name it is filed under.
NamedInv ==
  /\ \A t \in Transfers, f \in FileNames :
       dir[t][f] # Nobody => dir[t][f] \in Transfers /\ name[dir[t][f]] = f
  /\ \A t \in Transfers :
       content[t] # Nobody => content[t] \in Transfers /\ name[content[t]] = name[t]

LEMMA NamedInit == Init => NamedInv
BY DEF Init, NamedInv, EmptyDir

LEMMA NamedStep ==
  ASSUME FTypes, NamedInv, [Next]_vars
  PROVE  NamedInv'
<1>t. /\ dir \in [Transfers -> [FileNames -> Contents]]
      /\ content \in [Transfers -> Contents]
      /\ name \in [Transfers -> FileNames]
      /\ \A t \in Transfers : HasHome(t)
  BY DEF FTypes, TypeOK
<1>0. Nobody \notin Transfers
  BY NobodyAssumption
<1>1. CASE UNCHANGED vars
  BY <1>1 DEF vars, NamedInv
<1>2. ASSUME NEW t \in Transfers, Begin(t) PROVE NamedInv'
  <2>1. name' = name /\ content' = content
    BY <1>2 DEF Begin
  <2>2. CASE kind[t] = "put"
    <3>1. \A u \in Transfers, f \in FileNames :
            dir'[u][f] = IF u = t /\ f = name[t] THEN t ELSE dir[u][f]
      BY <1>2, <1>t, <2>2, OneFile DEF Begin
    <3> QED
      BY <2>1, <3>1 DEF NamedInv
  <2>3. CASE kind[t] # "put"
    BY <1>2, <2>1, <2>3 DEF Begin, NamedInv
  <2> QED
    BY <2>2, <2>3
<1>3. ASSUME NEW t \in Transfers, Login(t) \/ GuestFails(t) PROVE NamedInv'
  BY <1>3 DEF Login, GuestFails, NamedInv
<1>4. ASSUME NEW t \in Transfers, Store(t) PROVE NamedInv'
  <2>1. home[t] \in Transfers /\ name[t] \in FileNames
    BY <1>4, <1>t DEF Store, HasHome
  <2>2. \A u \in Transfers, f \in FileNames :
          dir'[u][f] = IF u = home[t] /\ f = name[t] THEN t ELSE dir[u][f]
    BY <1>4, <1>t, <2>1, OneFile DEF Store
  <2> QED
    BY <1>4, <2>2 DEF Store, NamedInv
<1>5. ASSUME NEW t \in Transfers, Fetch(t) PROVE NamedInv'
  <2>1. home[t] \in Transfers /\ name[t] \in FileNames
    BY <1>5, <1>t DEF Fetch, HasHome
  <2>2. \A u \in Transfers :
          content'[u] = IF u = t THEN dir[home[t]][name[t]] ELSE content[u]
    BY <1>5, <1>t DEF Fetch
  <2> QED
    BY <1>5, <2>1, <2>2 DEF Fetch, NamedInv
<1>6. ASSUME NEW t \in Transfers, Finish(t) PROVE NamedInv'
  <2>1. \A u \in Transfers, f \in FileNames :
          dir'[u][f] = IF u = t THEN Nobody ELSE dir[u][f]
    BY <1>6, <1>t, NoFiles DEF Finish
  <2>2. \A u \in Transfers :
          content'[u] \in {content[u]} \cup IF u = t THEN {dir[t][name[t]]} ELSE {}
    BY <1>6, <1>t DEF Finish, Read
  <2>3. name' = name /\ \A u \in Transfers : name[u] \in FileNames
    BY <1>6, <1>t DEF Finish
  <2> QED
    BY <2>1, <2>2, <2>3 DEF NamedInv
<1> QED
  BY <1>1, <1>2, <1>3, <1>4, <1>5, <1>6 DEF Next

\* Transfers of files with different names never exchange content, overlapping or not
\* (proxmox.py 274-287, 297-315).
THEOREM TransfersKeepNames == Spec => []OnlyNamesakesMix
<1>1. Init => FTypes /\ NamedInv
  BY FTypesInit, NamedInit
<1>2. (FTypes /\ NamedInv) /\ [Next]_vars => (FTypes /\ NamedInv)'
  BY FTypesStep, NamedStep
<1>3. FTypes /\ NamedInv => OnlyNamesakesMix
  BY DEF NamedInv, OnlyNamesakesMix
<1> QED
  BY <1>1, <1>2, <1>3, PTL DEF Spec

--------------------------------------------------------------------------------
\* A transfer that has not begun has left nothing.
Untouched(t) ==
  guest[t] = "none" /\ outcome[t] = "none" /\ content[t] = Nobody /\ dir[t] = EmptyDir

\* A transfer under way that is alone: the authorizer names its directory, its guest's login
\* got that one, and nothing but its own file is in it.
AloneServing(t) ==
  /\ \A u \in Transfers : pc[u] = "serving" => u = t
  /\ authorizer = t
  /\ guest[t] \in {"logged_in", "ok"} => home[t] = t
  /\ dir[t][name[t]] \in {t, Nobody}
  /\ kind[t] = "put" \/ guest[t] = "ok" => dir[t][name[t]] = t
  /\ outcome[t] = "none"

AloneInv(t) ==
  /\ pc[t] = "new" => Untouched(t)
  /\ ~overlap[t] /\ pc[t] = "serving" => AloneServing(t)
  /\ ~overlap[t] =>
       /\ content[t] \in {t, Nobody}
       /\ kind[t] = "get" /\ outcome[t] = "ok" => content[t] = t
       /\ guest[t] = "ok" => outcome[t] # "missing"

LEMMA AloneInit == Init => \A t \in Transfers : AloneInv(t)
BY DEF Init, AloneInv, Untouched

LEMMA AloneStep ==
  ASSUME FTypes, \A t \in Transfers : AloneInv(t), [Next]_vars, NEW a \in Transfers
  PROVE  AloneInv(a)'
<1>t. /\ pc \in [Transfers -> {"new", "serving", "over"}]
      /\ dir \in [Transfers -> [FileNames -> Contents]]
      /\ guest \in [Transfers -> {"none", "started", "logged_in", "ok", "failed"}]
      /\ home \in [Transfers -> Contents]
      /\ content \in [Transfers -> Contents]
      /\ name \in [Transfers -> FileNames]
      /\ kind \in [Transfers -> {"get", "put"}]
      /\ outcome \in [Transfers -> {"none", "ok", "missing", "failed"}]
      /\ \A t \in Transfers : HasHome(t)
  BY DEF FTypes, TypeOK
<1>0. Nobody \notin Transfers /\ AloneInv(a)
  BY NobodyAssumption
<1>1. CASE UNCHANGED vars
  BY <1>0, <1>1 DEF vars, AloneInv, Untouched, AloneServing
<1>2. ASSUME NEW t \in Transfers, Begin(t) PROVE AloneInv(a)'
  <2>1. /\ pc[t] = "new" /\ pc' = [pc EXCEPT ![t] = "serving"] /\ authorizer' = t
        /\ guest' = [guest EXCEPT ![t] = "started"]
        /\ dir' = IF kind[t] = "put" THEN [dir EXCEPT ![t][name[t]] = t] ELSE dir
        /\ kind' = kind /\ name' = name /\ home' = home
        /\ outcome' = outcome /\ content' = content
    BY <1>2 DEF Begin, Authorize
  <2>2. overlap'[a] = (overlap[a] \/ (a = t /\ Serving # {}) \/ a \in Serving)
    BY <1>2 DEF Begin
  <2>3. CASE a = t
    <3>1. Untouched(t) /\ \A f \in FileNames : dir[t][f] = Nobody
      BY <1>0, <2>1, <2>3 DEF AloneInv, Untouched, EmptyDir
    <3>2. pc'[t] = "serving" /\ guest'[t] = "started"
      BY <1>t, <2>1
    <3>3. dir'[t][name[t]] = IF kind[t] = "put" THEN t ELSE Nobody
      <4>1. CASE kind[t] = "put"
        BY <1>t, <2>1, <4>1, OneFile
      <4>2. CASE kind[t] # "put"
        BY <1>t, <2>1, <3>1, <4>2
      <4> QED
        BY <4>1, <4>2
    <3>4. ~overlap'[t] => \A u \in Transfers : pc'[u] = "serving" => u = t
      BY <1>t, <2>1, <2>2, <2>3 DEF Serving
    <3> QED
      BY <2>1, <2>3, <3>1, <3>2, <3>3, <3>4 DEF AloneInv, AloneServing, Untouched
  <2>4. CASE a # t
    <3>1. pc'[a] = pc[a] /\ guest'[a] = guest[a]
      BY <1>t, <2>1, <2>4
    <3>2. dir'[a] = dir[a]
      BY <1>t, <2>1, <2>4
    <3>3. pc[a] = "serving" => overlap'[a]
      BY <2>2 DEF Serving
    <3>4. overlap[a] => overlap'[a]
      BY <2>2
    <3> QED
      BY <1>0, <2>1, <3>1, <3>2, <3>3, <3>4 DEF AloneInv, Untouched
  <2> QED
    BY <2>3, <2>4
<1>3. ASSUME NEW t \in Transfers, Login(t) PROVE AloneInv(a)'
  <2>1. /\ guest[t] = "started" /\ pc[t] = "serving"
        /\ guest' = [guest EXCEPT ![t] = "logged_in"]
        /\ home' = [home EXCEPT ![t] = authorizer]
        /\ UNCHANGED <<kind, name, pc, authorizer, dir, outcome, content, overlap>>
    BY <1>3 DEF Login
  <2>2. CASE a = t
    BY <1>0, <1>t, <2>1, <2>2 DEF AloneInv, AloneServing
  <2>3. CASE a # t
    BY <1>0, <1>t, <2>1, <2>3 DEF AloneInv, AloneServing, Untouched
  <2> QED
    BY <2>2, <2>3
<1>4. ASSUME NEW t \in Transfers, Store(t) PROVE AloneInv(a)'
  <2>1. /\ kind[t] = "get" /\ guest[t] = "logged_in" /\ pc[t] = "serving"
        /\ pc[home[t]] = "serving"
        /\ guest' = [guest EXCEPT ![t] = "ok"]
        /\ UNCHANGED <<kind, name, pc, authorizer, home, outcome, content, overlap>>
    BY <1>4 DEF Store
  <2>2. home[t] \in Transfers /\ name[t] \in FileNames
    BY <1>t, <2>1 DEF HasHome
  <2>3. \A u \in Transfers, f \in FileNames :
          dir'[u][f] = IF u = home[t] /\ f = name[t] THEN t ELSE dir[u][f]
    BY <1>4, <1>t, <2>2, OneFile DEF Store
  <2>4. pc[a] = "new" => dir'[a] = dir[a]
    BY <1>4, <1>t, <2>1, <2>2 DEF Store
  <2>5. CASE a = t
    BY <1>0, <1>t, <2>1, <2>2, <2>3, <2>5 DEF AloneInv, AloneServing
  <2>6. CASE a # t
    <3>1. ~overlap[a] => pc[a] # "serving"
      BY <1>0, <2>1, <2>6 DEF AloneInv, AloneServing
    <3>2. guest'[a] = guest[a]
      BY <1>t, <2>1, <2>6
    <3> QED
      BY <1>0, <2>1, <2>4, <3>1, <3>2 DEF AloneInv, Untouched
  <2> QED
    BY <2>5, <2>6
<1>5. ASSUME NEW t \in Transfers, Fetch(t) PROVE AloneInv(a)'
  <2>1. /\ kind[t] = "put" /\ guest[t] = "logged_in" /\ pc[t] = "serving"
        /\ content' = [content EXCEPT ![t] = dir[home[t]][name[t]]]
        /\ guest' = [guest EXCEPT ![t] = "ok"]
        /\ UNCHANGED <<kind, name, pc, authorizer, dir, home, outcome, overlap>>
    BY <1>5 DEF Fetch
  <2>2. CASE a = t
    BY <1>0, <1>t, <2>1, <2>2 DEF AloneInv, AloneServing
  <2>3. CASE a # t
    <3>1. content'[a] = content[a] /\ guest'[a] = guest[a]
      BY <1>t, <2>1, <2>3
    <3> QED
      BY <1>0, <2>1, <3>1 DEF AloneInv, AloneServing, Untouched
  <2> QED
    BY <2>2, <2>3
<1>6. ASSUME NEW t \in Transfers, GuestFails(t) PROVE AloneInv(a)'
  <2>1. /\ guest[t] \in {"started", "logged_in"}
        /\ guest' = [guest EXCEPT ![t] = "failed"]
        /\ UNCHANGED <<kind, name, pc, authorizer, dir, home, outcome, content, overlap>>
    BY <1>6 DEF GuestFails
  <2>2. guest'[a] = IF a = t THEN "failed" ELSE guest[a]
    BY <1>t, <2>1
  <2>3. Untouched(a) => a # t
    BY <2>1 DEF Untouched
  <2> QED
    BY <1>0, <2>1, <2>2, <2>3 DEF AloneInv, AloneServing, Untouched
<1>7. ASSUME NEW t \in Transfers, Finish(t) PROVE AloneInv(a)'
  <2>1. /\ pc[t] = "serving" /\ pc' = [pc EXCEPT ![t] = "over"]
        /\ dir' = [dir EXCEPT ![t] = EmptyDir]
        /\ UNCHANGED <<kind, name, authorizer, guest, home, overlap>>
    BY <1>7 DEF Finish
  <2>2. CASE a = t
    <3>1. pc'[a] = "over"
      BY <1>t, <2>1, <2>2
    <3>2. ~overlap[a] => AloneServing(a) /\ content[a] \in {a, Nobody}
      BY <1>0, <2>1, <2>2 DEF AloneInv
    <3>3. \/ /\ outcome'[a] = "missing" /\ content'[a] = content[a]
             /\ dir[a][name[a]] = Nobody
          \/ /\ outcome'[a] = "ok" /\ content'[a] = dir[a][name[a]]
             /\ dir[a][name[a]] # Nobody
          \/ outcome'[a] = "ok" /\ kind[a] = "put" /\ content'[a] = content[a]
          \/ outcome'[a] = "failed" /\ content'[a] = content[a]
      BY <1>7, <1>t, <2>2 DEF Finish, Read
    <3> QED
      BY <1>0, <2>1, <3>1, <3>2, <3>3 DEF AloneInv, AloneServing
  <2>3. CASE a # t
    <3>1. /\ pc'[a] = pc[a] /\ dir'[a] = dir[a]
          /\ outcome'[a] = outcome[a] /\ content'[a] = content[a]
      BY <1>7, <1>t, <2>1, <2>3 DEF Finish, Read
    <3>2. ~overlap[a] => pc[a] # "serving"
      BY <1>0, <2>1, <2>3 DEF AloneInv, AloneServing
    <3> QED
      BY <1>0, <2>1, <3>1, <3>2 DEF AloneInv, Untouched
  <2> QED
    BY <2>2, <2>3
<1> QED
  BY <1>1, <1>2, <1>3, <1>4, <1>5, <1>6, <1>7 DEF Next

\* A transfer that no other overlapped moves its own file or none, whatever came before it
\* and left in the shared authorizer (ftp_server.py 24-49).
THEOREM TransfersAlone == Spec => []AloneIsRight
<1> DEFINE AInv == \A t \in Transfers : AloneInv(t)
<1>1. Init => FTypes /\ AInv
  BY FTypesInit, AloneInit
<1>2. (FTypes /\ AInv) /\ [Next]_vars => (FTypes /\ AInv)'
  BY FTypesStep, AloneStep
<1>3. FTypes /\ AInv => AloneIsRight
  BY DEF AloneInv, AloneIsRight
<1> QED
  BY <1>1, <1>2, <1>3, PTL DEF Spec
================================================================================
