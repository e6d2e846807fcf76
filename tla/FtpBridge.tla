-------------------------------- MODULE FtpBridge ------------------------------
(***************************************************************************)
(* File transfers between host and guest (proxmox.py ProxmoxFileOps,        *)
(* ftp_server.py TemporaryFTPServer).  Each transfer makes a temporary      *)
(* directory, serves it from an FTP server of its own on a port of its own, *)
(* and has the guest log in there and store or fetch one file.  The         *)
(* directory a login is given is looked up in handler.authorizer, and       *)
(* handler is not an object of the transfer: it is the class FTPHandler,    *)
(* shared by every server of the process, so it holds the directory of the  *)
(* transfer that started last.  Transfers overlap, for put and get await    *)
(* the guest's command.                                                     *)
(***************************************************************************)
EXTENDS Naturals

CONSTANTS
  Transfers,
  FileNames,  \* base names of the files transferred
  Nobody      \* no transfer

ASSUME NobodyAssumption == Nobody \notin Transfers

VARIABLES
  kind,       \* kind[t]: "get" or "put"
  name,       \* name[t]: base name of the file
  pc,         \* pc[t]: "new", "serving" (awaiting the guest's command) or "over"
  authorizer, \* FTPHandler.authorizer: the transfer whose directory it names
  dir,        \* dir[t][f]: whose content file f of t's directory is, or Nobody
  guest,      \* guest[t]: the guest's command
  home,       \* home[t]: the transfer whose directory the guest's login got
  outcome,    \* outcome[t]: what the caller is told
  content,    \* content[t]: whose content the caller, or the guest, ends up with
  overlap     \* overlap[t]: another transfer was served while t was

vars == <<kind, name, pc, authorizer, dir, guest, home, outcome, content, overlap>>

\* Content is told apart by the transfer it is the right one for.
Contents == Transfers \cup {Nobody}
EmptyDir == [f \in FileNames |-> Nobody]

TypeOK ==
  /\ kind \in [Transfers -> {"get", "put"}]
  /\ name \in [Transfers -> FileNames]
  /\ pc \in [Transfers -> {"new", "serving", "over"}]
  /\ authorizer \in Contents
  /\ dir \in [Transfers -> [FileNames -> Contents]]
  /\ guest \in [Transfers -> {"none", "started", "logged_in", "ok", "failed"}]
  /\ home \in [Transfers -> Contents]
  /\ outcome \in [Transfers -> {"none", "ok", "missing", "failed"}]
  /\ content \in [Transfers -> Contents]
  /\ overlap \in [Transfers -> BOOLEAN]

Init ==
  /\ kind \in [Transfers -> {"get", "put"}]
  /\ name \in [Transfers -> FileNames]
  /\ pc = [t \in Transfers |-> "new"]
  /\ authorizer = Nobody
  /\ dir = [t \in Transfers |-> EmptyDir]
  /\ guest = [t \in Transfers |-> "none"]
  /\ home = [t \in Transfers |-> Nobody]
  /\ outcome = [t \in Transfers |-> "none"]
  /\ content = [t \in Transfers |-> Nobody]
  /\ overlap = [t \in Transfers |-> FALSE]

Serving == {t \in Transfers : pc[t] = "serving"}

\* __enter__: handler.authorizer = authorizer.
Authorize(t) == authorizer' = t

\* put or get up to its await: the directory exists, put's file is in it, the
\* server listens and the guest's command is started.
Begin(t) ==
  /\ pc[t] = "new"
  /\ pc' = [pc EXCEPT ![t] = "serving"]
  /\ Authorize(t)
  /\ dir' = IF kind[t] = "put" THEN [dir EXCEPT ![t][name[t]] = t] ELSE dir
  /\ guest' = [guest EXCEPT ![t] = "started"]
  /\ overlap' = [u \in Transfers |->
       \/ overlap[u]
       \/ u = t /\ Serving # {}
       \/ u \in Serving]
  /\ UNCHANGED <<kind, name, home, outcome, content>>

\* The guest reaches the server of its transfer and logs in; the session keeps
\* the directory the authorizer names at this moment.
Login(t) ==
  /\ guest[t] = "started"
  /\ pc[t] = "serving"
  /\ guest' = [guest EXCEPT ![t] = "logged_in"]
  /\ home' = [home EXCEPT ![t] = authorizer]
  /\ UNCHANGED <<kind, name, pc, authorizer, dir, outcome, content, overlap>>

\* get's command stores the guest's file in the session's directory.
Store(t) ==
  /\ kind[t] = "get"
  /\ guest[t] = "logged_in"
  /\ pc[t] = "serving"
  /\ pc[home[t]] = "serving"
  /\ dir' = [dir EXCEPT ![home[t]][name[t]] = t]
  /\ guest' = [guest EXCEPT ![t] = "ok"]
  /\ UNCHANGED <<kind, name, pc, authorizer, home, outcome, content, overlap>>

\* put's command fetches the file of that name from the session's directory.
Fetch(t) ==
  /\ kind[t] = "put"
  /\ guest[t] = "logged_in"
  /\ pc[t] = "serving"
  /\ pc[home[t]] = "serving"
  /\ dir[home[t]][name[t]] # Nobody
  /\ content' = [content EXCEPT ![t] = dir[home[t]][name[t]]]
  /\ guest' = [guest EXCEPT ![t] = "ok"]
  /\ UNCHANGED <<kind, name, pc, authorizer, dir, home, outcome, overlap>>

\* The command fails in the guest: no connection, a directory that is gone, no
\* such file.
GuestFails(t) ==
  /\ guest[t] \in {"started", "logged_in"}
  /\ guest' = [guest EXCEPT ![t] = "failed"]
  /\ UNCHANGED <<kind, name, pc, authorizer, dir, home, outcome, content, overlap>>

\* Mutation: the branch that turns ok off is gone.
ReadWithoutElse(t) ==
  /\ outcome' = [outcome EXCEPT ![t] = "ok"]
  /\ content' = [content EXCEPT ![t] = dir[t][name[t]]]

\* Mutation: get reads any file it finds in its directory.
ReadAnyFile(t) ==
  IF \A f \in FileNames : dir[t][f] = Nobody
    THEN outcome' = [outcome EXCEPT ![t] = "missing"] /\ UNCHANGED content
    ELSE /\ outcome' = [outcome EXCEPT ![t] = "ok"]
         /\ \E f \in FileNames :
              dir[t][f] # Nobody /\ content' = [content EXCEPT ![t] = dir[t][f]]

\* The command's run() said ok: get reads the file from its own directory.
Read(t) ==
  IF dir[t][name[t]] = Nobody
    THEN outcome' = [outcome EXCEPT ![t] = "missing"] /\ UNCHANGED content
    ELSE /\ outcome' = [outcome EXCEPT ![t] = "ok"]
         /\ content' = [content EXCEPT ![t] = dir[t][name[t]]]

\* The await is over; server and directory are closed on every path, and nothing
\* puts the authorizer back.  run() says ok when qm ran the guest's command, be
\* that command's own exit code zero or not, and put looks no further.  It may
\* also say not ok, or time out, or be cancelled, at any moment.
Finish(t) ==
  /\ pc[t] = "serving"
  /\ \/ /\ guest[t] \in {"ok", "failed"}
        /\ kind[t] = "get"
        /\ Read(t)
     \/ /\ guest[t] \in {"ok", "failed"}
        /\ kind[t] = "put"
        /\ outcome' = [outcome EXCEPT ![t] = "ok"]
        /\ UNCHANGED content
     \/ /\ outcome' = [outcome EXCEPT ![t] = "failed"]
        /\ UNCHANGED content
  /\ pc' = [pc EXCEPT ![t] = "over"]
  /\ dir' = [dir EXCEPT ![t] = EmptyDir]
  /\ UNCHANGED <<kind, name, authorizer, guest, home, overlap>>

Next ==
  \E t \in Transfers :
    Begin(t) \/ Login(t) \/ Store(t) \/ Fetch(t) \/ GuestFails(t) \/ Finish(t)

Spec == Init /\ [][Next]_vars

--------------------------------------------------------------------------------
\* A transfer that no other overlapped moves its own file or none, and its caller
\* is never told that a file the guest did store is missing, whatever transfers
\* came before it and left in the shared authorizer (ftp_server.py 24-49).
AloneIsRight ==
  \A t \in Transfers :
    ~overlap[t] =>
      /\ content[t] \in {t, Nobody}
      /\ kind[t] = "get" /\ outcome[t] = "ok" => content[t] = t
      /\ guest[t] = "ok" => outcome[t] # "missing"

\* Transfers of files with different names never exchange content, overlapping or
\* not: a file may end up in the wrong directory, but nobody asks for it there
\* (proxmox.py 274-287, 297-315: the name is part of every path).
OnlyNamesakesMix ==
  \A t \in Transfers :
    \/ content[t] \in {t, Nobody}
    \/ \E u \in Transfers \ {t} : name[u] = name[t] /\ content[t] = u
================================================================================
