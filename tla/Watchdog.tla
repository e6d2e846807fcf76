-------------------------------- MODULE Watchdog -------------------------------
(***************************************************************************)
(* The watchdog (analysis_tools.py): a listener in the server's own event   *)
(* loop that reads one HTTP request per connection and turns a POST to      *)
(* /trigger into a notification.  A connection's client sends the items of   *)
(* its request one by one and may close at any time; its handler is a task   *)
(* that gives the loop back only where it waits.                            *)
(***************************************************************************)
EXTENDS Integers, Sequences

CONSTANTS
  Clients,
  Requests,  \* what clients may mean to send: sequences of items
  MaxStarts  \* bound: calls of vm_watchdog_start

\* Items: the request line "trigger" (POST /trigger), "other", or "garbage", which is no text,
\* too long for the reader or does not split in three; "header"; "length", a Content-Length
\* above zero; "badlength", one that is no number, or a line too long for the reader; "blank",
\* the line that ends the headers; "body", as long as announced; "badbody", as long, but not
\* UTF-8.
Items == {"trigger", "other", "garbage", "header", "length", "badlength", "blank", "body",
          "badbody"}

\* A request as its client means to send it: nothing follows its headers but, if they
\* announce one, its body.
Meant(q) ==
  \A i \in DOMAIN q :
    q[i] = "blank" =>
      IF \E j \in 1..(i - 1) : q[j] = "length"
      THEN Len(q) = i + 1 /\ q[i + 1] \in {"body", "badbody"}
      ELSE Len(q) = i

ASSUME WatchdogAssumption ==
  /\ Requests \subseteq Seq(Items) /\ \A q \in Requests : Meant(q)
  /\ MaxStarts \in Nat

VARIABLES
  starts,    \* calls of vm_watchdog_start
  binding,   \* listeners that do not have the port yet
  listening, \* a listener has it
  request,   \* request[c]: what client c means to send, once connected
  sent,      \* sent[c]: how many items of it have arrived
  closed,    \* closed[c]: the client has closed its side
  at,        \* at[c]: where the handler of its connection is
  read,      \* read[c]: how many items the handler has read
  length,    \* length[c]: the handler expects a body
  answer,    \* answer[c]: the status the handler has written
  notified,  \* notified[c]: notifications made for the connection
  spinning   \* a handler runs without ever giving the loop back

vars == <<starts, binding, listening, request, sent, closed, at, read, length, answer,
          notified, spinning>>
client == <<request, sent, closed>>
server == <<starts, binding, listening>>

Phases == {"none", "request", "headers", "body", "notifying", "drain", "closed", "raised"}

TypeOK ==
  /\ starts \in 0..MaxStarts
  /\ binding \in 0..starts
  /\ listening \in BOOLEAN
  /\ request \in [Clients -> Requests \cup {<<>>}]
  /\ \A c \in Clients : sent[c] \in 0..Len(request[c]) /\ read[c] \in 0..sent[c]
  /\ closed \in [Clients -> BOOLEAN]
  /\ at \in [Clients -> Phases]
  /\ length \in [Clients -> BOOLEAN]
  /\ answer \in [Clients -> {0, 200, 404}]
  /\ notified \in [Clients -> Nat]
  /\ spinning \in BOOLEAN

Init ==
  /\ starts = 0
  /\ binding = 0
  /\ listening = FALSE
  /\ request = [c \in Clients |-> <<>>]
  /\ sent = [c \in Clients |-> 0]
  /\ closed = [c \in Clients |-> FALSE]
  /\ at = [c \in Clients |-> "none"]
  /\ read = [c \in Clients |-> 0]
  /\ length = [c \in Clients |-> FALSE]
  /\ answer = [c \in Clients |-> 0]
  /\ notified = [c \in Clients |-> 0]
  /\ spinning = FALSE

--------------------------------------------------------------------------------
\* vm_watchdog_start: makes a task and reports that it is fine.
vm_watchdog_start ==
  /\ ~spinning
  /\ starts < MaxStarts
  /\ starts' = starts + 1
  /\ binding' = binding + 1
  /\ UNCHANGED <<listening, client, at, read, length, answer, notified, spinning>>

\* start_watchdog_server: the task gets the port, or ends with an error nobody sees.
start_watchdog_server ==
  /\ ~spinning
  /\ binding > 0
  /\ binding' = binding - 1
  /\ listening' \in {listening, TRUE}
  /\ UNCHANGED <<starts, client, at, read, length, answer, notified, spinning>>

\* A client connects.
Connect(c) ==
  /\ listening /\ ~spinning
  /\ at[c] = "none"
  /\ at' = [at EXCEPT ![c] = "request"]
  /\ request' \in {[request EXCEPT ![c] = q] : q \in Requests}
  /\ UNCHANGED <<server, sent, closed, read, length, answer, notified, spinning>>

\* The next item of its request arrives.
Deliver(c) ==
  /\ at[c] # "none" /\ ~closed[c]
  /\ sent[c] < Len(request[c])
  /\ sent' = [sent EXCEPT ![c] = @ + 1]
  /\ UNCHANGED <<server, request, closed, at, read, length, answer, notified, spinning>>

\* It closes its side.
Close(c) ==
  /\ at[c] # "none" /\ ~closed[c]
  /\ closed' = [closed EXCEPT ![c] = TRUE]
  /\ UNCHANGED <<server, request, sent, at, read, length, answer, notified, spinning>>

--------------------------------------------------------------------------------
Unread(c) == read[c] < sent[c]
Item(c) == request[c][read[c] + 1]
AtEnd(c) == closed[c] /\ ~Unread(c)

\* The handler goes on from one await to the next.
Goes(c, phase) ==
  /\ ~spinning
  /\ at' = [at EXCEPT ![c] = phase]
  /\ UNCHANGED <<server, client>>

Reads(c) == Unread(c) /\ read' = [read EXCEPT ![c] = @ + 1]

\* The request line: nothing at all, three words, or something else, which is an error.
ReadRequest(c) ==
  /\ at[c] = "request"
  /\ UNCHANGED <<length, answer, notified, spinning>>
  /\ \/ AtEnd(c) /\ Goes(c, "closed") /\ UNCHANGED read
     \/ /\ Reads(c)
        /\ Goes(c, IF Item(c) \in {"trigger", "other"} THEN "headers" ELSE "raised")

\* A handler that has the whole request: a POST to /trigger, or a request it does not know
Decide(c) ==
  \/ /\ request[c][1] = "trigger"
     /\ Goes(c, "notifying")
     /\ UNCHANGED answer
  \/ /\ request[c][1] # "trigger"
     /\ Goes(c, "drain")
     /\ answer' = [answer EXCEPT ![c] = 404]

\* Mutation: the end of the headers is missed.
ReadHeaderPastBlank(c) ==
  /\ at[c] = "headers"
  /\ UNCHANGED <<notified, answer>>
  /\ \/ AtEnd(c) /\ Goes(c, "headers") /\ spinning' = FALSE /\ UNCHANGED <<read, length>>
     \/ /\ Reads(c)
        /\ Goes(c, IF Item(c) = "badlength" THEN "raised" ELSE "headers")
        /\ length' = IF Item(c) = "length" THEN [length EXCEPT ![c] = TRUE] ELSE length
        /\ UNCHANGED spinning

\* A line of the headers.  At the end of the input the line is empty, which is not the line
\* that ends the headers, and reading the next one does not wait: the handler never gives
\* the loop back.
ReadHeader(c) ==
  /\ at[c] = "headers"
  /\ UNCHANGED notified
  /\ \/ /\ AtEnd(c)
        /\ Goes(c, "headers")
        /\ spinning' = TRUE
        /\ UNCHANGED <<read, length, answer>>
     \/ /\ Reads(c)
        /\ length' = IF Item(c) = "length" THEN [length EXCEPT ![c] = TRUE] ELSE length
        /\ UNCHANGED spinning
        /\ \/ Item(c) = "blank" /\ length[c] /\ Goes(c, "body") /\ UNCHANGED answer
           \/ Item(c) = "blank" /\ ~length[c] /\ Decide(c)
           \/ Item(c) = "badlength" /\ Goes(c, "raised") /\ UNCHANGED answer
           \/ Item(c) \notin {"blank", "badlength"} /\ Goes(c, "headers") /\ UNCHANGED answer

\* Mutation: what there is of the body is taken for all of it.
ReadBodyPart(c) ==
  /\ at[c] = "body"
  /\ UNCHANGED <<length, notified, spinning>>
  /\ Unread(c) \/ AtEnd(c)
  /\ read' = IF Unread(c) THEN [read EXCEPT ![c] = @ + 1] ELSE read
  /\ Decide(c)

\* The body, in full; it is an error if the input ends before that, or if the body is no
\* text: then the handler ends with neither a notification nor an answer.
ReadBody(c) ==
  /\ at[c] = "body"
  /\ UNCHANGED <<length, notified, spinning>>
  /\ \/ AtEnd(c) /\ Goes(c, "raised") /\ UNCHANGED <<read, answer>>
     \/ Reads(c) /\ Item(c) = "badbody" /\ Goes(c, "raised") /\ UNCHANGED answer
     \/ Reads(c) /\ Item(c) # "badbody" /\ Decide(c)

\* admin_notify is over: the notification may have been made, or there is no key for it,
\* and whatever it says the answer is 200; or it raises (no process for its command, a
\* complaint of curl's that is no text), and there is no answer.
Notified(c) ==
  /\ at[c] = "notifying"
  /\ \/ Goes(c, "drain") /\ answer' = [answer EXCEPT ![c] = 200]
     \/ Goes(c, "raised") /\ UNCHANGED answer
  /\ notified' \in {notified, [notified EXCEPT ![c] = @ + 1]}
  /\ UNCHANGED <<read, length, spinning>>

\* The answer is flushed, or the connection turns out to be lost.
Drained(c) ==
  /\ at[c] = "drain"
  /\ \E phase \in {"closed"} \cup IF closed[c] THEN {"raised"} ELSE {} : Goes(c, phase)
  /\ UNCHANGED <<read, length, answer, notified, spinning>>

Handle(c) == ReadRequest(c) \/ ReadHeader(c) \/ ReadBody(c) \/ Drained(c)

Next ==
  \/ vm_watchdog_start \/ start_watchdog_server
  \/ \E c \in Clients : Connect(c) \/ Deliver(c) \/ Close(c) \/ Handle(c) \/ Notified(c)

\* The loop gets round to every handler that can go on.  Nothing makes a client send, and
\* nothing makes the program that sends notifications end: it is run without a deadline.
Fairness == \A c \in Clients : WF_vars(Handle(c))
Spec == Init /\ [][Next]_vars /\ Fairness

--------------------------------------------------------------------------------
\* The request has arrived, every item of it can be read, and its body, if any, is text.
Whole(c) ==
  /\ sent[c] = Len(request[c]) /\ sent[c] > 0
  /\ request[c][1] \in {"trigger", "other"}
  /\ \E i \in 1..Len(request[c]) : request[c][i] = "blank"
  /\ \A i \in 1..Len(request[c]) : request[c][i] # "badlength"
  /\ (\E i \in 1..Len(request[c]) : request[c][i] = "length") =>
       request[c][Len(request[c])] = "body"

\* A notification is made once, and only for a POST to /trigger that has arrived in full,
\* its body included, and can be read; and only such a one is answered with 200.
\* (analysis_tools.py 153-186)
OnlyWholeTriggersCount ==
  \A c \in Clients :
    /\ notified[c] <= 1
    /\ notified[c] > 0 \/ answer[c] = 200 => request[c][1] = "trigger" /\ Whole(c)

\* A request that has arrived in full and can be read is answered, or reaches its
\* notification, which may hang or raise, unless a handler spins: then the loop, and the
\* whole server with it, stands still.
\* (analysis_tools.py 160-186)
WholeRequestsProceed ==
  \A c \in Clients :
    Whole(c) /\ at[c] \in {"request", "headers", "body"} ~>
      (answer[c] # 0 \/ at[c] = "notifying" \/ spinning)
================================================================================
