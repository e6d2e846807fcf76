----------------------------- MODULE WatchdogProofs ----------------------------
(***************************************************************************)
(* The safety of the watchdog's handler for any number of clients, any      *)
(* requests and any way they arrive.  OnlyWholeTriggersCount looks at the    *)
(* end of a connection; the invariant says what the handler knows of the    *)
(* request at each of its awaits.                                           *)
(***************************************************************************)
EXTENDS Watchdog, TLAPS

\* What has been read of a request whose headers are being read, or have been.
HeadersRead(c) ==
  /\ read[c] >= 1
  /\ request[c][1] \in {"trigger", "other"}
  /\ \A i \in 1..read[c] : request[c][i] # "badlength"
  /\ length[c] <=> \E i \in 1..read[c] : request[c][i] = "length"

Untold(c) == notified[c] = 0 /\ answer[c] = 0

ClientInv(c) ==
  /\ at[c] = "none" => request[c] = <<>> /\ read[c] = 0 /\ ~length[c]
  /\ at[c] = "request" => read[c] = 0 /\ ~length[c]
  /\ at[c] = "headers" =>
       HeadersRead(c) /\ \A i \in 1..read[c] : request[c][i] # "blank"
  /\ at[c] = "body" => HeadersRead(c) /\ length[c] /\ request[c][read[c]] = "blank"
  /\ at[c] = "notifying" => Whole(c) /\ request[c][1] = "trigger"
  /\ at[c] \in {"none", "request", "headers", "body", "notifying"} => Untold(c)
  /\ notified[c] <= 1
  /\ notified[c] > 0 \/ answer[c] = 200 => request[c][1] = "trigger" /\ Whole(c)

\* The types of the variables that are functions of a client
ClientTypes ==
  /\ request \in [Clients -> Requests \cup {<<>>}]
  /\ sent \in [Clients -> Nat]
  /\ read \in [Clients -> Nat]
  /\ \A c \in Clients : sent[c] <= Len(request[c]) /\ read[c] <= sent[c]
  /\ closed \in [Clients -> BOOLEAN]
  /\ at \in [Clients -> Phases]
  /\ length \in [Clients -> BOOLEAN]
  /\ answer \in [Clients -> {0, 200, 404}]
  /\ notified \in [Clients -> Nat]

ServerTypes == starts \in 0..MaxStarts /\ binding \in 0..starts

WInv == ServerTypes /\ ClientTypes /\ \A c \in Clients : ClientInv(c)

--------------------------------------------------------------------------------
\* What a client means to send is a sequence of items, in the order Meant says.
LEMMA RequestIsMeant ==
  ASSUME ClientTypes, NEW c \in Clients
  PROVE  request[c] \in Seq(Items) /\ Meant(request[c])
<1>1. <<>> \in Seq(Items) /\ Meant(<<>>)
  BY DEF Meant
<1>2. request[c] \in Requests \cup {<<>>}
  BY DEF ClientTypes
<1>3. CASE request[c] \in Requests
  BY <1>3, WatchdogAssumption
<1> QED
  BY <1>1, <1>2, <1>3

\* The items that have been read are items of the request (analysis_tools.py 162).
LEMMA NextItem ==
  ASSUME ClientTypes, NEW c \in Clients, Unread(c)
  PROVE  /\ read[c] + 1 \in 1..Len(request[c]) /\ Item(c) \in Items
         /\ read[c] + 1 <= sent[c] /\ sent[c] <= Len(request[c])
BY RequestIsMeant DEF ClientTypes, Unread, Item

LEMMA InitKeeps == Init => WInv
<1> SUFFICES ASSUME Init PROVE WInv
  OBVIOUS
<1>1. ServerTypes
  BY WatchdogAssumption DEF Init, ServerTypes
<1>2. ClientTypes
  BY DEF Init, ClientTypes, Phases
<1>3. ASSUME NEW c \in Clients PROVE ClientInv(c)
  BY DEF Init, ClientInv, Untold
<1> QED
  BY <1>1, <1>2, <1>3 DEF WInv

\* The listener's steps and the clients' keep the types of the listener's variables, and so
\* do the handlers'.
LEMMA ServerTypesStep ==
  ASSUME WInv, [Next]_vars
  PROVE  ServerTypes'
<1>0. ServerTypes
  BY DEF WInv
<1>1. CASE vm_watchdog_start
  BY <1>0, <1>1, WatchdogAssumption DEF vm_watchdog_start, ServerTypes
<1>2. CASE start_watchdog_server
  BY <1>0, <1>2, WatchdogAssumption DEF start_watchdog_server, ServerTypes
<1>3. ASSUME NEW c \in Clients, Connect(c) \/ Deliver(c) \/ Close(c) \/ Notified(c)
      PROVE  ServerTypes'
  BY <1>0, <1>3 DEF Connect, Deliver, Close, Notified, Goes, server, ServerTypes
<1>4. ASSUME NEW c \in Clients, Handle(c) PROVE ServerTypes'
  BY <1>0, <1>4
     DEF Handle, ReadRequest, ReadHeader, ReadBody, Decide, Drained, Goes, server, ServerTypes
<1>5. CASE UNCHANGED vars
  BY <1>0, <1>5 DEF vars, ServerTypes
<1> QED
  BY <1>1, <1>2, <1>3, <1>4, <1>5 DEF Next

\* A handler goes on to the next await, keeping the types.
LEMMA HandlerTypes ==
  ASSUME ClientTypes, NEW c \in Clients,
         UNCHANGED client,
         NEW phase \in Phases, at' = [at EXCEPT ![c] = phase],
         read' = read \/ Reads(c),
         length' \in [Clients -> BOOLEAN],
         answer' \in [Clients -> {0, 200, 404}],
         notified' \in [Clients -> Nat]
  PROVE  ClientTypes'
<1>0. read \in [Clients -> Nat] /\ sent \in [Clients -> Nat] /\ \A d \in Clients : read[d] <= sent[d]
  BY DEF ClientTypes
<1>1. read' \in [Clients -> Nat] /\ \A d \in Clients : read'[d] <= sent[d]
  <2>1. CASE read' = read
    BY <1>0, <2>1
  <2>2. CASE Reads(c)
    <3>1. read[c] < sent[c] /\ read' = [read EXCEPT ![c] = read[c] + 1]
      BY <2>2 DEF Reads, Unread
    <3> QED
      BY <1>0, <3>1
  <2> QED
    BY <2>1, <2>2
<1>2. request' = request /\ sent' = sent /\ closed' = closed
  BY DEF client
<1>3. at' \in [Clients -> Phases]
  BY DEF ClientTypes
<1> QED
  BY <1>1, <1>2, <1>3 DEF ClientTypes

LEMMA ClientTypesStep ==
  ASSUME WInv, [Next]_vars
  PROVE  ClientTypes'
<1>0. ClientTypes
  BY DEF WInv
<1>1. CASE vm_watchdog_start \/ start_watchdog_server \/ UNCHANGED vars
  <2>1. /\ request' = request /\ sent' = sent /\ closed' = closed /\ at' = at /\ read' = read
        /\ length' = length /\ answer' = answer /\ notified' = notified
    BY <1>1 DEF vm_watchdog_start, start_watchdog_server, vars, client
  <2> QED
    BY <1>0, <2>1 DEF ClientTypes
<1>2. ASSUME NEW c \in Clients, Connect(c) PROVE ClientTypes'
  <2>1. request[c] = <<>> /\ sent[c] = 0 /\ read[c] = 0
    BY <1>0, <1>2 DEF WInv, ClientInv, Connect, ClientTypes
  <2>2. PICK q \in Requests : request' = [request EXCEPT ![c] = q]
    BY <1>2 DEF Connect
  <2>3. Len(q) \in Nat
    BY WatchdogAssumption
  <2>4. at' \in [Clients -> Phases]
    BY <1>0, <1>2 DEF Connect, ClientTypes, Phases
  <2>5. sent' = sent /\ read' = read
        /\ closed' = closed /\ length' = length /\ answer' = answer /\ notified' = notified
    BY <1>2 DEF Connect
  <2>6. request' \in [Clients -> Requests \cup {<<>>}] /\ Len(<<>>) = 0
    BY <1>0, <2>2 DEF ClientTypes
  <2>7. ASSUME NEW d \in Clients PROVE sent[d] <= Len(request'[d]) /\ read[d] <= sent[d]
    <3>1. CASE d = c
      BY <1>0, <2>1, <2>2, <2>3, <3>1 DEF ClientTypes
    <3>2. CASE d # c
      BY <1>0, <2>2, <3>2 DEF ClientTypes
    <3> QED
      BY <3>1, <3>2
  <2> QED
    BY <1>0, <2>4, <2>5, <2>6, <2>7 DEF ClientTypes
<1>3. ASSUME NEW c \in Clients, Deliver(c) \/ Close(c) PROVE ClientTypes'
  <2>1. Len(request[c]) \in Nat
    BY <1>0, RequestIsMeant
  <2>2. CASE Deliver(c)
    <3>1. /\ request' = request /\ closed' = closed /\ at' = at /\ read' = read
          /\ length' = length /\ answer' = answer /\ notified' = notified
          /\ sent' = [sent EXCEPT ![c] = sent[c] + 1] /\ sent[c] < Len(request[c])
      BY <2>2 DEF Deliver
    <3>2. /\ sent' \in [Clients -> Nat]
          /\ \A d \in Clients : sent'[d] <= Len(request[d]) /\ read[d] <= sent'[d]
      BY <1>0, <2>1, <3>1 DEF ClientTypes
    <3> QED
      BY <1>0, <3>1, <3>2 DEF ClientTypes
  <2>3. CASE Close(c)
    BY <1>0, <2>3 DEF Close, ClientTypes
  <2> QED
    BY <1>3, <2>2, <2>3
<1>4. ASSUME NEW c \in Clients, ReadRequest(c) PROVE ClientTypes'
  <2>1. CASE Goes(c, "closed") /\ UNCHANGED read
    BY <1>0, <1>4, <2>1, HandlerTypes DEF ReadRequest, Goes, ClientTypes, Phases
  <2>2. CASE Reads(c) /\ Goes(c, "headers")
    BY <1>0, <1>4, <2>2, HandlerTypes DEF ReadRequest, Goes, ClientTypes, Phases
  <2>3. CASE Reads(c) /\ Goes(c, "raised")
    BY <1>0, <1>4, <2>3, HandlerTypes DEF ReadRequest, Goes, ClientTypes, Phases
  <2> QED
    BY <1>4, <2>1, <2>2, <2>3 DEF ReadRequest
<1>5. ASSUME NEW c \in Clients, ReadHeader(c) PROVE ClientTypes'
  <2>1. length' \in [Clients -> BOOLEAN] /\ answer' \in [Clients -> {0, 200, 404}]
    <3>1. length' = length \/ length' = [length EXCEPT ![c] = TRUE]
      BY <1>5 DEF ReadHeader
    <3>2. answer' = answer \/ answer' = [answer EXCEPT ![c] = 404]
      BY <1>5 DEF ReadHeader, Decide
    <3>3. answer \in [Clients -> {0, 200, 404}] /\ length \in [Clients -> BOOLEAN]
          /\ notified \in [Clients -> Nat]
      BY <1>0 DEF ClientTypes
    <3>4. length' \in [Clients -> BOOLEAN]
      BY <3>1, <3>3
    <3>5. answer' \in [Clients -> {0, 200, 404}]
      BY <3>2, <3>3
    <3> QED
      BY <3>4, <3>5
  <2>2. PICK phase \in Phases : Goes(c, phase)
    BY <1>5 DEF ReadHeader, Decide, Phases
  <2> QED
    BY <1>0, <1>5, <2>1, <2>2, HandlerTypes DEF ReadHeader, Decide, Goes, ClientTypes
<1>6. ASSUME NEW c \in Clients, ReadBody(c) PROVE ClientTypes'
  <2>1. answer' \in [Clients -> {0, 200, 404}]
    <3>1. answer' = answer \/ answer' = [answer EXCEPT ![c] = 404]
      BY <1>6 DEF ReadBody, Decide
    <3>2. answer \in [Clients -> {0, 200, 404}]
      BY <1>0 DEF ClientTypes
    <3> QED
      BY <3>1, <3>2
  <2>2. PICK phase \in Phases : Goes(c, phase)
    BY <1>6 DEF ReadBody, Decide, Phases
  <2> QED
    BY <1>0, <1>6, <2>1, <2>2, HandlerTypes DEF ReadBody, Decide, Goes, ClientTypes
<1>7. ASSUME NEW c \in Clients, Notified(c) \/ Drained(c) PROVE ClientTypes'
  <2>1. answer' \in [Clients -> {0, 200, 404}] /\ notified' \in [Clients -> Nat]
    <3>1. answer' = answer \/ answer' = [answer EXCEPT ![c] = 200]
      BY <1>7 DEF Notified, Drained
    <3>2. notified' = notified \/ notified' = [notified EXCEPT ![c] = @ + 1]
      BY <1>7 DEF Notified, Drained
    <3>3. answer \in [Clients -> {0, 200, 404}] /\ length \in [Clients -> BOOLEAN]
          /\ notified \in [Clients -> Nat]
      BY <1>0 DEF ClientTypes
    <3> QED
      BY <3>1, <3>2, <3>3
  <2>2. PICK phase \in Phases : Goes(c, phase)
    BY <1>7 DEF Notified, Drained, Phases
  <2> QED
    BY <1>0, <1>7, <2>1, <2>2, HandlerTypes DEF Notified, Drained, Goes, ClientTypes, client
<1> QED
  BY <1>1, <1>2, <1>3, <1>4, <1>5, <1>6, <1>7 DEF Next, Handle
--------------------------------------------------------------------------------
\* What a client's step does not touch of another one.
LEMMA OthersUntouched ==
  ASSUME WInv, NEW c \in Clients, NEW d \in Clients, c # d,
         Connect(c) \/ Deliver(c) \/ Close(c) \/ Handle(c) \/ Notified(c)
  PROVE  /\ request'[d] = request[d] /\ sent'[d] = sent[d] /\ at'[d] = at[d]
         /\ read'[d] = read[d] /\ length'[d] = length[d]
         /\ answer'[d] = answer[d] /\ notified'[d] = notified[d]
<1>0. ClientTypes
  BY DEF WInv
<1>1. CASE Connect(c)
  BY <1>0, <1>1 DEF Connect, ClientTypes
<1>2. CASE Deliver(c) \/ Close(c)
  BY <1>0, <1>2 DEF Deliver, Close, ClientTypes
<1>3. CASE ReadRequest(c)
  BY <1>0, <1>3 DEF ReadRequest, Reads, Goes, client, ClientTypes
<1>4. CASE ReadHeader(c)
  <2>1. request' = request /\ sent' = sent /\ at'[d] = at[d] /\ notified' = notified
    BY <1>0, <1>4 DEF ReadHeader, Decide, Goes, client, ClientTypes
  <2>2. read'[d] = read[d]
    BY <1>0, <1>4 DEF ReadHeader, Reads, ClientTypes
  <2>3. length'[d] = length[d] /\ answer'[d] = answer[d]
    BY <1>0, <1>4 DEF ReadHeader, Decide, ClientTypes
  <2> QED
    BY <2>1, <2>2, <2>3
<1>5. CASE ReadBody(c)
  <2>1. /\ request' = request /\ sent' = sent /\ at'[d] = at[d] /\ notified' = notified
        /\ length' = length
    BY <1>0, <1>5 DEF ReadBody, Decide, Goes, client, ClientTypes
  <2>2. read'[d] = read[d]
    BY <1>0, <1>5 DEF ReadBody, Reads, ClientTypes, Decide
  <2>3. answer'[d] = answer[d]
    BY <1>0, <1>5 DEF ReadBody, Decide, ClientTypes
  <2> QED
    BY <2>1, <2>2, <2>3
<1>6. CASE Notified(c) \/ Drained(c)
  <2>1. /\ request' = request /\ sent' = sent /\ at'[d] = at[d] /\ read' = read /\ length' = length
    BY <1>0, <1>6 DEF Notified, Drained, Goes, client, ClientTypes
  <2>2. answer'[d] = answer[d]
    BY <1>0, <1>6 DEF Notified, Drained, ClientTypes
  <2>3. notified'[d] = notified[d]
    BY <1>0, <1>6 DEF Notified, Drained, ClientTypes
  <2> QED
    BY <2>1, <2>2, <2>3
<1> QED
  BY <1>1, <1>2, <1>3, <1>4, <1>5, <1>6 DEF Handle

LEMMA SameClient ==
  ASSUME NEW d \in Clients, ClientInv(d),
         request'[d] = request[d], sent'[d] = sent[d], at'[d] = at[d], read'[d] = read[d],
         length'[d] = length[d], answer'[d] = answer[d], notified'[d] = notified[d]
  PROVE  ClientInv(d)'
BY DEF ClientInv, HeadersRead, Untold, Whole

\* A request whose headers end with the item that is read next, and announce no body, has
\* arrived in full (analysis_tools.py 162-173).
LEMMA WholeWithoutBody ==
  ASSUME ClientTypes, NEW c \in Clients, Unread(c), HeadersRead(c), ~length[c], Item(c) = "blank"
  PROVE  Whole(c)
<1> DEFINE q == request[c]
           n == read[c] + 1
<1>1. q \in Seq(Items) /\ Meant(q) /\ n \in 1..Len(q) /\ q[n] = "blank" /\ n <= sent[c] /\ sent[c] <= Len(q)
  BY RequestIsMeant, NextItem DEF Item
<1>2. read[c] \in Nat /\ sent[c] \in Nat
  BY DEF ClientTypes
<1>3. \A i \in 1..(n - 1) : q[i] # "badlength" /\ q[i] # "length"
  BY <1>2 DEF HeadersRead
<1>4. Len(q) = n
  BY <1>1, <1>2, <1>3 DEF Meant
<1>5. \A i \in 1..Len(q) : q[i] # "badlength" /\ q[i] # "length"
  BY <1>1, <1>2, <1>3, <1>4
<1> HIDE DEF n
<1>6. sent[c] = Len(q) /\ sent[c] > 0
  BY <1>1, <1>2, <1>4
<1> QED
  BY <1>1, <1>5, <1>6 DEF Whole, HeadersRead

\* A request whose body is the item read next, and is text, has arrived in full (analysis_tools.py 169-171).
LEMMA WholeWithBody ==
  ASSUME ClientTypes, NEW c \in Clients, Unread(c), HeadersRead(c), length[c],
         request[c][read[c]] = "blank", Item(c) # "badbody"
  PROVE  Whole(c)
<1> DEFINE q == request[c]
           n == read[c]
<1>1. /\ q \in Seq(Items) /\ Meant(q) /\ n + 1 \in 1..Len(q) /\ q[n] = "blank"
      /\ n + 1 <= sent[c] /\ sent[c] <= Len(q) /\ n \in Nat /\ sent[c] \in Nat /\ n >= 1
  BY RequestIsMeant, NextItem DEF ClientTypes, HeadersRead
<1>2. PICK j \in 1..n : q[j] = "length"
  BY DEF HeadersRead
<1>3. j \in 1..(n - 1)
  BY <1>1, <1>2
<1>4. Len(q) = n + 1 /\ q[n + 1] = "body"
  <2>1. n \in DOMAIN q /\ \E i \in 1..(n - 1) : q[i] = "length"
    BY <1>1, <1>2, <1>3
  <2> QED
    BY <1>1, <2>1 DEF Meant, Item
<1>5. \A i \in 1..Len(q) : q[i] # "badlength"
  <2>1. \A i \in 1..n : q[i] # "badlength"
    BY DEF HeadersRead
  <2> QED
    BY <1>1, <1>4, <2>1
<1> HIDE DEF n
<1>6. sent[c] = Len(q) /\ sent[c] > 0 /\ q[Len(q)] = "body"
  BY <1>1, <1>4
<1>7. \E i \in 1..Len(q) : q[i] = "blank"
  BY <1>1
<1> QED
  BY <1>5, <1>6, <1>7 DEF Whole, HeadersRead
--------------------------------------------------------------------------------
\* A connection's own step keeps what the handler knows of its request.
LEMMA OwnStep ==
  ASSUME WInv, NEW c \in Clients,
         Connect(c) \/ Deliver(c) \/ Close(c) \/ Handle(c) \/ Notified(c)
  PROVE  ClientInv(c)'
<1>0. ClientTypes /\ ClientInv(c)
  BY DEF WInv
<1>t. /\ at[c] \in Phases /\ read[c] \in Nat /\ sent[c] \in Nat /\ notified[c] \in Nat
      /\ answer[c] \in {0, 200, 404}
  BY <1>0 DEF ClientTypes
<1>1. CASE Connect(c)
  BY <1>0, <1>1 DEF Connect, ClientInv, ClientTypes, Untold
<1>2. CASE Deliver(c)
  <2>1. /\ request' = request /\ at' = at /\ read' = read /\ length' = length
        /\ answer' = answer /\ notified' = notified /\ ~Whole(c)
    BY <1>2 DEF Deliver, Whole
  <2> QED
    BY <1>0, <2>1 DEF ClientInv, HeadersRead, Untold
<1>3. CASE Close(c)
  BY <1>0, <1>3 DEF Close, ClientInv, HeadersRead, Untold, Whole
<1>4. CASE ReadRequest(c)
  <2>1. /\ request' = request /\ sent' = sent /\ length' = length
        /\ answer' = answer /\ notified' = notified /\ at[c] = "request"
        /\ read[c] = 0 /\ ~length[c] /\ Untold(c)
    BY <1>0, <1>4 DEF ReadRequest, ClientInv, Goes, client
  <2>2. CASE at'[c] \in {"closed", "raised"}
    BY <2>1, <2>2 DEF ClientInv, Untold
  <2>3. CASE Reads(c) /\ at'[c] = "headers"
    <3>1. Item(c) \in {"trigger", "other"} /\ Item(c) = request[c][1] /\ read'[c] = 1
      BY <1>0, <1>4, <2>1, <2>3 DEF ReadRequest, Goes, Reads, Unread, Item, AtEnd, ClientTypes
    <3>2. 1..read'[c] = {1}
      BY <3>1
    <3>3. HeadersRead(c)' /\ \A i \in 1..read'[c] : request'[c][i] # "blank"
      BY <2>1, <3>1, <3>2 DEF HeadersRead
    <3> QED
      BY <2>1, <2>3, <3>3 DEF ClientInv, Untold
  <2> QED
    BY <1>0, <1>4, <2>2, <2>3 DEF ReadRequest, Goes, ClientTypes
<1>5. CASE ReadHeader(c)
  <2>1. /\ request' = request /\ sent' = sent /\ notified' = notified
        /\ at[c] = "headers" /\ HeadersRead(c) /\ Untold(c)
        /\ \A i \in 1..read[c] : request[c][i] # "blank"
    BY <1>0, <1>5 DEF ReadHeader, ClientInv, Goes, Decide, client
  <2>2. CASE AtEnd(c) /\ Goes(c, "headers") /\ UNCHANGED <<read, length, answer>>
    <3>1. at' = at
      BY <1>0, <2>1, <2>2 DEF Goes, ClientTypes
    <3> QED
      BY <1>0, <2>1, <2>2, <3>1, SameClient
  <2>3. CASE Reads(c)
    <3>1. Unread(c) /\ read'[c] = read[c] + 1 /\ read[c] + 1 >= 1
      BY <1>0, <2>3 DEF Reads, ClientTypes
    <3>2. 1..read'[c] = (1..read[c]) \cup {read[c] + 1} /\ Item(c) = request[c][read[c] + 1]
      BY <1>t, <3>1 DEF Item
    <3>3. ~AtEnd(c)
      BY <3>1 DEF AtEnd
    <3>4. length'[c] <=> length[c] \/ Item(c) = "length"
      BY <1>0, <1>5, <3>3 DEF ReadHeader, ClientTypes
    <3>5. Item(c) # "badlength" => HeadersRead(c)'
      BY <2>1, <3>1, <3>2, <3>4 DEF HeadersRead
    <3>6. CASE Item(c) = "blank" /\ length[c] /\ Goes(c, "body") /\ UNCHANGED answer
      BY <1>0, <2>1, <3>1, <3>2, <3>4, <3>5, <3>6 DEF Goes, ClientInv, ClientTypes, Untold
    <3>7. CASE Item(c) = "blank" /\ ~length[c] /\ Decide(c)
      <4>1. Whole(c) /\ Whole(c)'
        BY <1>0, <2>1, <3>1, <3>7, WholeWithoutBody DEF Whole
      <4>2. CASE request[c][1] = "trigger" /\ at'[c] = "notifying" /\ answer' = answer
        BY <2>1, <4>1, <4>2 DEF ClientInv, Untold
      <4>3. CASE at'[c] = "drain" /\ answer'[c] = 404
        BY <2>1, <4>3 DEF ClientInv, Untold
      <4> QED
        BY <1>0, <3>7, <4>2, <4>3 DEF Decide, Goes, ClientTypes
    <3>8. CASE Goes(c, "raised") /\ UNCHANGED answer
      <4>1. at'[c] = "raised"
        BY <1>0, <3>8 DEF Goes, ClientTypes
      <4> QED
        BY <2>1, <3>8, <4>1 DEF ClientInv, Untold
    <3>9. CASE Item(c) \notin {"blank", "badlength"} /\ Goes(c, "headers") /\ UNCHANGED answer
      <4>1. at'[c] = "headers"
        BY <1>0, <3>9 DEF Goes, ClientTypes
      <4>2. \A i \in 1..read'[c] : request'[c][i] # "blank"
        BY <2>1, <3>2, <3>9
      <4> QED
        BY <2>1, <3>5, <3>9, <4>1, <4>2 DEF ClientInv, Untold
    <3> QED
      BY <1>5, <3>3, <3>6, <3>7, <3>8, <3>9 DEF ReadHeader
  <2> QED
    BY <1>5, <2>2, <2>3 DEF ReadHeader
<1>6. CASE ReadBody(c)
  <2>1. /\ request' = request /\ sent' = sent /\ notified' = notified /\ length' = length
        /\ at[c] = "body" /\ HeadersRead(c) /\ length[c] /\ request[c][read[c]] = "blank"
        /\ Untold(c)
    BY <1>0, <1>6 DEF ReadBody, ClientInv, Goes, Decide, client
  <2>2. CASE Goes(c, "raised") /\ UNCHANGED answer
    <3>1. at'[c] = "raised"
      BY <1>0, <2>2 DEF Goes, ClientTypes
    <3> QED
      BY <2>1, <2>2, <3>1 DEF ClientInv, Untold
  <2>3. CASE Reads(c) /\ Item(c) # "badbody" /\ Decide(c)
    <3>1. Whole(c) /\ Whole(c)'
      BY <1>0, <2>1, <2>3, WholeWithBody DEF Whole, Reads
    <3>2. CASE request[c][1] = "trigger" /\ at'[c] = "notifying" /\ answer' = answer
      BY <2>1, <3>1, <3>2 DEF ClientInv, Untold
    <3>3. CASE at'[c] = "drain" /\ answer'[c] = 404
      BY <2>1, <3>3 DEF ClientInv, Untold
    <3> QED
      BY <1>0, <2>3, <3>2, <3>3 DEF Decide, Goes, ClientTypes
  <2> QED
    BY <1>6, <2>2, <2>3 DEF ReadBody
<1>7. CASE Notified(c)
  <2>1. /\ request' = request /\ sent' = sent /\ Whole(c) /\ request[c][1] = "trigger"
        /\ notified[c] = 0
    BY <1>0, <1>7 DEF Notified, ClientInv, Untold, Goes, client
  <2>2. at'[c] \in {"drain", "raised"} /\ notified'[c] \in {0, 1}
    BY <1>0, <1>7, <2>1 DEF Notified, Goes, ClientTypes
  <2>3. Whole(c)'
    BY <2>1 DEF Whole
  <2> QED
    BY <2>1, <2>2, <2>3 DEF ClientInv
<1>8. CASE Drained(c)
  <2>1. /\ request' = request /\ sent' = sent /\ answer' = answer /\ notified' = notified
        /\ at'[c] \in {"closed", "raised"}
    BY <1>0, <1>8 DEF Drained, Goes, client, ClientTypes
  <2> QED
    BY <1>0, <2>1 DEF ClientInv, Whole
<1> QED
  BY <1>1, <1>2, <1>3, <1>4, <1>5, <1>6, <1>7, <1>8 DEF Handle

LEMMA WInvStep == WInv /\ [Next]_vars => WInv'
<1> SUFFICES ASSUME WInv, [Next]_vars PROVE WInv'
  OBVIOUS
<1>1. ASSUME NEW d \in Clients PROVE ClientInv(d)'
  <2>0. ClientInv(d)
    BY DEF WInv
  <2>1. CASE vm_watchdog_start \/ start_watchdog_server \/ UNCHANGED vars
    BY <2>0, <2>1, SameClient DEF vm_watchdog_start, start_watchdog_server, client, vars
  <2>2. ASSUME NEW c \in Clients,
               Connect(c) \/ Deliver(c) \/ Close(c) \/ Handle(c) \/ Notified(c)
        PROVE  ClientInv(d)'
    <3>1. CASE c = d
      BY <2>2, <3>1, OwnStep
    <3>2. CASE c # d
      BY <2>0, <2>2, <3>2, OthersUntouched, SameClient
    <3> QED
      BY <3>1, <3>2
  <2> QED
    BY <2>1, <2>2 DEF Next
<1> QED
  BY <1>1, ServerTypesStep, ClientTypesStep DEF WInv

--------------------------------------------------------------------------------
\* What the handler of every connection knows of its request, at each of its awaits.
THEOREM WatchdogInvariant == Spec => []WInv
BY InitKeeps, WInvStep, PTL DEF Spec

\* A notification is made once, and only for a POST to /trigger that arrived in full, for
\* any clients and requests (analysis_tools.py 153-186).
THEOREM OnlyWholeTriggers == Spec => []OnlyWholeTriggersCount
<1>1. WInv => OnlyWholeTriggersCount
  BY DEF WInv, ClientInv, OnlyWholeTriggersCount
<1> QED
  BY <1>1, WatchdogInvariant, PTL
================================================================================
