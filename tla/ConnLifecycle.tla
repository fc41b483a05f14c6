---------------------------- MODULE ConnLifecycle ----------------------------
(***************************************************************************)
(* A connection from accept() to the last close(): the Acceptor's thread   *)
(* (Acceptor.cpp) hands each new connection to a Reactor (add_connection), *)
(* the Reactor's thread closes it when the client leaves, when it is idle  *)
(* or when another thread asks for it (close_client, request_close), and   *)
(* NetworkServer::stop ends the Acceptor and one Reactor after the other.  *)
(*                                                                         *)
(* Connections are numbered in the order of their acceptance; descriptor   *)
(* numbers are reused: a new connection gets any free one.                 *)
(* Messages and the registry's virtual ids are left to other modules: a    *)
(* read is one step, and book is sock_to_virtual_.                         *)
(***************************************************************************)
EXTENDS Integers, FiniteSets

CONSTANTS MaxConns,    \* bound: connections accepted
          Socks,       \* descriptor numbers
          NReactors,
          MayIdle,     \* connections that may be silent for a minute
          MayClose,    \* connections a business may ask to close
          MayStop

ASSUME LifeAssumption ==
  /\ MaxConns \in Nat /\ NReactors \in Nat \ {0}
  /\ Socks \in SUBSET Nat /\ IsFiniteSet(Socks) /\ 0 \notin Socks
  /\ MayIdle \subseteq 1 .. MaxConns /\ MayClose \subseteq 1 .. MaxConns /\ MayStop \in BOOLEAN

Conns == 1 .. MaxConns
Reactors == 0 .. NReactors - 1
Nobody == 0

VARIABLES
  \* Internalconnection
  sock, connected, handler,
  \* kernel: who a descriptor number belongs to; the connections registered
  \* with their Reactor's epoll, on its ready list, with unread bytes, whose
  \* client has left
  fd, registered, posted, input, gone,
  \* the registry of open connections, by descriptor number
  book,
  \* Reactors: connections_, pending_close_, the eventfd, running_, the thread
  \* with what epoll_wait returned, what it is closing and where it was
  connections, pending_close, woken, running, loop, fetched, bucket, cur, back,
  \* Acceptor: next_ (the connection being added last), running_, its eventfd
  next, accepting, acc_woken, acc,
  \* a thread of the business calling request_close
  caller, asked,
  \* the thread in NetworkServer::stop and the Reactor it is at
  stage, at,
  \* history: connections read from; an event reached another connection than
  \* its own; close() was called on a descriptor that was not the closer's;
  \* a business asked to close it before its Reactor's table had it
  heard, astray, wrong, early

connVars   == <<sock, connected, handler>>
kernelVars == <<fd, registered, posted, input, gone>>
tableVars  == <<connections, pending_close, woken, running>>
loopVars   == <<loop, fetched, bucket, cur, back>>
accVars    == <<next, accepting, acc_woken, acc>>
otherVars  == <<caller, asked, stage, at>>
histVars   == <<heard, astray, wrong, early>>
vars == <<connVars, kernelVars, book, tableVars, loopVars, accVars, otherVars, histVars>>

Init ==
  /\ sock = [c \in Conns |-> 0] /\ connected = {} /\ handler = {}
  /\ fd = [s \in Socks |-> Nobody]
  /\ registered = {} /\ posted = {} /\ input = {} /\ gone = {}
  /\ book = [s \in Socks |-> Nobody]
  /\ connections = [r \in Reactors |-> {}] /\ pending_close = [r \in Reactors |-> {}]
  /\ woken = {} /\ running = Reactors
  /\ loop = [r \in Reactors |-> "wait"] /\ fetched = [r \in Reactors |-> {}]
  /\ bucket = [r \in Reactors |-> {}] /\ cur = [r \in Reactors |-> Nobody]
  /\ back = [r \in Reactors |-> "wait"]
  /\ next = 0 /\ accepting = TRUE /\ acc_woken = FALSE /\ acc = "wait"
  /\ caller = Nobody /\ asked = {} /\ stage = "up" /\ at = 0
  /\ heard = {} /\ astray = FALSE /\ wrong = FALSE /\ early = {}

---------------------------------------------------------------------------
\* Round robin, and reactor_conn_id as the Reactor's own count.
Owner(c) == (c - 1) % NReactors
\* Slip: the descriptor number is the event's identity.
Token_Sock(c) == sock[c]
Token(c) == (c - 1) \div NReactors + 1

Open(c) == sock[c] # 0 /\ fd[sock[c]] = c
Free == {s \in Socks : fd[s] = Nobody}
WakeEvents == [tok : {0}, of : {Nobody}]

Loop(r, there) == loop' = [loop EXCEPT ![r] = there]

---------------------------------------------------------------------------
(* The clients.                                                            *)
ClientSends(c) ==
  /\ Open(c) /\ c \notin gone /\ c \notin input /\ c \notin heard
  /\ input' = input \union {c}
  /\ posted' = posted \union ({c} \intersect registered)
  /\ UNCHANGED <<connVars, fd, registered, gone, book, tableVars, loopVars, accVars,
                 otherVars, histVars>>

ClientLeaves(c) ==
  /\ Open(c) /\ c \notin gone
  /\ gone' = gone \union {c}
  /\ posted' = posted \union ({c} \intersect registered)
  /\ UNCHANGED <<connVars, fd, registered, input, book, tableVars, loopVars, accVars,
                 otherVars, histVars>>

---------------------------------------------------------------------------
(* The Acceptor's thread.                                                  *)
\* epoll_wait returns with the listening socket: a client asks for a connection.
ListenEvent ==
  /\ acc = "wait" /\ next < MaxConns
  /\ acc' = "accept"
  /\ UNCHANGED <<connVars, kernelVars, book, tableVars, loopVars, next, accepting, acc_woken,
                 otherVars, histVars>>

\* Back at the head of event_loop.
AccWait == acc' = IF accepting THEN "wait" ELSE "exited"

AccWakeEvent ==
  /\ acc = "wait" /\ acc_woken
  /\ acc_woken' = FALSE /\ AccWait
  /\ UNCHANGED <<connVars, kernelVars, book, tableVars, loopVars, next, accepting,
                 otherVars, histVars>>

\* Slip: the event thread sees the connection before on_connect has run.
Accept_Published ==
  LET c == next + 1
      r == Owner(c)
  IN \E s \in Free :
     /\ acc = "accept" /\ accepting /\ next < MaxConns
     /\ next' = c
     /\ fd' = [fd EXCEPT ![s] = c]
     /\ sock' = [sock EXCEPT ![c] = s]
     /\ connected' = connected \union {c} /\ handler' = handler \union {c}
     /\ connections' = [connections EXCEPT ![r] = @ \union {c}]
     /\ registered' = registered \union {c}
     /\ acc' = "connect"
     /\ UNCHANGED <<posted, input, gone, book, pending_close, woken, running, loopVars,
                    accepting, acc_woken, otherVars, histVars>>

(* accept() gives a free number; without one it fails and the              *)
(* loop sleeps and tries again.  The Reactor is chosen and add_connection  *)
(* fills in the object, which nobody else knows yet.                       *)
Accept ==
  LET c == next + 1
  IN \E s \in Free :
     /\ acc = "accept" /\ accepting /\ next < MaxConns
     /\ next' = c
     /\ fd' = [fd EXCEPT ![s] = c]
     /\ sock' = [sock EXCEPT ![c] = s]
     /\ connected' = connected \union {c} /\ handler' = handler \union {c}
     /\ acc' = "connect"
     /\ UNCHANGED <<registered, posted, input, gone, book, tableVars, loopVars, accepting,
                    acc_woken, otherVars, histVars>>

AcceptDone ==
  /\ acc = "accept" /\ (Free # {} \/ ~accepting)
  /\ AccWait
  /\ UNCHANGED <<connVars, kernelVars, book, tableVars, loopVars, next, accepting, acc_woken,
                 otherVars, histVars>>

\* handler->on_connect: from here on the registry knows the connection ...
OnConnect ==
  LET s == sock[next]
  IN /\ acc = "connect"
     /\ book' = IF book[s] = Nobody THEN [book EXCEPT ![s] = next] ELSE book
     /\ acc' = "return"
     /\ UNCHANGED <<connVars, kernelVars, tableVars, loopVars, next, accepting, acc_woken,
                    otherVars, histVars>>

\* ... and on_connect returns.
OnConnectReturns ==
  /\ acc = "return" /\ acc' = "insert"
  /\ UNCHANGED <<connVars, kernelVars, book, tableVars, loopVars, next, accepting, acc_woken,
                 otherVars, histVars>>

\* connections_[id] = conn, which replaces an entry of the same id.
Publish ==
  LET r == Owner(next)
  IN /\ acc = "insert" /\ acc' = "add"
     /\ connections' = [connections EXCEPT ![r] =
                          {x \in @ : Token(x) # Token(next)} \union {next}]
     /\ UNCHANGED <<connVars, kernelVars, book, pending_close, woken, running, loopVars,
                    next, accepting, acc_woken, otherVars, histVars>>

\* EPOLL_CTL_ADD, which reports what is there already; on a closed descriptor
\* it fails.
EpollAdd ==
  /\ acc = "add" /\ acc' = "accept"
  /\ registered' = IF Open(next) THEN registered \union {next} ELSE registered
  /\ posted' = IF Open(next) THEN posted \union ({next} \intersect (input \union gone)) ELSE posted
  /\ UNCHANGED <<connVars, fd, input, gone, book, tableVars, loopVars, next, accepting,
                 acc_woken, otherVars, histVars>>

---------------------------------------------------------------------------
(* A thread of the business that closes a connection: a task of the        *)
(* connection itself, or anybody who finds it in the registry - where it   *)
(* is from on_connect on, so that add_connection may still be at it.       *)
CloseConn(c) ==
  /\ caller = Nobody /\ c \in MayClose \ asked
  /\ c \in heard \/ \E s \in Socks : book[s] = c
  /\ caller' = c /\ asked' = asked \union {c}
  /\ early' = IF c = next /\ acc \in {"return", "insert"} THEN early \union {c} ELSE early
  /\ UNCHANGED <<connVars, kernelVars, book, tableVars, loopVars, accVars, stage, at, heard,
                 astray, wrong>>

RequestClose ==
  /\ caller # Nobody /\ caller' = Nobody
  /\ pending_close' = [pending_close EXCEPT ![Owner(caller)] = @ \union {caller}]
  /\ woken' = woken \union {Owner(caller)}
  /\ UNCHANGED <<connVars, kernelVars, book, connections, running, loopVars, accVars, asked,
                 stage, at, histVars>>

---------------------------------------------------------------------------
(* The thread of Reactor r.                                                *)
Ready(r) == {c \in posted \intersect registered : Owner(c) = r}

EpollWait(r) ==
  /\ loop[r] = "wait" /\ (r \in woken \/ Ready(r) # {})
  /\ fetched' = [fetched EXCEPT ![r] =
       {[tok |-> Token(c), of |-> c] : c \in Ready(r)}
         \union (IF r \in woken THEN WakeEvents ELSE {})]
  /\ posted' = posted \ Ready(r)
  /\ Loop(r, "events")
  /\ UNCHANGED <<connVars, fd, registered, input, gone, book, tableVars, bucket, cur, back,
                 accVars, otherVars, histVars>>

\* Where the loop goes on: event_loop tests running_ before it waits again.
Resumed(r, there) == IF there = "wait" /\ r \notin running THEN "exited" ELSE there

\* The connections of S are closed one after the other, then the loop goes on.
CloseAll(r, S, there) ==
  IF S = {} THEN Loop(r, Resumed(r, there)) /\ UNCHANGED <<bucket, back>>
  ELSE /\ Loop(r, "bucket")
       /\ bucket' = [bucket EXCEPT ![r] = S] /\ back' = [back EXCEPT ![r] = there]

\* The connections an event's token is found to mean, and have to be closed.
Found(r, e) == {c \in connections[r] : Token(c) = e.tok}
Took(r, e) == fetched' = [fetched EXCEPT ![r] = @ \ {e}]

EventStale(r, e) ==
  /\ loop[r] = "events" /\ e \in fetched[r] \ WakeEvents
  /\ Found(r, e) \intersect connected = {}
  /\ Took(r, e)
  /\ UNCHANGED <<connVars, kernelVars, book, tableVars, loop, bucket, cur, back, accVars,
                 otherVars, histVars>>

\* Slip: the end of the stream is taken for nothing to read.
Event_Deaf(r, e, c) ==
  /\ loop[r] = "events" /\ e \in fetched[r] \ WakeEvents
  /\ c \in Found(r, e) \intersect connected
  /\ Took(r, e)
  /\ astray' = (astray \/ c # e.of)
  /\ heard' = heard \union ({c} \intersect input) /\ input' = input \ {c}
  /\ UNCHANGED <<connVars, fd, registered, posted, gone, book, tableVars, loop, bucket, cur,
                 back, accVars, otherVars, wrong, early>>

\* handle_read reads what is there; at the end of the stream it closes.
Event(r, e, c) ==
  /\ loop[r] = "events" /\ e \in fetched[r] \ WakeEvents
  /\ c \in Found(r, e) \intersect connected
  /\ Took(r, e)
  /\ astray' = (astray \/ c # e.of)
  /\ heard' = heard \union ({c} \intersect input) /\ input' = input \ {c}
  /\ CloseAll(r, {c} \intersect gone, "events")
  /\ UNCHANGED <<connVars, fd, registered, posted, gone, book, tableVars, cur, accVars,
                 otherVars, wrong, early>>

\* The eventfd is read; a Reactor told to stop leaves the rest of the batch.
WakeEvent(r) ==
  /\ loop[r] = "events" /\ WakeEvents \subseteq fetched[r]
  /\ woken' = woken \ {r}
  /\ IF r \in running
     THEN /\ fetched' = [fetched EXCEPT ![r] = @ \ WakeEvents]
          /\ CloseAll(r, pending_close[r], "events")
          /\ pending_close' = [pending_close EXCEPT ![r] = {}]
     ELSE /\ fetched' = [fetched EXCEPT ![r] = {}]
          /\ UNCHANGED <<bucket, pending_close, back, loop>>
  /\ UNCHANGED <<connVars, kernelVars, book, connections, running, cur, accVars, otherVars,
                 histVars>>

(* The batch is done, or epoll_wait timed out: connections silent for a    *)
(* minute are closed.  Adding one never takes a minute.                    *)
IdleScan(r) ==
  /\ \/ loop[r] = "events" /\ fetched[r] = {}
     \/ loop[r] = "wait" /\ r \notin woken /\ Ready(r) = {}
  /\ \E S \in SUBSET (connections[r] \intersect registered \intersect MayIdle) :
       CloseAll(r, S, "wait")
  /\ UNCHANGED <<connVars, kernelVars, book, tableVars, fetched, cur, accVars, otherVars, histVars>>

\* Slip: the handler goes without its on_disconnect.
CloseBegin_Silent(r, c) ==
  /\ loop[r] = "bucket" /\ c \in bucket[r]
  /\ bucket' = [bucket EXCEPT ![r] = @ \ {c}]
  /\ IF c \in connected
     THEN /\ connected' = connected \ {c} /\ handler' = handler \ {c}
          /\ cur' = [cur EXCEPT ![r] = c] /\ Loop(r, "close")
     ELSE UNCHANGED <<connected, handler, cur, loop>>
  /\ UNCHANGED <<sock, book, kernelVars, tableVars, fetched, back, accVars, otherVars, histVars>>

\* close_client: the flag, on_disconnect (by descriptor number), the handler ...
CloseBegin(r, c) ==
  /\ loop[r] = "bucket" /\ c \in bucket[r]
  /\ bucket' = [bucket EXCEPT ![r] = @ \ {c}]
  /\ IF c \in connected
     THEN /\ connected' = connected \ {c} /\ handler' = handler \ {c}
          /\ book' = [book EXCEPT ![sock[c]] = Nobody]
          /\ cur' = [cur EXCEPT ![r] = c] /\ Loop(r, "close")
     ELSE UNCHANGED <<connected, handler, book, cur, loop>>
  /\ UNCHANGED <<sock, kernelVars, tableVars, fetched, back, accVars, otherVars, histVars>>

\* ... the descriptor, which may be given out again at once ...
CloseFd(r) ==
  /\ loop[r] = "close"
  /\ wrong' = (wrong \/ ~Open(cur[r]))
  /\ fd' = [fd EXCEPT ![sock[cur[r]]] = Nobody]
  /\ registered' = registered \ {cur[r]} /\ posted' = posted \ {cur[r]}
  /\ input' = input \ {cur[r]} /\ gone' = gone \ {cur[r]}
  /\ Loop(r, "erase")
  /\ UNCHANGED <<connVars, book, tableVars, fetched, bucket, cur, back, accVars,
                 otherVars, heard, astray, early>>

\* ... and the entry in connections_.
CloseErase(r) ==
  /\ loop[r] = "erase" /\ Loop(r, "bucket")
  /\ connections' = [connections EXCEPT ![r] = {x \in @ : Token(x) # Token(cur[r])}]
  /\ cur' = [cur EXCEPT ![r] = Nobody]
  /\ UNCHANGED <<connVars, kernelVars, book, pending_close, woken, running, fetched, bucket,
                 back, accVars, otherVars, histVars>>

BucketDone(r) ==
  /\ loop[r] = "bucket" /\ bucket[r] = {}
  /\ Loop(r, Resumed(r, back[r]))
  /\ UNCHANGED <<connVars, kernelVars, book, tableVars, fetched, bucket, cur, back, accVars,
                 otherVars, histVars>>

---------------------------------------------------------------------------
(* NetworkServer::stop: the Acceptor, then every Reactor.                  *)
\* Slip: the Acceptor is not woken from its endless epoll_wait.
StopAccept_Quiet ==
  /\ MayStop /\ stage = "up" /\ stage' = "acceptor"
  /\ accepting' = FALSE
  /\ UNCHANGED <<connVars, kernelVars, book, tableVars, loopVars, next, acc_woken, acc, caller,
                 asked, at, histVars>>

StopAccept ==
  /\ MayStop /\ stage = "up" /\ stage' = "acceptor"
  /\ accepting' = FALSE /\ acc_woken' = TRUE
  /\ UNCHANGED <<connVars, kernelVars, book, tableVars, loopVars, next, acc, caller, asked, at,
                 histVars>>

AcceptorJoined ==
  /\ stage = "acceptor" /\ acc = "exited" /\ stage' = "reactor"
  /\ UNCHANGED <<connVars, kernelVars, book, tableVars, loopVars, accVars, caller, asked, at,
                 histVars>>

StopReactor ==
  /\ stage = "reactor" /\ at < NReactors /\ stage' = "join"
  /\ running' = running \ {at} /\ woken' = woken \union {at}
  /\ UNCHANGED <<connVars, kernelVars, book, connections, pending_close, loopVars, accVars,
                 caller, asked, at, histVars>>

\* The rest of Reactor::stop, after the join: what is left in the table.  A
\* number closed is closed for whoever has it.
StopCloses ==
  LET left == connections[at]
      told == left \intersect handler
      socks == {sock[c] : c \in left}
      hit == left \union {fd[s] : s \in socks}
  IN /\ stage = "join" /\ loop[at] = "exited" /\ stage' = "reactor"
     /\ connected' = connected \ left /\ handler' = handler \ left
     /\ book' = [s \in Socks |-> IF s \in {sock[c] : c \in told} THEN Nobody ELSE book[s]]
     /\ wrong' = (wrong \/ \E c \in left : ~Open(c))
     /\ fd' = [s \in Socks |-> IF s \in socks THEN Nobody ELSE fd[s]]
     /\ registered' = registered \ hit /\ posted' = posted \ hit
     /\ input' = input \ left /\ gone' = gone \ left
     /\ connections' = [connections EXCEPT ![at] = {}]
     /\ at' = at + 1
     /\ UNCHANGED <<sock, pending_close, woken, running, loopVars, accVars, caller,
                    asked, heard, astray, early>>

StopDone ==
  /\ stage = "reactor" /\ at = NReactors /\ stage' = "done"
  /\ UNCHANGED <<connVars, kernelVars, book, tableVars, loopVars, accVars, caller, asked, at,
                 histVars>>

---------------------------------------------------------------------------
Acceptor == \/ AccWakeEvent \/ Accept \/ AcceptDone \/ OnConnect \/ OnConnectReturns \/ Publish
            \/ EpollAdd
Handle(r) == \E e \in fetched[r] : EventStale(r, e) \/ \E c \in Conns : Event(r, e, c)
Close(r) == \/ \E c \in Conns : CloseBegin(r, c)
            \/ CloseFd(r) \/ CloseErase(r) \/ BucketDone(r)
Reactor(r) == EpollWait(r) \/ Handle(r) \/ WakeEvent(r) \/ IdleScan(r) \/ Close(r)
Stop == AcceptorJoined \/ StopReactor \/ StopCloses \/ StopDone

Next == \/ \E c \in Conns : ClientSends(c) \/ ClientLeaves(c) \/ CloseConn(c)
        \/ ListenEvent \/ Acceptor \/ RequestClose
        \/ \E r \in Reactors : Reactor(r)
        \/ StopAccept \/ Stop

(* Every thread keeps running; nobody has to connect, leave or stop.       *)
Fairness == /\ WF_vars(Acceptor) /\ WF_vars(RequestClose) /\ WF_vars(Stop)
            /\ \A r \in Reactors : WF_vars(Reactor(r))

Spec == Init /\ [][Next]_vars /\ Fairness

---------------------------------------------------------------------------
(* Properties.                                                             *)

(* Every variable keeps its type.                                          *)
TypeOK ==
  /\ sock \in [Conns -> Socks \union {0}] /\ connected \subseteq Conns /\ handler \subseteq Conns
  /\ fd \in [Socks -> Conns \union {Nobody}] /\ book \in [Socks -> Conns \union {Nobody}]
  /\ registered \subseteq Conns /\ posted \subseteq Conns
  /\ input \subseteq Conns /\ gone \subseteq Conns
  /\ connections \in [Reactors -> SUBSET Conns] /\ pending_close \in [Reactors -> SUBSET Conns]
  /\ woken \subseteq Reactors /\ running \subseteq Reactors
  /\ loop \in [Reactors -> {"wait", "events", "bucket", "close", "erase", "exited"}]
  /\ bucket \in [Reactors -> SUBSET Conns] /\ cur \in [Reactors -> Conns \union {Nobody}]
  /\ back \in [Reactors -> {"wait", "events"}]
  /\ next \in 0 .. MaxConns /\ accepting \in BOOLEAN /\ acc_woken \in BOOLEAN
  /\ acc \in {"wait", "accept", "connect", "return", "insert", "add", "exited"}
  /\ caller \in Conns \union {Nobody} /\ asked \subseteq Conns /\ at \in 0 .. NReactors
  /\ stage \in {"up", "acceptor", "reactor", "join", "done"}
  /\ heard \subseteq Conns /\ early \subseteq Conns /\ astray \in BOOLEAN /\ wrong \in BOOLEAN

(* An event in a batch never acts on another connection than the one it    *)
(* was reported for, even if that was closed earlier in the batch and its  *)
(* descriptor given to a new one (reactor_conn_id, Internalconnection.h).  *)
EventReachesItsConnection == ~astray

\* c is somewhere between the end of on_connect's registration and close_client.
Connected(c) == c \in connected /\ ~(c = next /\ acc = "connect")

(* The registry holds exactly the connected ones, each under its own open  *)
(* descriptor, although entries are removed by descriptor number alone.    *)
(* close() is only ever called on the descriptor of the connection being   *)
(* closed: close_client and the sweep of Reactor::stop never both - unless *)
(* a business found a connection in the registry and asked to close it     *)
(* before add_connection had put it into the table: add_connection then    *)
(* puts a closed connection there, the sweep of Reactor::stop closes its   *)
(* number again, whoever has it by then, and from then on the registry may *)
(* hold one without a descriptor.                                          *)
RegistryFollows ==
  /\ early = {} => ~wrong
  /\ ~wrong => /\ \A c \in Conns : Connected(c) => book[sock[c]] = c
               /\ \A s \in Socks : book[s] # Nobody => fd[s] = book[s] /\ book[s] \in connected

(* Nothing a client does - send or leave at once - deletes its handler     *)
(* while add_connection is in its on_connect (Reactor.cpp:149); only a     *)
(* business that finds the connection there and closes it does.            *)
HandlerOutlivesOnConnect ==
  acc \in {"connect", "return"} => next \in handler \/ next \in early

\* Nothing of connection c is left.
Released(c) == ~Open(c) /\ c \notin connections[Owner(c)] /\ c \notin handler
                 /\ \A s \in Socks : book[s] # c

(* A connection whose client has left is closed and forgotten everywhere;  *)
(* of one a business closed too early the entry in connections_ may stay.  *)
DeadClientIsReleased == \A c \in Conns : c \in gone ~> Released(c) \/ c \in early

(* stop() ends, and leaves no descriptor, handler or registry entry.       *)
StopLeavesNothing == (stage # "up") ~> (stage = "done" /\ \A c \in Conns : Released(c))
==============================================================================
