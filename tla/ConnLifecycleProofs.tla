------------------------ MODULE ConnLifecycleProofs ------------------------
(***************************************************************************)
(* For every number of connections, descriptors and Reactors: the types of *)
(* the connection life cycle, events that reach their own connection, and  *)
(* the registry, the descriptors and the handlers of open connections.     *)
(***************************************************************************)
EXTENDS ConnLifecycle, TLAPS

(* The type invariant by the groups of variables steps leave alone.        *)
ConnTypes ==
  sock \in [Conns -> Socks \union {0}] /\ connected \subseteq Conns /\ handler \subseteq Conns
KernelTypes ==
  /\ fd \in [Socks -> Conns \union {Nobody}]
  /\ registered \subseteq Conns /\ posted \subseteq Conns
  /\ input \subseteq Conns /\ gone \subseteq Conns
BookTypes == book \in [Socks -> Conns \union {Nobody}]
TableTypes ==
  /\ connections \in [Reactors -> SUBSET Conns] /\ pending_close \in [Reactors -> SUBSET Conns]
  /\ woken \subseteq Reactors /\ running \subseteq Reactors
LoopTypes ==
  /\ loop \in [Reactors -> {"wait", "events", "bucket", "close", "erase", "exited"}]
  /\ bucket \in [Reactors -> SUBSET Conns] /\ cur \in [Reactors -> Conns \union {Nobody}]
  /\ back \in [Reactors -> {"wait", "events"}]
AccTypes ==
  /\ next \in 0 .. MaxConns /\ accepting \in BOOLEAN /\ acc_woken \in BOOLEAN
  /\ acc \in {"wait", "accept", "connect", "return", "insert", "add", "exited"}
OtherTypes ==
  /\ caller \in Conns \union {Nobody} /\ asked \subseteq Conns /\ at \in 0 .. NReactors
  /\ stage \in {"up", "acceptor", "reactor", "join", "done"}
HistTypes ==
  heard \subseteq Conns /\ early \subseteq Conns /\ astray \in BOOLEAN /\ wrong \in BOOLEAN

LEMMA Parts ==
  /\ TypeOK <=> /\ ConnTypes /\ KernelTypes /\ BookTypes /\ TableTypes
                /\ LoopTypes /\ AccTypes /\ OtherTypes /\ HistTypes
  /\ TypeOK' <=> /\ ConnTypes' /\ KernelTypes' /\ BookTypes' /\ TableTypes'
                 /\ LoopTypes' /\ AccTypes' /\ OtherTypes' /\ HistTypes'
  BY DEF TypeOK, ConnTypes, KernelTypes, BookTypes, TableTypes, LoopTypes, AccTypes, OtherTypes,
     HistTypes

(* What the types rest on: the connection being added has a number, and    *)
(* stop() joins a Reactor there is.                                        *)
Adding == acc \in {"connect", "return", "insert", "add"} => next \in Conns
Joining == stage = "join" => at \in Reactors
LifeInv == TypeOK /\ Adding /\ Joining

---------------------------------------------------------------------------
(* A group of variables a step leaves alone keeps its type.                *)
LEMMA Kept ==
  /\ ConnTypes /\ UNCHANGED connVars => ConnTypes'
  /\ KernelTypes /\ UNCHANGED kernelVars => KernelTypes'
  /\ BookTypes /\ UNCHANGED book => BookTypes'
  /\ TableTypes /\ UNCHANGED tableVars => TableTypes'
  /\ LoopTypes /\ UNCHANGED loopVars => LoopTypes'
  /\ AccTypes /\ UNCHANGED accVars => AccTypes'
  /\ OtherTypes /\ UNCHANGED otherVars => OtherTypes'
  /\ HistTypes /\ UNCHANGED histVars => HistTypes'
  BY DEF ConnTypes, connVars, KernelTypes, kernelVars, BookTypes, TableTypes, tableVars,
     LoopTypes, loopVars, AccTypes, accVars, OtherTypes, otherVars, HistTypes, histVars

(* A connection is given to one of the Reactors.                           *)
LEMMA OwnerIsReactor == \A c \in Conns : Owner(c) \in Reactors
<1> TAKE c \in Conns
<1>1. c \in 1 .. MaxConns /\ MaxConns \in Nat /\ NReactors \in Nat /\ NReactors > 0
  BY LifeAssumption DEF Conns
<1>2. c - 1 \in Nat
  BY <1>1
<1>3. \A a, n \in Nat : n > 0 => a % n \in 0 .. n - 1
  OBVIOUS
<1>4. (c - 1) % NReactors \in 0 .. NReactors - 1
  BY <1>1, <1>2, <1>3
<1>5. QED
  BY <1>4 DEF Owner, Reactors

(* The sock of a connection with a descriptor, and how closing changes     *)
(* the loop.                                                               *)
LEMMA ClosingTypes ==
  ASSUME LoopTypes, NEW r \in Reactors, NEW S \in SUBSET Conns, NEW there \in {"wait", "events"},
         CloseAll(r, S, there), cur' = cur
  PROVE  LoopTypes'
<1>1. Resumed(r, there) \in {"wait", "events", "exited"}
  BY DEF Resumed
<1>2. CASE S = {}
  BY <1>1, <1>2 DEF CloseAll, Loop, LoopTypes
<1>3. CASE S # {}
  BY <1>3 DEF CloseAll, Loop, LoopTypes
<1>4. QED
  BY <1>2, <1>3

---------------------------------------------------------------------------
(* The clients and the thread of the business.                             *)
LEMMA OutsideTypes ==
  ASSUME LifeInv,
         \/ \E c \in Conns : ClientSends(c) \/ ClientLeaves(c) \/ CloseConn(c)
         \/ RequestClose
  PROVE  LifeInv'
<1> /\ ConnTypes /\ KernelTypes /\ BookTypes /\ TableTypes
    /\ LoopTypes /\ AccTypes /\ OtherTypes /\ HistTypes
  BY Parts DEF LifeInv
<1>1. ASSUME NEW c \in Conns, ClientSends(c) \/ ClientLeaves(c) PROVE TypeOK'
  <2>1. KernelTypes'
    BY <1>1 DEF ClientSends, ClientLeaves, KernelTypes
  <2>2. UNCHANGED <<connVars, book, tableVars, loopVars, accVars, otherVars, histVars>>
    BY <1>1 DEF ClientSends, ClientLeaves
  <2>3. QED
    BY <2>1, <2>2, Kept, Parts
<1>2. ASSUME NEW c \in Conns, CloseConn(c) PROVE TypeOK'
  <2>1. OtherTypes'
    BY <1>2 DEF CloseConn, OtherTypes
  <2>2. HistTypes'
    BY <1>2 DEF CloseConn, HistTypes
  <2>3. QED
    BY <1>2, <2>1, <2>2, Kept, Parts DEF CloseConn
<1>3. ASSUME RequestClose PROVE TypeOK'
  <2>1. caller \in Conns /\ Owner(caller) \in Reactors
    BY <1>3, OwnerIsReactor DEF RequestClose, OtherTypes
  <2>2. TableTypes'
    BY <1>3, <2>1 DEF RequestClose, TableTypes
  <2>3. OtherTypes'
    BY <1>3 DEF RequestClose, OtherTypes
  <2>4. QED
    BY <1>3, <2>2, <2>3, Kept, Parts DEF RequestClose
<1>4. UNCHANGED <<accVars, stage, at>>
  BY DEF ClientSends, ClientLeaves, CloseConn, RequestClose, otherVars
<1>5. Adding' /\ Joining'
  BY <1>4 DEF LifeInv, Adding, Joining, accVars
<1>6. QED
  BY <1>1, <1>2, <1>3, <1>5 DEF LifeInv

(* The Acceptor's thread.                                                  *)
LEMMA AcceptorTypes ==
  ASSUME LifeInv, ListenEvent \/ Acceptor
  PROVE  LifeInv'
<1> /\ ConnTypes /\ KernelTypes /\ BookTypes /\ TableTypes
    /\ LoopTypes /\ AccTypes /\ OtherTypes /\ HistTypes
  BY Parts DEF LifeInv
<1>1. ASSUME ListenEvent \/ AccWakeEvent \/ AcceptDone \/ OnConnectReturns PROVE TypeOK' /\ Adding'
  <2>1. AccTypes'
    BY <1>1 DEF ListenEvent, AccWakeEvent, AcceptDone, OnConnectReturns, AccWait, AccTypes
  <2>2. UNCHANGED <<connVars, kernelVars, book, tableVars, loopVars, otherVars, histVars>>
    BY <1>1 DEF ListenEvent, AccWakeEvent, AcceptDone, OnConnectReturns
  <2>3. Adding'
    BY <1>1 DEF ListenEvent, AccWakeEvent, AcceptDone, OnConnectReturns, AccWait, LifeInv, Adding
  <2>4. QED
    BY <2>1, <2>2, <2>3, Kept, Parts
<1>2. ASSUME Accept PROVE TypeOK' /\ Adding'
  <2> DEFINE c == next + 1
  <2>1. PICK s \in Free :
          /\ next < MaxConns /\ next' = c
          /\ fd' = [fd EXCEPT ![s] = c] /\ sock' = [sock EXCEPT ![c] = s]
          /\ connected' = connected \union {c} /\ handler' = handler \union {c}
          /\ acc' = "connect"
          /\ UNCHANGED <<registered, posted, input, gone, book, tableVars, loopVars, accepting,
                         acc_woken, otherVars, histVars>>
    BY <1>2 DEF Accept
  <2>2. c \in Conns /\ c \in 0 .. MaxConns /\ s \in Socks
    BY <2>1, LifeAssumption DEF AccTypes, Conns, Free
  <2> HIDE DEF c
  <2>3. ConnTypes' /\ KernelTypes'
    BY <2>1, <2>2 DEF ConnTypes, KernelTypes
  <2>4. AccTypes' /\ Adding'
    BY <2>1, <2>2 DEF AccTypes, Adding
  <2>5. QED
    BY <2>1, <2>3, <2>4, Kept, Parts
<1>3. ASSUME OnConnect PROVE TypeOK' /\ Adding'
  <2>1. next \in Conns
    BY <1>3 DEF OnConnect, LifeInv, Adding
  <2>2. BookTypes'
    BY <1>3, <2>1 DEF OnConnect, BookTypes
  <2>3. AccTypes' /\ Adding'
    BY <1>3, <2>1 DEF OnConnect, AccTypes, Adding
  <2>4. QED
    BY <1>3, <2>2, <2>3, Kept, Parts DEF OnConnect
<1>4. ASSUME Publish PROVE TypeOK' /\ Adding'
  <2>1. next \in Conns
    BY <1>4 DEF Publish, LifeInv, Adding
  <2>2. TableTypes'
    BY <1>4, <2>1 DEF Publish, TableTypes
  <2>3. AccTypes' /\ Adding'
    BY <1>4, <2>1 DEF Publish, AccTypes, Adding
  <2>4. QED
    BY <1>4, <2>2, <2>3, Kept, Parts DEF Publish
<1>5. ASSUME EpollAdd PROVE TypeOK' /\ Adding'
  <2>1. next \in Conns
    BY <1>5 DEF EpollAdd, LifeInv, Adding
  <2>2. KernelTypes'
    BY <1>5, <2>1 DEF EpollAdd, KernelTypes
  <2>3. AccTypes' /\ Adding'
    BY <1>5 DEF EpollAdd, AccTypes, Adding
  <2>4. QED
    BY <1>5, <2>2, <2>3, Kept, Parts DEF EpollAdd
<1>6. Joining'
  BY DEF ListenEvent, Acceptor, AccWakeEvent, Accept, AcceptDone, OnConnect, OnConnectReturns,
     Publish, EpollAdd, otherVars, LifeInv, Joining
<1>7. QED
  BY <1>1, <1>2, <1>3, <1>4, <1>5, <1>6 DEF Acceptor, LifeInv

(* A Reactor's thread.                                                     *)
LEMMA ReactorTypes ==
  ASSUME LifeInv, NEW r \in Reactors, Reactor(r)
  PROVE  LifeInv'
<1> /\ ConnTypes /\ KernelTypes /\ BookTypes /\ TableTypes
    /\ LoopTypes /\ AccTypes /\ OtherTypes /\ HistTypes
  BY Parts DEF LifeInv
<1>1. ASSUME EpollWait(r) PROVE TypeOK'
  <2>1. LoopTypes'
    BY <1>1 DEF EpollWait, Loop, LoopTypes
  <2>2. KernelTypes'
    BY <1>1 DEF EpollWait, KernelTypes
  <2>3. QED
    BY <1>1, <2>1, <2>2, Kept, Parts DEF EpollWait
<1>2. ASSUME NEW e, EventStale(r, e) PROVE TypeOK'
  <2>1. LoopTypes'
    BY <1>2 DEF EventStale, LoopTypes
  <2>2. QED
    BY <1>2, <2>1, Kept, Parts DEF EventStale
<1>3. ASSUME NEW e, NEW c \in Conns, Event(r, e, c) PROVE TypeOK'
  <2>1. LoopTypes'
    BY <1>3, ClosingTypes DEF Event
  <2>2. KernelTypes'
    BY <1>3 DEF Event, KernelTypes
  <2>3. heard' \subseteq Conns /\ wrong' = wrong /\ early' = early
    BY <1>3 DEF Event, HistTypes
  <2>4. astray' \in BOOLEAN
    BY <1>3 DEF Event
  <2>5. HistTypes'
    BY <2>3, <2>4 DEF HistTypes
  <2>6. QED
    BY <1>3, <2>1, <2>2, <2>5, Kept, Parts DEF Event
<1>4. ASSUME WakeEvent(r) PROVE TypeOK'
  <2>1. LoopTypes'
    <3>1. CASE r \in running
      <4>1. pending_close[r] \in SUBSET Conns
        BY DEF TableTypes
      <4>2. QED
        BY <1>4, <3>1, <4>1, ClosingTypes DEF WakeEvent
    <3>2. CASE r \notin running
      BY <1>4, <3>2 DEF WakeEvent, LoopTypes
    <3>3. QED
      BY <3>1, <3>2
  <2>2. TableTypes'
    BY <1>4 DEF WakeEvent, TableTypes
  <2>3. QED
    BY <1>4, <2>1, <2>2, Kept, Parts DEF WakeEvent
<1>5. ASSUME IdleScan(r) PROVE TypeOK'
  <2>1. PICK S \in SUBSET (connections[r] \intersect registered \intersect MayIdle) :
          CloseAll(r, S, "wait")
    BY <1>5 DEF IdleScan
  <2>2. S \in SUBSET Conns
    BY DEF KernelTypes
  <2>3. LoopTypes'
    BY <1>5, <2>1, <2>2, ClosingTypes DEF IdleScan
  <2>4. QED
    BY <1>5, <2>3, Kept, Parts DEF IdleScan
<1>6. ASSUME NEW c \in Conns, CloseBegin(r, c) PROVE TypeOK'
  <2>1. ConnTypes'
    BY <1>6 DEF CloseBegin, ConnTypes
  <2>2. BookTypes'
    BY <1>6 DEF CloseBegin, BookTypes
  <2>3. LoopTypes'
    BY <1>6 DEF CloseBegin, Loop, LoopTypes
  <2>4. QED
    BY <1>6, <2>1, <2>2, <2>3, Kept, Parts DEF CloseBegin
<1>7. ASSUME CloseFd(r) PROVE TypeOK'
  <2>1. KernelTypes'
    BY <1>7 DEF CloseFd, KernelTypes
  <2>2. LoopTypes'
    BY <1>7 DEF CloseFd, Loop, LoopTypes
  <2>3. wrong' \in BOOLEAN
    BY <1>7 DEF CloseFd
  <2>4. HistTypes'
    BY <1>7, <2>3 DEF CloseFd, HistTypes
  <2>5. QED
    BY <1>7, <2>1, <2>2, <2>4, Kept, Parts DEF CloseFd
<1>8. ASSUME CloseErase(r) PROVE TypeOK'
  <2>1. TableTypes'
    BY <1>8 DEF CloseErase, TableTypes
  <2>2. LoopTypes'
    BY <1>8 DEF CloseErase, Loop, LoopTypes
  <2>3. QED
    BY <1>8, <2>1, <2>2, Kept, Parts DEF CloseErase
<1>9. ASSUME BucketDone(r) PROVE TypeOK'
  <2>1. LoopTypes'
    BY <1>9 DEF BucketDone, Resumed, Loop, LoopTypes
  <2>2. QED
    BY <1>9, <2>1, Kept, Parts DEF BucketDone
<1>10. UNCHANGED <<acc, next, stage, at>>
  BY DEF Reactor, EpollWait, Handle, EventStale, Event, WakeEvent, IdleScan, Close, CloseBegin,
     CloseFd, CloseErase, BucketDone, accVars, otherVars
<1>11. Adding' /\ Joining'
  BY <1>10 DEF LifeInv, Adding, Joining
<1>12. QED
  BY <1>1, <1>2, <1>3, <1>4, <1>5, <1>6, <1>7, <1>8, <1>9, <1>11
  DEF Reactor, Handle, Close, LifeInv

(* The thread in NetworkServer::stop.                                      *)
LEMMA StopTypes ==
  ASSUME LifeInv, StopAccept \/ Stop
  PROVE  LifeInv'
<1> /\ ConnTypes /\ KernelTypes /\ BookTypes /\ TableTypes
    /\ LoopTypes /\ AccTypes /\ OtherTypes /\ HistTypes
  BY Parts DEF LifeInv
<1>0. NReactors \in Nat /\ at \in 0 .. NReactors
  BY LifeAssumption DEF OtherTypes
<1>1. ASSUME StopAccept PROVE TypeOK' /\ Joining'
  <2>1. AccTypes'
    BY <1>1 DEF StopAccept, AccTypes
  <2>2. OtherTypes' /\ Joining'
    BY <1>1 DEF StopAccept, OtherTypes, Joining
  <2>3. QED
    BY <1>1, <2>1, <2>2, Kept, Parts DEF StopAccept
<1>2. ASSUME AcceptorJoined \/ StopDone PROVE TypeOK' /\ Joining'
  <2>1. OtherTypes' /\ Joining'
    BY <1>2 DEF AcceptorJoined, StopDone, OtherTypes, Joining
  <2>2. UNCHANGED <<connVars, kernelVars, book, tableVars, loopVars, accVars, histVars>>
    BY <1>2 DEF AcceptorJoined, StopDone
  <2>3. QED
    BY <2>1, <2>2, Kept, Parts
<1>3. ASSUME StopReactor PROVE TypeOK' /\ Joining'
  <2>1. at \in Reactors
    BY <1>0, <1>3 DEF StopReactor, Reactors
  <2>2. TableTypes'
    BY <1>3, <2>1 DEF StopReactor, TableTypes
  <2>3. OtherTypes' /\ Joining'
    BY <1>3, <2>1 DEF StopReactor, OtherTypes, Joining
  <2>4. QED
    BY <1>3, <2>2, <2>3, Kept, Parts DEF StopReactor
<1>4. ASSUME StopCloses PROVE TypeOK' /\ Joining'
  <2>1. at \in Reactors
    BY <1>4 DEF StopCloses, LifeInv, Joining
  <2>2. at + 1 \in 0 .. NReactors
    BY <1>0, <2>1 DEF Reactors
  <2>3. ConnTypes'
    BY <1>4 DEF StopCloses, ConnTypes
  <2>4. KernelTypes'
    BY <1>4 DEF StopCloses, KernelTypes
  <2>5. BookTypes'
    BY <1>4 DEF StopCloses, BookTypes
  <2>6. TableTypes'
    BY <1>4 DEF StopCloses, TableTypes
  <2>7. OtherTypes' /\ Joining'
    BY <1>4, <2>2 DEF StopCloses, OtherTypes, Joining
  <2>8. wrong' \in BOOLEAN
    BY <1>4 DEF StopCloses
  <2>9. HistTypes'
    BY <1>4, <2>8 DEF StopCloses, HistTypes
  <2>10. QED
    BY <1>4, <2>3, <2>4, <2>5, <2>6, <2>7, <2>9, Kept, Parts DEF StopCloses
<1>5. Adding'
  BY DEF StopAccept, Stop, AcceptorJoined, StopReactor, StopCloses, StopDone, accVars, LifeInv,
     Adding
<1>6. QED
  BY <1>1, <1>2, <1>3, <1>4, <1>5 DEF Stop, LifeInv

(* The types and what they rest on hold in every behaviour.                 *)
LEMMA LifeHolds == Spec => []LifeInv
<1>1. Init => LifeInv
  <2> SUFFICES ASSUME Init PROVE LifeInv
    OBVIOUS
  <2>1. 0 \in 0 .. MaxConns /\ 0 \in 0 .. NReactors
    BY LifeAssumption
  <2>2. ConnTypes /\ KernelTypes /\ BookTypes /\ TableTypes /\ LoopTypes
    BY DEF Init, ConnTypes, KernelTypes, BookTypes, TableTypes, LoopTypes, Nobody
  <2>3. AccTypes /\ OtherTypes /\ HistTypes
    BY <2>1 DEF Init, AccTypes, OtherTypes, HistTypes
  <2>4. Adding /\ Joining
    BY DEF Init, Adding, Joining
  <2>5. QED
    BY <2>2, <2>3, <2>4, Parts DEF LifeInv
<1>2. LifeInv /\ [Next]_vars => LifeInv'
  <2> SUFFICES ASSUME LifeInv, [Next]_vars PROVE LifeInv'
    OBVIOUS
  <2>1. CASE UNCHANGED vars
    <3>1. TypeOK'
      BY <2>1, Kept, Parts DEF LifeInv, vars
    <3>2. Adding' /\ Joining'
      BY <2>1 DEF LifeInv, Adding, Joining, vars, accVars, otherVars
    <3>3. QED
      BY <3>1, <3>2 DEF LifeInv
  <2>2. CASE Next
    BY <2>2, OutsideTypes, AcceptorTypes, ReactorTypes, StopTypes DEF Next
  <2>3. QED
    BY <2>1, <2>2
<1>3. QED
  BY <1>1, <1>2, PTL DEF Spec

(* The variables of the connections' life cycle keep their types: the      *)
(* tables of every Reactor hold accepted connections only, and stop()      *)
(* joins no Reactor twice, however connections come, go and are closed.    *)
THEOREM TypeCorrect == Spec => []TypeOK
<1>1. LifeInv => TypeOK
  BY DEF LifeInv
<1>2. QED
  BY <1>1, LifeHolds, PTL

---------------------------------------------------------------------------
(* Events: what a batch and the tables hold belongs to the Reactor.        *)
Fetched == \A r \in Reactors : \A e \in fetched[r] \ WakeEvents :
             e.of \in Conns /\ Owner(e.of) = r /\ e.tok = Token(e.of)
Tables == \A r \in Reactors : \A c \in connections[r] : Owner(c) = r
EventInv ==
  /\ fetched \in [Reactors -> SUBSET [tok : Int, of : Conns \union {Nobody}]]
  /\ Fetched /\ Tables /\ ~astray

(* A Reactor gives every connection of its own another token.              *)
LEMMA TokensDiffer ==
  \A c, d \in Conns : Owner(c) = Owner(d) /\ Token(c) = Token(d) => c = d
<1> SUFFICES ASSUME NEW c \in Conns, NEW d \in Conns, Owner(c) = Owner(d), Token(c) = Token(d)
             PROVE  c = d
  OBVIOUS
<1>1. /\ c - 1 \in Nat /\ d - 1 \in Nat /\ c \in Nat /\ d \in Nat
      /\ NReactors \in Nat /\ NReactors > 0
  BY LifeAssumption DEF Conns
<1>2. \A n \in Nat : n > 0 => \A a, b \in Nat : a % n = b % n /\ a \div n = b \div n => a = b
  OBVIOUS
<1>3. (c - 1) \div NReactors \in Int /\ (d - 1) \div NReactors \in Int
  BY <1>1
<1>4. (c - 1) % NReactors = (d - 1) % NReactors /\ (c - 1) \div NReactors = (d - 1) \div NReactors
  BY <1>3 DEF Owner, Token
<1>5. c - 1 = d - 1
  BY <1>1, <1>2, <1>4
<1>6. QED
  BY <1>1, <1>5

LEMMA EventStep == LifeInv /\ EventInv /\ [Next]_vars => EventInv'
<1> SUFFICES ASSUME LifeInv, EventInv, [Next]_vars PROVE EventInv'
  OBVIOUS
<1> USE DEF EventInv
<1>0. /\ posted \subseteq Conns /\ connections \in [Reactors -> SUBSET Conns]
      /\ \A r \in Reactors : fetched[r] \subseteq [tok : Int, of : Conns \union {Nobody}]
  BY DEF LifeInv, TypeOK
<1>1. ASSUME UNCHANGED <<fetched, connections, astray>> PROVE EventInv'
  BY <1>1 DEF Fetched, Tables
\* A batch that only loses events keeps what is said of it.
<1>2. ASSUME NEW r \in Reactors, NEW S \in SUBSET fetched[r], fetched' = [fetched EXCEPT ![r] = S],
             UNCHANGED <<connections, astray>>
      PROVE  EventInv'
  <2>1. fetched' \in [Reactors -> SUBSET [tok : Int, of : Conns \union {Nobody}]]
    BY <1>0, <1>2
  <2>2. Fetched'
    BY <1>2 DEF Fetched
  <2>3. QED
    BY <1>2, <2>1, <2>2 DEF Tables
\* A table that only loses connections, likewise.
<1>3. ASSUME NEW r \in Reactors, NEW S \in SUBSET connections[r],
             connections' = [connections EXCEPT ![r] = S], UNCHANGED <<fetched, astray>>
      PROVE  EventInv'
  <2>1. Tables'
    BY <1>0, <1>3 DEF Tables
  <2>2. QED
    BY <1>3, <2>1 DEF Fetched
<1>4. ASSUME NEW r \in Reactors, EpollWait(r) PROVE EventInv'
  <2> DEFINE E == {[tok |-> Token(c), of |-> c] : c \in Ready(r)}
  <2>1. \A c \in Ready(r) : c \in Conns /\ Owner(c) = r /\ Token(c) \in Int
    <3>1. \A c \in Conns : Token(c) \in Int
      BY LifeAssumption DEF Token, Conns
    <3>2. QED
      BY <1>0, <3>1 DEF Ready
  <2>2. E \subseteq [tok : Int, of : Conns \union {Nobody}]
    BY <2>1
  <2>3. WakeEvents \subseteq [tok : Int, of : Conns \union {Nobody}]
    BY DEF WakeEvents
  <2>4. PICK W \in SUBSET WakeEvents : fetched' = [fetched EXCEPT ![r] = E \union W]
    BY <1>4 DEF EpollWait
  <2>5. fetched' \in [Reactors -> SUBSET [tok : Int, of : Conns \union {Nobody}]]
    BY <2>2, <2>3, <2>4
  <2>6. Fetched'
    <3> SUFFICES ASSUME NEW q \in Reactors, NEW e \in fetched'[q] \ WakeEvents
                 PROVE  e.of \in Conns /\ Owner(e.of) = q /\ e.tok = Token(e.of)
      BY DEF Fetched
    <3>1. CASE q = r
      <4>1. PICK c \in Ready(r) : e = [tok |-> Token(c), of |-> c]
        BY <2>4, <3>1
      <4>2. QED
        BY <2>1, <3>1, <4>1
    <3>2. CASE q # r
      BY <2>4, <3>2 DEF Fetched
    <3>3. QED
      BY <3>1, <3>2
  <2>7. UNCHANGED <<connections, astray>>
    BY <1>4 DEF EpollWait, tableVars, histVars
  <2>8. QED
    BY <2>5, <2>6, <2>7 DEF Tables
<1>5. ASSUME NEW r \in Reactors, NEW e, EventStale(r, e) PROVE EventInv'
  <2>1. fetched' = [fetched EXCEPT ![r] = fetched[r] \ {e}]
    BY <1>5 DEF EventStale, Took
  <2>2. UNCHANGED <<connections, astray>>
    BY <1>5 DEF EventStale, tableVars, histVars
  <2>3. QED
    BY <1>2, <2>1, <2>2
<1>6. ASSUME NEW r \in Reactors, NEW e, NEW c \in Conns, Event(r, e, c) PROVE EventInv'
  <2>1. /\ e \in fetched[r] \ WakeEvents
        /\ c \in connections[r] /\ Token(c) = e.tok
    BY <1>6 DEF Event, Found
  <2>2. c = e.of
    BY <1>0, <2>1, TokensDiffer DEF Fetched, Tables
  <2>3. fetched' = [fetched EXCEPT ![r] = fetched[r] \ {e}]
    BY <1>6 DEF Event, Took
  <2>4. connections' = connections /\ astray' = (astray \/ c # e.of)
    BY <1>6 DEF Event, tableVars
  <2>5. astray' = astray
    <3>1. astray \in BOOLEAN
      BY DEF LifeInv, TypeOK
    <3>2. QED
      BY <2>2, <2>4, <3>1
  <2>6. QED
    BY <1>2, <2>3, <2>4, <2>5
<1>7. ASSUME NEW r \in Reactors, WakeEvent(r) PROVE EventInv'
  <2>1. PICK S \in SUBSET fetched[r] : fetched' = [fetched EXCEPT ![r] = S]
    BY <1>7 DEF WakeEvent
  <2>2. UNCHANGED <<connections, astray>>
    BY <1>7 DEF WakeEvent, histVars
  <2>3. QED
    BY <1>2, <2>1, <2>2
<1>8. ASSUME NEW r \in Reactors, CloseErase(r) PROVE EventInv'
  <2>1. PICK S \in SUBSET connections[r] : connections' = [connections EXCEPT ![r] = S]
    BY <1>8 DEF CloseErase
  <2>2. UNCHANGED <<fetched, astray>>
    BY <1>8 DEF CloseErase, histVars
  <2>3. QED
    BY <1>3, <2>1, <2>2
<1>9. ASSUME NEW r \in Reactors, NEW c \in Conns, CloseBegin(r, c) PROVE EventInv'
  <2>1. UNCHANGED <<fetched, connections, astray>>
    BY <1>9 DEF CloseBegin, tableVars, histVars
  <2>2. QED
    BY <1>1, <2>1
<1>9b. ASSUME NEW r \in Reactors, IdleScan(r) \/ CloseFd(r) \/ BucketDone(r) PROVE EventInv'
  <2>1. UNCHANGED <<fetched, connections, astray>>
    BY <1>9b DEF IdleScan, CloseFd, BucketDone, tableVars, histVars
  <2>2. QED
    BY <1>1, <2>1
<1>10. ASSUME Publish PROVE EventInv'
  <2> DEFINE r == Owner(next)
  <2>1. next \in Conns
    BY <1>10 DEF Publish, LifeInv, Adding
  <2>2. r \in Reactors
    BY <2>1, OwnerIsReactor
  <2>3. connections' = [connections EXCEPT ![r] =
                          {x \in connections[r] : Token(x) # Token(next)} \union {next}]
    BY <1>10 DEF Publish
  <2>4. Tables'
    <3> SUFFICES ASSUME NEW q \in Reactors, NEW c \in connections'[q] PROVE Owner(c) = q
      BY DEF Tables
    <3>1. c \in connections[q] \/ (q = r /\ c = next)
      BY <1>0, <2>2, <2>3
    <3>2. QED
      BY <3>1 DEF Tables
  <2>5. UNCHANGED <<fetched, astray>>
    BY <1>10 DEF Publish, loopVars, histVars
  <2>6. QED
    BY <2>4, <2>5 DEF Fetched
<1>11. ASSUME ListenEvent \/ AccWakeEvent \/ Accept \/ AcceptDone \/ OnConnect \/ OnConnectReturns
              \/ EpollAdd
       PROVE  EventInv'
  <2>1. UNCHANGED <<fetched, connections, astray>>
    BY <1>11 DEF ListenEvent, AccWakeEvent, Accept, AcceptDone, OnConnect, OnConnectReturns, EpollAdd,
       tableVars, loopVars, histVars
  <2>2. QED
    BY <1>1, <2>1
<1>12. ASSUME RequestClose \/ \E c \in Conns : ClientSends(c) \/ ClientLeaves(c) \/ CloseConn(c)
       PROVE  EventInv'
  <2>1. UNCHANGED <<fetched, connections, astray>>
    BY <1>12 DEF RequestClose, ClientSends, ClientLeaves, CloseConn, tableVars, loopVars, histVars
  <2>2. QED
    BY <1>1, <2>1
<1>13. ASSUME StopCloses PROVE EventInv'
  <2>1. at \in Reactors
    BY <1>13 DEF StopCloses, LifeInv, Joining
  <2>2. connections' = [connections EXCEPT ![at] = {}]
    BY <1>13 DEF StopCloses
  <2>3. UNCHANGED <<fetched, astray>>
    BY <1>13 DEF StopCloses, loopVars
  <2>4. {} \in SUBSET connections[at]
    OBVIOUS
  <2>5. QED
    BY <1>3, <2>1, <2>2, <2>3, <2>4
<1>14. ASSUME StopAccept \/ AcceptorJoined \/ StopReactor \/ StopDone PROVE EventInv'
  <2>1. UNCHANGED <<fetched, connections, astray>>
    BY <1>14 DEF StopAccept, AcceptorJoined, StopReactor, StopDone, tableVars, loopVars, histVars
  <2>2. QED
    BY <1>1, <2>1
<1>15. CASE UNCHANGED vars
  BY <1>1, <1>15 DEF vars, tableVars, loopVars, histVars
<1>16. ASSUME NEW r \in Reactors, Reactor(r) PROVE EventInv'
  <2>1. CASE Handle(r)
    BY <1>5, <1>6, <2>1 DEF Handle
  <2>2. CASE Close(r)
    <3>1. CASE CloseErase(r)
      BY <1>8, <3>1
    <3>2. CASE \E c \in Conns : CloseBegin(r, c)
      BY <1>9, <3>2
    <3>3. CASE CloseFd(r) \/ BucketDone(r)
      BY <1>9b, <3>3
    <3>4. QED
      BY <2>2, <3>1, <3>2, <3>3 DEF Close
  <2>3. CASE IdleScan(r)
    BY <1>9b, <2>3
  <2>4. QED
    BY <1>4, <1>7, <1>16, <2>1, <2>2, <2>3 DEF Reactor
<1>17. QED
  BY <1>10, <1>11, <1>12, <1>13, <1>14, <1>15, <1>16 DEF Next, Acceptor, Stop

(* No event of a batch reaches another connection than its own, however    *)
(* often descriptor numbers are given out again: reactor_conn_id tells     *)
(* connections of a Reactor apart for ever.                                *)
THEOREM EventsDoNotStray == Spec => []EventReachesItsConnection
<1>1. Init => EventInv
  <2> SUFFICES ASSUME Init PROVE EventInv
    OBVIOUS
  <2>1. fetched = [r \in Reactors |-> {}] /\ connections = [r \in Reactors |-> {}] /\ ~astray
    BY DEF Init
  <2>2. QED
    BY <2>1 DEF EventInv, Fetched, Tables
<1>2. EventInv => EventReachesItsConnection
  BY DEF EventInv, EventReachesItsConnection
<1>3. QED
  BY <1>1, <1>2, LifeHolds, EventStep, PTL DEF Spec

---------------------------------------------------------------------------
(* Who may act on a connection.  A connection is known to others once      *)
(* add_connection has entered it in connections_; from on_connect on a     *)
(* business may find it in the registry and ask for its close, which makes *)
(* it an early one.  Nobody else reads from it or closes it before.        *)
Known(c) == c < next \/ (c = next /\ acc \notin {"connect", "return", "insert"})
Introduced(c) == c < next \/ (c = next /\ acc # "connect")
Closable(c) == Known(c) \/ c \in early
KnownInv ==
  /\ \A c \in heard : Known(c)
  /\ \A c \in early : Introduced(c)
  /\ \A s \in Socks : book[s] # Nobody => Introduced(book[s])
  /\ caller # Nobody => Closable(caller)
  /\ \A r \in Reactors :
       /\ \A c \in bucket[r] \union pending_close[r] : Owner(c) = r /\ Closable(c)
       /\ \A c \in connections[r] : Known(c)

(* The Acceptor only ever adds to what is known.                           *)
LEMMA KnownLasts ==
  ASSUME LifeInv, [Next]_vars, NEW c \in Conns
  PROVE  /\ Known(c) => Known(c)'
         /\ Introduced(c) => Introduced(c)'
<1>0. c \in Nat /\ next \in Nat
  BY LifeAssumption DEF Conns, LifeInv, TypeOK
<1>1. CASE UNCHANGED <<acc, next>>
  BY <1>1 DEF Known, Introduced
<1>2. CASE Accept
  <2>1. next' = next + 1
    BY <1>2 DEF Accept
  <2>2. Known(c) \/ Introduced(c) => c <= next
    BY <1>0 DEF Known, Introduced
  <2>3. QED
    BY <1>0, <2>1, <2>2 DEF Known, Introduced
<1>3. CASE UNCHANGED next /\ acc' \notin {"connect", "return", "insert"}
  BY <1>3 DEF Known, Introduced
<1>4. CASE UNCHANGED next /\ acc \in {"connect", "return", "insert"} /\ acc' # "connect"
  BY <1>0, <1>4 DEF Known, Introduced
<1>5. CASE ListenEvent \/ Acceptor
  BY <1>2, <1>3, <1>4, <1>5 DEF ListenEvent, Acceptor, AccWakeEvent, AccWait, AcceptDone, OnConnect,
     OnConnectReturns, Publish, EpollAdd
<1>6. CASE UNCHANGED vars \/ (\E d \in Conns : ClientSends(d) \/ ClientLeaves(d) \/ CloseConn(d))
           \/ RequestClose \/ StopAccept \/ Stop
  BY <1>1, <1>6 DEF vars, ClientSends, ClientLeaves, CloseConn, RequestClose, StopAccept, Stop,
     AcceptorJoined, StopReactor, StopCloses, StopDone, accVars
<1>7. CASE \E r \in Reactors : Reactor(r)
  BY <1>1, <1>7 DEF Reactor, EpollWait, Handle, EventStale, Event, WakeEvent, IdleScan, Close,
     CloseBegin, CloseFd, CloseErase, BucketDone, accVars
<1>8. QED
  BY <1>5, <1>6, <1>7 DEF Next

(* What the history has recorded stays there.                              *)
LEMMA HistoryLasts == [Next]_vars => early \subseteq early' /\ (wrong => wrong')
<1> SUFFICES ASSUME [Next]_vars PROVE early \subseteq early' /\ (wrong => wrong')
  OBVIOUS
<1>1. CASE UNCHANGED vars
  BY <1>1 DEF vars, histVars
<1>2. CASE \E c \in Conns : ClientSends(c) \/ ClientLeaves(c) \/ CloseConn(c)
  BY <1>2 DEF ClientSends, ClientLeaves, CloseConn, histVars
<1>3. CASE ListenEvent \/ Acceptor \/ RequestClose
  BY <1>3 DEF ListenEvent, Acceptor, AccWakeEvent, Accept, AcceptDone, OnConnect, OnConnectReturns,
     Publish, EpollAdd, RequestClose, histVars
<1>4. CASE \E r \in Reactors : Reactor(r)
  <2>1. CASE \E r \in Reactors : CloseFd(r)
    <3>1. PICK r \in Reactors : CloseFd(r)
      BY <2>1
    <3>2. early' = early /\ wrong' = (wrong \/ ~Open(cur[r]))
      BY <3>1, Zenon DEF CloseFd
    <3>3. QED
      BY <3>2, Zenon
  <2>2. CASE ~\E r \in Reactors : CloseFd(r)
    <3>1. early' = early
      BY <1>4, <2>2 DEF Reactor, EpollWait, Handle, EventStale, Event, WakeEvent, IdleScan, Close,
         CloseBegin, CloseErase, BucketDone, histVars
    <3>2. wrong' = wrong
      BY <1>4, <2>2 DEF Reactor, EpollWait, Handle, EventStale, Event, WakeEvent, IdleScan, Close,
         CloseBegin, CloseErase, BucketDone, histVars
    <3>3. QED
      BY <3>1, <3>2
  <2>3. QED
    BY <2>1, <2>2
<1>5. CASE StopAccept \/ Stop
  <2>1. CASE StopCloses
    <3>1. early' = early
      BY <2>1 DEF StopCloses
    <3>2. wrong' = (wrong \/ \E c \in connections[at] : ~Open(c))
      BY <2>1 DEF StopCloses
    <3>3. QED
      BY <3>1, <3>2, Zenon
  <2>2. CASE ~StopCloses
    BY <1>5, <2>2 DEF StopAccept, Stop, AcceptorJoined, StopReactor, StopDone, histVars
  <2>3. QED
    BY <2>1, <2>2
<1>6. QED
  BY <1>1, <1>2, <1>3, <1>4, <1>5 DEF Next

(* What the loop is to close is what the step names.                       *)
LEMMA BucketAfter ==
  ASSUME LoopTypes, NEW r \in Reactors, NEW S, NEW there, CloseAll(r, S, there), NEW q \in Reactors
  PROVE  bucket'[q] \subseteq bucket[q] \/ (q = r /\ bucket'[q] = S)
BY DEF CloseAll, LoopTypes

LEMMA KnownStep == LifeInv /\ EventInv /\ KnownInv /\ [Next]_vars => KnownInv'
<1> SUFFICES ASSUME LifeInv, EventInv, KnownInv, [Next]_vars PROVE KnownInv'
  OBVIOUS
<1>0. /\ ConnTypes /\ KernelTypes /\ BookTypes /\ TableTypes /\ LoopTypes /\ OtherTypes /\ HistTypes
      /\ Tables /\ Adding
  BY Parts DEF LifeInv, EventInv
<1>k. \A c \in Conns : /\ Known(c) => Known(c)'
                       /\ Introduced(c) => Introduced(c)'
                       /\ Closable(c) => Closable(c)'
  BY KnownLasts, HistoryLasts DEF Closable
\* It is enough that a step adds to these sets what is known and belongs there.
<1>1. ASSUME \A c \in heard' : c \in heard \/ Known(c),
             \A c \in early' : c \in early \/ Introduced(c),
             \A s \in Socks, c \in Conns : book'[s] = c => book[s] = c \/ Introduced(c)',
             caller' # Nobody => caller' = caller \/ Known(caller') \/ caller' \in early',
             \A r \in Reactors : \A c \in bucket'[r] :
               c \in bucket[r] \/ (Owner(c) = r /\ Closable(c)),
             \A r \in Reactors : \A c \in pending_close'[r] :
               c \in pending_close[r] \/ (Owner(c) = r /\ Closable(c)),
             \A r \in Reactors : \A c \in connections'[r] : c \in connections[r] \/ Known(c)',
             LifeInv'
      PROVE  KnownInv'
  <2>0. HistTypes' /\ OtherTypes' /\ LoopTypes' /\ TableTypes' /\ BookTypes'
    BY <1>1, Parts DEF LifeInv
  <2>1. \A c \in heard' : Known(c)'
    BY <1>k, <1>1, <2>0 DEF KnownInv, HistTypes
  <2>1a. \A c \in early' : Introduced(c)'
    BY <1>k, <1>1, <2>0 DEF KnownInv, HistTypes
  <2>1b. ASSUME NEW s \in Socks, NEW c \in Conns, book'[s] = c PROVE Introduced(c)'
    <3>1. CASE book[s] = c
      <4>1. c # Nobody
        BY DEF Nobody, Conns
      <4>2. QED
        BY <1>k, <3>1, <4>1 DEF KnownInv
    <3>2. QED
      BY <1>1, <2>1b, <3>1
  <2>1c. \A s \in Socks : book'[s] # Nobody => Introduced(book[s])'
    BY <2>0, <2>1b DEF BookTypes
  <2>2. caller' # Nobody => Closable(caller)'
    <3>1. CASE caller' = caller /\ caller # Nobody
      <4>1. Closable(caller) /\ caller \in Conns
        BY <1>0, <3>1 DEF KnownInv, OtherTypes
      <4>2. PICK c \in Conns : c = caller
        BY <4>1
      <4>3. Closable(c)'
        BY <1>k, <4>1, <4>2
      <4>4. QED
        BY <3>1, <4>2, <4>3
    <3>2. CASE caller' # Nobody /\ (Known(caller') \/ caller' \in early')
      <4>1. PICK c \in Conns : c = caller'
        BY <2>0, <3>2 DEF OtherTypes
      <4>2. Closable(c)'
        BY <1>k, <3>2, <4>1 DEF Closable
      <4>3. QED
        BY <4>1, <4>2 DEF Closable, Known
    <3>3. QED
      BY <1>1, <3>1, <3>2
  <2>3. ASSUME NEW r \in Reactors, NEW c \in bucket'[r] PROVE Owner(c) = r /\ Closable(c)'
    <3>1. c \in Conns
      BY <2>0, <2>3 DEF LoopTypes
    <3>2. QED
      BY <1>k, <1>1, <2>3, <3>1 DEF KnownInv
  <2>4. ASSUME NEW r \in Reactors, NEW c \in pending_close'[r] PROVE Owner(c) = r /\ Closable(c)'
    <3>1. c \in Conns
      BY <2>0, <2>4 DEF TableTypes
    <3>2. QED
      BY <1>k, <1>1, <2>4, <3>1 DEF KnownInv
  <2>5. ASSUME NEW r \in Reactors, NEW c \in connections'[r] PROVE Known(c)'
    <3>1. c \in Conns
      BY <2>0, <2>5 DEF TableTypes
    <3>2. QED
      BY <1>k, <1>1, <2>5, <3>1 DEF KnownInv
  <2>6. QED
    BY <2>1, <2>1a, <2>1c, <2>2, <2>3, <2>4, <2>5 DEF KnownInv
\* Closing a connection only takes entries out of the registry.
<1>b. ASSUME \A s \in Socks : book'[s] = book[s] \/ book'[s] = Nobody
      PROVE  \A s \in Socks, c \in Conns : book'[s] = c => book[s] = c \/ Introduced(c)'
  BY <1>b DEF Nobody, Conns
<1>2. LifeInv'
  <2>1. CASE UNCHANGED vars
    <3>1. TypeOK'
      BY <2>1, Kept, Parts DEF LifeInv, vars
    <3>2. QED
      BY <2>1, <3>1 DEF LifeInv, Adding, Joining, vars, accVars, otherVars
  <2>2. CASE Next
    BY <2>2, OutsideTypes, AcceptorTypes, ReactorTypes, StopTypes DEF Next
  <2>3. QED
    BY <2>1, <2>2
<1>3. CASE UNCHANGED vars
  BY <1>1, <1>2, <1>3 DEF vars, tableVars, loopVars, otherVars, histVars
<1>4. ASSUME NEW c \in Conns, ClientSends(c) \/ ClientLeaves(c) PROVE KnownInv'
  <2>1. UNCHANGED <<book, tableVars, loopVars, otherVars, histVars>>
    BY <1>4 DEF ClientSends, ClientLeaves
  <2>2. QED
    BY <1>1, <1>2, <2>1 DEF tableVars, loopVars, otherVars, histVars
<1>4b. ASSUME NEW c \in Conns, CloseConn(c) PROVE KnownInv'
  <2>1. UNCHANGED <<book, tableVars, loopVars, heard, accVars>> /\ caller' = c
    BY <1>4b DEF CloseConn
  <2>2. /\ c \in heard \/ \E s \in Socks : book[s] = c
        /\ early' = IF c = next /\ acc \in {"return", "insert"} THEN early \union {c} ELSE early
    BY <1>4b DEF CloseConn
  <2>3. Introduced(c)
    <3>1. CASE c \in heard
      BY <3>1 DEF KnownInv, Known, Introduced
    <3>2. CASE \E s \in Socks : book[s] = c
      <4>1. c # Nobody
        BY DEF Nobody, Conns
      <4>2. QED
        BY <3>2, <4>1 DEF KnownInv
    <3>3. QED
      BY <2>2, <3>1, <3>2
  <2>4. Known(c) \/ c \in early'
    BY <2>2, <2>3 DEF Known, Introduced
  <2>5. \A d \in early' : d \in early \/ Introduced(d)
    BY <2>2, <2>3
  <2>6. QED
    BY <1>1, <1>2, <2>1, <2>4, <2>5 DEF tableVars, loopVars
<1>5. CASE RequestClose
  <2>1. /\ UNCHANGED <<book, connections, loopVars, histVars>> /\ caller' = Nobody /\ caller # Nobody
        /\ pending_close' = [pending_close EXCEPT ![Owner(caller)] = @ \union {caller}]
    BY <1>5 DEF RequestClose
  <2>2. Closable(caller) /\ caller \in Conns
    BY <1>0, <2>1 DEF KnownInv, OtherTypes
  <2>3. \A r \in Reactors : \A c \in pending_close'[r] :
           c \in pending_close[r] \/ (Owner(c) = r /\ Closable(c))
    BY <1>0, <2>1, <2>2, OwnerIsReactor DEF TableTypes
  <2>4. QED
    BY <1>1, <1>2, <2>1, <2>3 DEF loopVars, histVars
<1>6. CASE Publish
  <2>1. /\ UNCHANGED <<book, pending_close, loopVars, otherVars, histVars, next>> /\ acc' = "add"
        /\ connections' = [connections EXCEPT ![Owner(next)] =
                             {x \in @ : Token(x) # Token(next)} \union {next}]
    BY <1>6 DEF Publish
  <2>2. \A r \in Reactors : \A c \in connections'[r] : c \in connections[r] \/ c = next
    BY <1>0, <2>1 DEF TableTypes
  <2>3. \A c : c = next => Known(c)'
    BY <2>1 DEF Known
  <2>4. QED
    BY <1>1, <1>2, <2>1, <2>2, <2>3 DEF loopVars, otherVars, histVars
<1>6b. CASE OnConnect
  <2>1. UNCHANGED <<tableVars, loopVars, otherVars, histVars, next>> /\ acc' = "return"
    BY <1>6b DEF OnConnect
  <2>2. \A s \in Socks : book'[s] = book[s] \/ book'[s] = next
    BY <1>0, <1>6b DEF OnConnect, BookTypes
  <2>3. \A c : c = next => Introduced(c)'
    BY <2>1 DEF Introduced
  <2>4. QED
    BY <1>1, <1>2, <2>1, <2>2, <2>3 DEF tableVars, loopVars, otherVars, histVars
<1>7. CASE ListenEvent \/ AccWakeEvent \/ Accept \/ AcceptDone \/ OnConnectReturns \/ EpollAdd
  <2>1. UNCHANGED <<book, tableVars, loopVars, otherVars, histVars>>
    BY <1>7 DEF ListenEvent, AccWakeEvent, Accept, AcceptDone, OnConnectReturns, EpollAdd
  <2>2. QED
    BY <1>1, <1>2, <2>1 DEF tableVars, loopVars, otherVars, histVars
<1>8. CASE StopAccept \/ Stop
  <2>1. UNCHANGED <<pending_close, loopVars, caller, heard, early>>
    BY <1>8 DEF StopAccept, Stop, AcceptorJoined, StopReactor, StopCloses, StopDone, tableVars, histVars
  <2>2. \A r \in Reactors : \A c \in connections'[r] : c \in connections[r]
    <3>1. CASE StopCloses
      BY <1>0, <3>1 DEF StopCloses, TableTypes
    <3>2. CASE ~StopCloses
      BY <1>8, <3>2 DEF StopAccept, Stop, AcceptorJoined, StopReactor, StopDone, tableVars
    <3>3. QED
      BY <3>1, <3>2
  <2>3. \A s \in Socks : book'[s] = book[s] \/ book'[s] = Nobody
    BY <1>8 DEF StopAccept, Stop, AcceptorJoined, StopReactor, StopCloses, StopDone
  <2>4. QED
    BY <1>1, <1>2, <1>b, <2>1, <2>2, <2>3 DEF loopVars
<1>9. ASSUME NEW r \in Reactors, Reactor(r) PROVE KnownInv'
  <2>1. UNCHANGED otherVars
    BY <1>9 DEF Reactor, EpollWait, Handle, EventStale, Event, WakeEvent, IdleScan, Close,
       CloseBegin, CloseFd, CloseErase, BucketDone
  <2>2. CASE EpollWait(r) \/ (\E e \in fetched[r] : EventStale(r, e)) \/ CloseFd(r) \/ BucketDone(r)
    <3>1. UNCHANGED <<book, tableVars, bucket, heard, early>>
      BY <2>2 DEF EpollWait, EventStale, CloseFd, BucketDone, histVars
    <3>2. QED
      BY <1>1, <1>2, <2>1, <3>1 DEF tableVars, otherVars
  <2>3. ASSUME NEW e, NEW c \in Conns, Event(r, e, c) PROVE KnownInv'
    <3>1. /\ UNCHANGED <<book, tableVars, early>> /\ heard' = heard \union ({c} \intersect input)
          /\ c \in connections[r] /\ CloseAll(r, {c} \intersect gone, "events")
      BY <2>3 DEF Event, Found
    <3>2. Known(c) /\ Owner(c) = r
      BY <1>0, <3>1 DEF KnownInv, Tables
    <3>3. \A q \in Reactors : \A d \in bucket'[q] : d \in bucket[q] \/ (Owner(d) = q /\ Closable(d))
      BY <1>0, <3>1, <3>2, BucketAfter DEF Closable
    <3>4. QED
      BY <1>1, <1>2, <2>1, <3>1, <3>2, <3>3 DEF tableVars, otherVars
  <2>4. CASE WakeEvent(r)
    <3>1. UNCHANGED <<book, connections, heard, early>>
      BY <2>4 DEF WakeEvent, histVars
    <3>2. \A q \in Reactors : pending_close'[q] \subseteq pending_close[q]
      BY <1>0, <2>4 DEF WakeEvent, TableTypes
    <3>3. \A q \in Reactors : \A d \in bucket'[q] : d \in bucket[q] \/ (Owner(d) = q /\ Closable(d))
      <4>1. CASE r \in running
        <5>1. CloseAll(r, pending_close[r], "events")
          BY <2>4, <4>1 DEF WakeEvent
        <5>2. QED
          BY <1>0, <5>1, BucketAfter DEF KnownInv
      <4>2. CASE r \notin running
        BY <2>4, <4>2 DEF WakeEvent
      <4>3. QED
        BY <4>1, <4>2
    <3>4. QED
      BY <1>1, <1>2, <2>1, <3>1, <3>2, <3>3 DEF otherVars
  <2>5. CASE IdleScan(r)
    <3>1. PICK S \in SUBSET (connections[r] \intersect registered \intersect MayIdle) :
            CloseAll(r, S, "wait")
      BY <2>5 DEF IdleScan
    <3>2. UNCHANGED <<book, tableVars, histVars>>
      BY <2>5 DEF IdleScan
    <3>3. \A q \in Reactors : \A d \in bucket'[q] : d \in bucket[q] \/ (Owner(d) = q /\ Closable(d))
      <4>1. \A d \in S : Owner(d) = r /\ Known(d)
        BY <1>0 DEF KnownInv, Tables
      <4>2. QED
        BY <1>0, <3>1, <4>1, BucketAfter DEF Closable
    <3>4. QED
      BY <1>1, <1>2, <2>1, <3>2, <3>3 DEF otherVars, tableVars, histVars
  <2>6. CASE \E c \in Conns : CloseBegin(r, c)
    <3>1. UNCHANGED <<tableVars, histVars>> /\ \A q \in Reactors : bucket'[q] \subseteq bucket[q]
      BY <1>0, <2>6 DEF CloseBegin, LoopTypes
    <3>2. \A s \in Socks : book'[s] = book[s] \/ book'[s] = Nobody
      BY <1>0, <2>6 DEF CloseBegin, BookTypes
    <3>3. QED
      BY <1>1, <1>2, <1>b, <2>1, <3>1, <3>2 DEF otherVars, tableVars, histVars
  <2>7. CASE CloseErase(r)
    <3>1. /\ UNCHANGED <<book, bucket, pending_close, histVars>>
          /\ \A q \in Reactors : connections'[q] \subseteq connections[q]
      BY <1>0, <2>7 DEF CloseErase, TableTypes
    <3>2. QED
      BY <1>1, <1>2, <2>1, <3>1 DEF otherVars, histVars
  <2>8. QED
    BY <1>9, <2>2, <2>3, <2>4, <2>5, <2>6, <2>7 DEF Reactor, Handle, Close
<1>10. QED
  BY <1>3, <1>4, <1>4b, <1>5, <1>6, <1>6b, <1>7, <1>8, <1>9 DEF Next, Acceptor

---------------------------------------------------------------------------
(* The registry and the descriptors.  A descriptor's owner knows its       *)
(* number; a connected one has its handler and its descriptor; one that a  *)
(* Reactor is closing still has the descriptor until close() and then only *)
(* its entry in connections_; a table holds connected ones, and early ones *)
(* that may be closed already; the one being added is connected, unless    *)
(* it is early.  All that until a close() hits a descriptor of another.    *)
Descriptors == \A s \in Socks : fd[s] # Nobody => fd[s] <= next /\ sock[fd[s]] = s
OpenOnes ==
  /\ handler = connected
  /\ \A c \in connected : c <= next /\ sock[c] \in Socks /\ fd[sock[c]] = c
Closing ==
  \A r \in Reactors :
    /\ loop[r] \in {"close", "erase"} =>
         cur[r] \in Conns \ connected /\ Owner(cur[r]) = r /\ cur[r] <= next
    /\ loop[r] = "close" => sock[cur[r]] \in Socks /\ fd[sock[cur[r]]] = cur[r]
Tabled == \A r \in Reactors : \A c \in connections[r] :
            \/ c \in connected \/ c \in early
            \/ loop[r] \in {"close", "erase"} /\ cur[r] = c
Added ==
  /\ acc = "connect" => next \in connected
  /\ acc \in {"return", "insert"} => next \in connected \/ next \in early
Followed ==
  /\ \A c \in Conns : Connected(c) => book[sock[c]] = c
  /\ \A s \in Socks : book[s] # Nobody => fd[s] = book[s] /\ book[s] \in connected

Orderly == Descriptors /\ OpenOnes /\ Closing /\ Tabled /\ Added /\ Followed
RegInv == (early = {} => ~wrong) /\ (~wrong => Orderly)

LEMMA InitReg == Init => RegInv /\ KnownInv
<1> SUFFICES ASSUME Init PROVE RegInv /\ KnownInv
  OBVIOUS
<1>1. Descriptors /\ OpenOnes /\ Closing /\ Tabled /\ Added
  BY DEF Init, Descriptors, OpenOnes, Closing, Tabled, Added
<1>2. Followed
  BY DEF Init, Followed, Connected
<1>3. KnownInv
  BY DEF Init, KnownInv
<1>4. QED
  BY <1>1, <1>2, <1>3 DEF Init, Orderly, RegInv

(* Steps that touch no descriptor, no registry entry and no table.         *)
LEMMA QuietStep ==
  ASSUME Orderly, UNCHANGED <<connVars, fd, book, connections, next, cur>>,
         early \subseteq early',
         acc' = "connect" <=> acc = "connect",
         acc' \in {"return", "insert"} => acc \in {"return", "insert"},
         \A r \in Reactors : loop'[r] \in {"close", "erase"} \/ loop[r] \in {"close", "erase"}
                               => loop'[r] = loop[r]
  PROVE  Orderly'
<1>1. Descriptors' /\ OpenOnes' /\ Added'
  BY DEF Orderly, Descriptors, OpenOnes, Added, connVars
<1>2. Closing'
  BY DEF Orderly, Closing, connVars
<1>3. Tabled'
  BY DEF Orderly, Tabled, connVars
<1>4. Followed'
  BY DEF Orderly, Followed, Connected, connVars
<1>5. QED
  BY <1>1, <1>2, <1>3, <1>4 DEF Orderly

(* accept() gives a number nobody has.                                     *)
LEMMA AcceptReg == LifeInv /\ Orderly /\ Accept => Orderly'
<1> SUFFICES ASSUME LifeInv, Orderly, Accept PROVE Orderly'
  OBVIOUS
<1>0. ConnTypes /\ KernelTypes /\ LoopTypes /\ AccTypes /\ BookTypes /\ TableTypes
  BY Parts DEF LifeInv
<1> DEFINE c == next + 1
<1>1. PICK s \in Free :
        /\ next < MaxConns /\ next' = c
        /\ fd' = [fd EXCEPT ![s] = c] /\ sock' = [sock EXCEPT ![c] = s]
        /\ connected' = connected \union {c} /\ handler' = handler \union {c}
        /\ acc = "accept" /\ acc' = "connect"
        /\ UNCHANGED <<registered, posted, input, gone, book, tableVars, loopVars, accepting,
                       acc_woken, otherVars, histVars>>
  BY DEF Accept
<1>2. /\ c \in Conns /\ s \in Socks /\ fd[s] = Nobody /\ next \in Nat /\ c > next
      /\ Conns \subseteq Nat
  BY <1>0, <1>1, LifeAssumption DEF AccTypes, Conns, Free
<1> HIDE DEF c
<1>3. \A d \in Conns : d <= next => d # c /\ sock'[d] = sock[d] /\ d <= c
  BY <1>0, <1>1, <1>2 DEF ConnTypes
<1>4. sock'[c] = s /\ fd'[s] = c /\ \A x \in Socks : x # s => fd'[x] = fd[x]
  BY <1>0, <1>1, <1>2 DEF ConnTypes, KernelTypes
<1>5. Nobody \notin Conns
  BY DEF Nobody, Conns
<1>6. Descriptors'
  <2>1. c <= c
    BY <1>2
  <2>2. ASSUME NEW x \in Socks, x # s, fd[x] # Nobody PROVE fd[x] <= c /\ sock'[fd[x]] = x
    BY <1>0, <1>3, <2>2 DEF Orderly, Descriptors, KernelTypes
  <2>3. QED
    BY <1>1, <1>4, <2>1, <2>2 DEF Descriptors
<1>7. \A d \in connected : d \in Conns /\ sock'[d] = sock[d] /\ d <= c /\ sock[d] \in Socks /\ fd'[sock[d]] = d
  BY <1>0, <1>2, <1>3, <1>4, <1>5 DEF Orderly, OpenOnes, ConnTypes
<1>8. OpenOnes'
  <2>1. c <= c
    BY <1>2
  <2>2. QED
    BY <1>1, <1>2, <1>4, <1>7, <2>1 DEF Orderly, OpenOnes
<1>9. Closing'
  <2>0. loop' = loop /\ cur' = cur
    BY <1>1 DEF loopVars
  <2>1. ASSUME NEW r \in Reactors, loop[r] \in {"close", "erase"}
        PROVE  /\ cur[r] \in Conns \ connected' /\ Owner(cur[r]) = r /\ cur[r] <= c
               /\ sock'[cur[r]] = sock[cur[r]]
    BY <1>1, <1>3, <2>1 DEF Orderly, Closing
  <2>2. ASSUME NEW r \in Reactors, loop[r] = "close"
        PROVE  sock[cur[r]] \in Socks /\ fd'[sock[cur[r]]] = cur[r]
    BY <1>2, <1>4, <1>5, <2>2 DEF Orderly, Closing
  <2>3. QED
    BY <1>1, <2>0, <2>1, <2>2 DEF Closing
<1>10. Tabled'
  BY <1>1 DEF Orderly, Tabled, tableVars, loopVars, histVars
<1>11. Added'
  BY <1>1 DEF Added
<1>12. Followed'
  <2>1. \A d \in Conns : Connected(d)' => d \in connected
    BY <1>1 DEF Connected
  <2>2. \A d \in Conns : Connected(d)' => book'[sock'[d]] = d
    <3> SUFFICES ASSUME NEW d \in Conns, Connected(d)' PROVE book'[sock'[d]] = d
      OBVIOUS
    <3>1. Connected(d)
      BY <1>1, <2>1 DEF Connected
    <3>2. QED
      BY <1>1, <1>7, <2>1, <3>1 DEF Orderly, Followed
  <2>3. \A x \in Socks : book'[x] # Nobody => fd'[x] = book'[x] /\ book'[x] \in connected'
    BY <1>1, <1>2, <1>4 DEF Orderly, Followed
  <2>4. QED
    BY <2>2, <2>3 DEF Followed
<1>13. QED
  BY <1>6, <1>8, <1>9, <1>10, <1>11, <1>12 DEF Orderly

(* on_connect finds no entry of an earlier owner of the number.            *)
LEMMA OnConnectReg == LifeInv /\ Orderly /\ OnConnect => Orderly'
<1> SUFFICES ASSUME LifeInv, Orderly, OnConnect PROVE Orderly'
  OBVIOUS
<1>0. ConnTypes /\ KernelTypes /\ BookTypes /\ Adding
  BY Parts DEF LifeInv
<1> DEFINE s == sock[next]
<1>1. /\ book' = (IF book[s] = Nobody THEN [book EXCEPT ![s] = next] ELSE book)
      /\ acc = "connect" /\ acc' = "return"
      /\ UNCHANGED <<connVars, kernelVars, tableVars, loopVars, next, accepting, acc_woken,
                     otherVars, histVars>>
  BY DEF OnConnect
<1>2. next \in connected /\ next \in Conns /\ s \in Socks /\ fd[s] = next
  BY <1>0, <1>1 DEF Orderly, Added, OpenOnes, Adding
<1>3. book'[s] = next /\ \A x \in Socks : x # s => book'[x] = book[x]
  <2>1. book[s] # Nobody => book[s] = next
    BY <1>2 DEF Orderly, Followed
  <2>2. QED
    BY <1>0, <1>1, <1>2, <2>1 DEF BookTypes
<1> HIDE DEF s
<1>4. Descriptors' /\ OpenOnes' /\ Added'
  BY <1>1 DEF Orderly, Descriptors, OpenOnes, Added, connVars, kernelVars, histVars
<1>5. Closing' /\ Tabled'
  BY <1>1 DEF Orderly, Closing, Tabled, connVars, kernelVars, loopVars, tableVars, histVars
<1>6. Followed'
  <2>1. ASSUME NEW d \in Conns, Connected(d)' PROVE book'[sock'[d]] = d
    <3>1. d \in connected /\ sock[d] \in Socks /\ fd[sock[d]] = d /\ sock' = sock
      BY <1>1, <2>1 DEF Orderly, OpenOnes, Connected, connVars
    <3>2. CASE d = next
      BY <1>3, <3>1, <3>2 DEF s
    <3>3. CASE d # next
      <4>1. sock[d] # s /\ Connected(d)
        BY <1>2, <3>1, <3>3 DEF Connected
      <4>2. QED
        BY <1>3, <3>1, <4>1 DEF Orderly, Followed
    <3>4. QED
      BY <3>2, <3>3
  <2>2. \A x \in Socks : book'[x] # Nobody => fd'[x] = book'[x] /\ book'[x] \in connected'
    BY <1>1, <1>2, <1>3 DEF Orderly, Followed, connVars, kernelVars
  <2>3. QED
    BY <1>1, <2>1, <2>2 DEF Followed
<1>7. QED
  BY <1>4, <1>5, <1>6 DEF Orderly

(* The entry replaces none, and is of a connected one or of an early one.  *)
LEMMA PublishReg == LifeInv /\ Orderly /\ Publish => Orderly'
<1> SUFFICES ASSUME LifeInv, Orderly, Publish PROVE Orderly'
  OBVIOUS
<1>0. TableTypes
  BY Parts DEF LifeInv
<1>1. /\ connections' = [connections EXCEPT ![Owner(next)] =
                          {x \in @ : Token(x) # Token(next)} \union {next}]
      /\ acc = "insert" /\ acc' = "add"
      /\ UNCHANGED <<connVars, kernelVars, book, loopVars, next, histVars>>
  BY DEF Publish
<1>2. next \in connected \/ next \in early
  BY <1>1 DEF Orderly, Added
<1>3. Descriptors' /\ OpenOnes' /\ Added'
  BY <1>1 DEF Orderly, Descriptors, OpenOnes, Added, connVars, kernelVars, histVars
<1>4. Closing'
  BY <1>1 DEF Orderly, Closing, connVars, kernelVars, loopVars
<1>5. Tabled'
  <2>1. \A r \in Reactors : \A c \in connections'[r] : c \in connections[r] \/ c = next
    BY <1>0, <1>1 DEF TableTypes
  <2>2. QED
    BY <1>1, <1>2, <2>1 DEF Orderly, Tabled, connVars, loopVars, histVars
<1>6. Followed'
  BY <1>1 DEF Orderly, Followed, Connected, connVars, kernelVars
<1>7. QED
  BY <1>3, <1>4, <1>5, <1>6 DEF Orderly

(* close_client takes the flag, the handler and the registry entry away    *)
(* together: the entry under its number is its own.                        *)
LEMMA CloseBeginReg ==
  ASSUME LifeInv, EventInv, KnownInv, Orderly, NEW r \in Reactors, NEW c \in Conns, CloseBegin(r, c)
  PROVE  Orderly'
<1>0. ConnTypes /\ KernelTypes /\ BookTypes /\ LoopTypes /\ TableTypes /\ Tables /\ Conns \subseteq Nat
  BY Parts DEF LifeInv, EventInv, Conns
<1>1. /\ loop[r] = "bucket" /\ c \in bucket[r]
      /\ UNCHANGED <<sock, kernelVars, tableVars, accVars, histVars>>
  BY DEF CloseBegin
<1>2. CASE c \notin connected
  <2>1. UNCHANGED <<connVars, fd, book, connections, next, acc, cur, loop, early>>
    BY <1>1, <1>2 DEF CloseBegin, connVars, kernelVars, tableVars, accVars, histVars
  <2>2. QED
    BY <2>1, QuietStep
<1>3. CASE c \in connected
  <2>1. /\ connected' = connected \ {c} /\ handler' = handler \ {c}
        /\ book' = [book EXCEPT ![sock[c]] = Nobody]
        /\ cur' = [cur EXCEPT ![r] = c] /\ loop' = [loop EXCEPT ![r] = "close"]
        /\ UNCHANGED <<sock, fd, connections, next, acc, early>>
    BY <1>1, <1>3 DEF CloseBegin, Loop, kernelVars, tableVars, accVars, histVars
  <2>2. sock[c] \in Socks /\ fd[sock[c]] = c /\ c <= next /\ Owner(c) = r /\ Closable(c)
    BY <1>1, <1>3 DEF Orderly, OpenOnes, KnownInv
  <2>3. Descriptors' /\ OpenOnes'
    BY <2>1 DEF Orderly, Descriptors, OpenOnes
  <2>4. Closing'
    <3> SUFFICES ASSUME NEW q \in Reactors
                 PROVE  /\ loop'[q] \in {"close", "erase"} =>
                             cur'[q] \in Conns \ connected' /\ Owner(cur'[q]) = q /\ cur'[q] <= next
                        /\ loop'[q] = "close" => sock[cur'[q]] \in Socks /\ fd[sock[cur'[q]]] = cur'[q]
      BY <2>1 DEF Closing
    <3>1. CASE q = r
      <4>1. cur'[q] = c
        BY <1>0, <2>1, <3>1 DEF LoopTypes
      <4>2. QED
        BY <2>1, <2>2, <3>1, <4>1
    <3>2. CASE q # r
      <4>1. cur'[q] = cur[q] /\ loop'[q] = loop[q]
        BY <1>0, <2>1, <3>2 DEF LoopTypes
      <4>2. QED
        BY <2>1, <4>1 DEF Orderly, Closing
    <3>3. QED
      BY <3>1, <3>2
  <2>5. Tabled'
    <3> SUFFICES ASSUME NEW q \in Reactors, NEW d \in connections[q]
                 PROVE  \/ d \in connected' \/ d \in early
                        \/ loop'[q] \in {"close", "erase"} /\ cur'[q] = d
      BY <2>1 DEF Tabled
    <3>1. CASE q = r
      <4>1. d \in connected \union early /\ cur'[q] = c /\ loop'[q] = "close"
        BY <1>0, <1>1, <2>1, <3>1 DEF Orderly, Tabled, LoopTypes
      <4>2. QED
        BY <2>1, <4>1
    <3>2. CASE q # r
      <4>1. cur'[q] = cur[q] /\ loop'[q] = loop[q] /\ d # c
        BY <1>0, <2>1, <2>2, <3>2 DEF LoopTypes, Tables
      <4>2. QED
        BY <2>1, <4>1 DEF Orderly, Tabled
    <3>3. QED
      BY <3>1, <3>2
  <2>6. Added'
    <3>1. acc = "connect" => c # next
      BY <1>0, <2>2 DEF Closable, Known, Introduced, KnownInv
    <3>2. acc \in {"return", "insert"} => c # next \/ next \in early
      BY <1>0, <2>2 DEF Closable, Known
    <3>3. QED
      BY <2>1, <3>1, <3>2 DEF Orderly, Added
  <2>7. Followed'
    <3>1. ASSUME NEW d \in Conns, Connected(d)' PROVE book'[sock'[d]] = d
      <4>1. d # c /\ Connected(d) /\ d \in connected
        BY <2>1, <3>1 DEF Connected
      <4>2. sock[d] \in Socks /\ fd[sock[d]] = d /\ book[sock[d]] = d
        BY <4>1 DEF Orderly, OpenOnes, Followed
      <4>3. QED
        BY <1>0, <2>1, <2>2, <4>1, <4>2 DEF BookTypes
    <3>2. ASSUME NEW s \in Socks, book'[s] # Nobody PROVE fd'[s] = book'[s] /\ book'[s] \in connected'
      <4>1. s # sock[c] /\ book'[s] = book[s]
        BY <1>0, <2>1, <2>2, <3>2 DEF BookTypes
      <4>2. fd[s] = book[s] /\ book[s] \in connected
        BY <3>2, <4>1 DEF Orderly, Followed
      <4>3. book[s] # c
        <5>1. c # Nobody
          BY DEF Nobody, Conns
        <5>2. QED
          BY <4>1, <4>2, <5>1 DEF Orderly, Descriptors
      <4>4. QED
        BY <2>1, <4>1, <4>2, <4>3
    <3>3. QED
      BY <2>1, <3>1, <3>2 DEF Orderly, Followed
  <2>8. QED
    BY <2>3, <2>4, <2>5, <2>6, <2>7 DEF Orderly
<1>4. QED
  BY <1>2, <1>3

(* close() is called on the descriptor of the connection being closed.     *)
LEMMA CloseFdReg ==
  ASSUME LifeInv, Orderly, NEW r \in Reactors, CloseFd(r)
  PROVE  Orderly' /\ wrong' = wrong
<1>0. ConnTypes /\ KernelTypes /\ BookTypes /\ LoopTypes /\ Conns \subseteq Nat /\ 0 \notin Conns /\ 0 \notin Socks
  BY Parts, LifeAssumption DEF LifeInv, Conns
<1>1. /\ loop[r] = "close" /\ wrong' = (wrong \/ ~Open(cur[r]))
      /\ fd' = [fd EXCEPT ![sock[cur[r]]] = Nobody]
      /\ loop' = [loop EXCEPT ![r] = "erase"]
      /\ UNCHANGED <<connVars, book, tableVars, cur, accVars, early>>
  BY DEF CloseFd, Loop
<1> DEFINE s == sock[cur[r]]
<1>2. /\ cur[r] \in Conns \ connected /\ Owner(cur[r]) = r /\ cur[r] <= next
      /\ s \in Socks /\ fd[s] = cur[r]
  BY <1>1 DEF Orderly, Closing
<1>3. wrong' = wrong
  <2>1. wrong \in BOOLEAN
    BY Parts DEF LifeInv, HistTypes
  <2>2. Open(cur[r])
    BY <1>0, <1>2 DEF Open
  <2>3. QED
    BY <1>1, <2>1, <2>2
<1>4. fd'[s] = Nobody /\ \A x \in Socks : x # s => fd'[x] = fd[x]
  BY <1>0, <1>1, <1>2 DEF KernelTypes
<1> HIDE DEF s
<1>5. Descriptors'
  BY <1>1, <1>4 DEF Orderly, Descriptors, connVars, accVars
<1>6. \A d \in connected : sock[d] # s
  BY <1>2 DEF Orderly, OpenOnes
<1>7. OpenOnes'
  BY <1>1, <1>4, <1>6 DEF Orderly, OpenOnes, connVars, accVars
<1>8. Closing'
  <2> SUFFICES ASSUME NEW q \in Reactors
               PROVE  /\ loop'[q] \in {"close", "erase"} =>
                           cur[q] \in Conns \ connected /\ Owner(cur[q]) = q /\ cur[q] <= next
                      /\ loop'[q] = "close" => sock[cur[q]] \in Socks /\ fd'[sock[cur[q]]] = cur[q]
    BY <1>1 DEF Closing, connVars, accVars
  <2>1. CASE q = r
    BY <1>0, <1>1, <1>2, <2>1 DEF LoopTypes
  <2>2. CASE q # r
    <3>1. loop'[q] = loop[q]
      BY <1>0, <1>1, <2>2 DEF LoopTypes
    <3>2. loop[q] = "close" => sock[cur[q]] # s
      BY <1>2, <2>2 DEF Orderly, Closing
    <3>3. QED
      BY <1>4, <3>1, <3>2 DEF Orderly, Closing
  <2>3. QED
    BY <2>1, <2>2
<1>9. Tabled'
  <2>1. \A q \in Reactors : loop[q] \in {"close", "erase"} => loop'[q] \in {"close", "erase"}
    BY <1>0, <1>1 DEF LoopTypes
  <2>2. QED
    BY <1>1, <2>1 DEF Orderly, Tabled, tableVars, connVars
<1>10. Added'
  BY <1>1 DEF Orderly, Added, connVars, accVars
<1>11. Followed'
  <2>1. \A x \in Socks : book[x] # Nobody => x # s
    BY <1>2 DEF Orderly, Followed
  <2>2. \A d \in Conns : Connected(d)' => book'[sock'[d]] = d
    BY <1>1 DEF Orderly, Followed, Connected, connVars, accVars
  <2>3. QED
    BY <1>1, <1>4, <2>1, <2>2 DEF Orderly, Followed, connVars
<1>12. QED
  BY <1>3, <1>5, <1>7, <1>8, <1>9, <1>10, <1>11 DEF Orderly

(* The entry in connections_ goes last.                                    *)
LEMMA CloseEraseReg ==
  ASSUME LifeInv, Orderly, NEW r \in Reactors, CloseErase(r)
  PROVE  Orderly'
<1>0. LoopTypes /\ TableTypes
  BY Parts DEF LifeInv
<1>1. /\ loop[r] = "erase" /\ loop' = [loop EXCEPT ![r] = "bucket"]
      /\ connections' = [connections EXCEPT ![r] = {x \in @ : Token(x) # Token(cur[r])}]
      /\ cur' = [cur EXCEPT ![r] = Nobody]
      /\ UNCHANGED <<connVars, kernelVars, book, accVars, histVars>>
  BY DEF CloseErase, Loop
<1>2. Descriptors' /\ OpenOnes' /\ Added'
  BY <1>1 DEF Orderly, Descriptors, OpenOnes, Added, connVars, kernelVars, accVars, histVars
<1>3. \A q \in Reactors : q # r => loop'[q] = loop[q] /\ cur'[q] = cur[q] /\ connections'[q] = connections[q]
  BY <1>0, <1>1 DEF LoopTypes, TableTypes
<1>4. loop'[r] = "bucket" /\ connections'[r] = {x \in connections[r] : Token(x) # Token(cur[r])}
  BY <1>0, <1>1 DEF LoopTypes, TableTypes
<1>5. Closing'
  BY <1>1, <1>3, <1>4 DEF Orderly, Closing, connVars, kernelVars, accVars
<1>6. Tabled'
  BY <1>1, <1>3, <1>4 DEF Orderly, Tabled, connVars, histVars
<1>7. Followed'
  BY <1>1 DEF Orderly, Followed, Connected, connVars, kernelVars, accVars
<1>8. QED
  BY <1>2, <1>5, <1>6, <1>7 DEF Orderly

(* Reactor::stop, after the join, when what is left in its table still has *)
(* its descriptor: then it is connected, or somebody's early one.          *)
LEMMA StopClosesReg ==
  ASSUME LifeInv, EventInv, KnownInv, Orderly, StopCloses, \A c \in connections[at] : Open(c)
  PROVE  Orderly'
<1>0. /\ ConnTypes /\ KernelTypes /\ BookTypes /\ LoopTypes /\ TableTypes /\ Tables /\ Joining
      /\ Conns \subseteq Nat /\ 0 \notin Conns /\ 0 \notin Socks
  BY Parts, LifeAssumption DEF LifeInv, EventInv, Conns
<1> DEFINE left == connections[at]
<1> DEFINE socks == {sock[c] : c \in left}
<1>1. /\ stage = "join" /\ loop[at] = "exited"
      /\ connected' = connected \ left /\ handler' = handler \ left
      /\ book' = [s \in Socks |-> IF s \in {sock[c] : c \in left \intersect handler} THEN Nobody ELSE book[s]]
      /\ fd' = [s \in Socks |-> IF s \in socks THEN Nobody ELSE fd[s]]
      /\ connections' = [connections EXCEPT ![at] = {}]
      /\ UNCHANGED <<sock, loopVars, accVars, early>>
  BY DEF StopCloses
<1>2. at \in Reactors
  BY <1>0, <1>1 DEF Joining
<1>3. left \subseteq Conns
  BY <1>0, <1>2 DEF TableTypes
<1>4. \A c \in left : c \in Conns /\ sock[c] \in Socks /\ fd[sock[c]] = c /\ Known(c) /\ Owner(c) = at
  BY <1>0, <1>2, <1>3 DEF Open, KnownInv, Tables, ConnTypes
<1>5. ASSUME NEW c \in left, c \notin handler PROVE book[sock[c]] = Nobody
  BY <1>4, <1>5 DEF Orderly, OpenOnes, Followed
<1>6. book' = [s \in Socks |-> IF s \in socks THEN Nobody ELSE book[s]]
  <2>1. \A s \in Socks : book'[s] = IF s \in socks THEN Nobody ELSE book[s]
    <3> SUFFICES ASSUME NEW s \in Socks PROVE book'[s] = IF s \in socks THEN Nobody ELSE book[s]
      OBVIOUS
    <3>1. CASE s \in {sock[c] : c \in left \intersect handler}
      BY <1>1, <3>1
    <3>2. CASE s \notin {sock[c] : c \in left \intersect handler}
      <4>1. s \in socks => book[s] = Nobody
        BY <1>5, <3>2
      <4>2. QED
        BY <1>1, <3>2, <4>1
    <3>3. QED
      BY <3>1, <3>2
  <2>2. QED
    BY <1>1, <2>1
<1> HIDE DEF left
<1>7. \A d \in Conns : d \notin left => \A c \in left : fd[sock[d]] = d => sock[d] # sock[c]
  BY <1>4
<1>8. Descriptors'
  BY <1>1 DEF Orderly, Descriptors, accVars
<1>9. OpenOnes'
  <2>1. ASSUME NEW d \in connected, d \notin left PROVE fd'[sock[d]] = d /\ sock[d] \in Socks /\ d <= next
    <3>1. d \in Conns /\ fd[sock[d]] = d /\ sock[d] \in Socks /\ d <= next
      BY <1>0 DEF Orderly, OpenOnes, ConnTypes
    <3>2. sock[d] \notin socks
      BY <1>7, <2>1, <3>1
    <3>3. QED
      BY <1>1, <3>1, <3>2
  <2>2. handler' = connected'
    BY <1>1 DEF Orderly, OpenOnes
  <2>3. QED
    BY <1>1, <2>1, <2>2 DEF OpenOnes, accVars
<1>10. Closing'
  <2>0. loop' = loop /\ cur' = cur /\ next' = next
    BY <1>1 DEF loopVars, accVars
  <2>1. ASSUME NEW q \in Reactors, loop[q] = "close"
        PROVE  sock[cur[q]] \in Socks /\ fd'[sock[cur[q]]] = cur[q]
    <3>1. sock[cur[q]] \in Socks /\ fd[sock[cur[q]]] = cur[q] /\ cur[q] \in Conns /\ Owner(cur[q]) = q
      BY <2>1 DEF Orderly, Closing
    <3>2. cur[q] \notin left
      BY <1>1, <1>4, <2>1, <3>1
    <3>2a. sock[cur[q]] \notin socks
      BY <1>7, <3>1, <3>2
    <3>3. QED
      BY <1>1, <3>1, <3>2a
  <2>2. QED
    BY <1>1, <2>0, <2>1 DEF Orderly, Closing
<1>11. Tabled'
  <2>1. ASSUME NEW q \in Reactors, NEW d \in connections'[q]
        PROVE  d \in connected' \/ d \in early \/ (loop[q] \in {"close", "erase"} /\ cur[q] = d)
    <3>1. q # at /\ d \in connections[q]
      BY <1>0, <1>1, <1>2, <2>1 DEF TableTypes
    <3>2. d \notin left
      BY <1>0, <1>4, <3>1 DEF Tables
    <3>3. QED
      BY <1>1, <3>1, <3>2 DEF Orderly, Tabled
  <2>2. QED
    BY <1>1, <2>1 DEF Tabled, loopVars
<1>12. Added'
  <2>1. acc \in {"connect", "return", "insert"} => next \notin left
    <3>1. next \in left => Known(next) /\ next \in Nat
      BY <1>0, <1>4
    <3>2. \A n \in Nat : ~(n < n)
      OBVIOUS
    <3>3. QED
      BY <3>1, <3>2 DEF Known
  <2>2. QED
    BY <1>1, <2>1 DEF Orderly, Added, accVars
<1>13. Followed'
  <2>1. ASSUME NEW d \in Conns, Connected(d)' PROVE book'[sock'[d]] = d
    <3>1. d \in connected /\ d \notin left /\ Connected(d)
      BY <1>1, <2>1 DEF Connected, accVars
    <3>2. sock[d] \in Socks /\ fd[sock[d]] = d /\ book[sock[d]] = d
      BY <3>1 DEF Orderly, OpenOnes, Followed
    <3>3. sock[d] \notin socks
      BY <1>7, <3>1, <3>2
    <3>4. QED
      BY <1>1, <1>6, <3>2, <3>3
  <2>2. ASSUME NEW s \in Socks, book'[s] # Nobody PROVE fd'[s] = book'[s] /\ book'[s] \in connected'
    <3>1. s \notin socks /\ book'[s] = book[s] /\ fd'[s] = fd[s]
      BY <1>1, <1>6, <2>2
    <3>2. fd[s] = book[s] /\ book[s] \in connected
      BY <2>2, <3>1 DEF Orderly, Followed
    <3>3. sock[fd[s]] = s
      BY <2>2, <3>1, <3>2 DEF Orderly, Descriptors
    <3>4. book[s] \notin left
      BY <3>1, <3>2, <3>3
    <3>5. QED
      BY <1>1, <3>1, <3>2, <3>4
  <2>3. QED
    BY <2>1, <2>2 DEF Followed
<1>14. QED
  BY <1>8, <1>9, <1>10, <1>11, <1>12, <1>13 DEF Orderly

(* Every step keeps the order, but a sweep that finds a closed one.        *)
LEMMA OrderlyStep ==
  ASSUME LifeInv, EventInv, KnownInv, Orderly, [Next]_vars,
         StopCloses => \A c \in connections[at] : Open(c)
  PROVE  Orderly'
<1>0. LoopTypes
  BY Parts DEF LifeInv
<1>e. early \subseteq early'
  BY HistoryLasts
<1>1. CASE UNCHANGED vars
  BY <1>e, <1>1, QuietStep DEF vars, connVars, kernelVars, tableVars, loopVars, accVars, histVars
<1>2. CASE \/ \E c \in Conns : ClientSends(c) \/ ClientLeaves(c) \/ CloseConn(c)
           \/ RequestClose \/ StopAccept \/ AcceptorJoined \/ StopReactor \/ StopDone
  <2>1. UNCHANGED <<connVars, fd, book, connections, next, acc, cur, loop>>
    BY <1>2 DEF ClientSends, ClientLeaves, CloseConn, RequestClose, StopAccept, AcceptorJoined,
       StopReactor, StopDone, kernelVars, tableVars, loopVars, accVars, histVars
  <2>2. QED
    BY <1>e, <2>1, QuietStep
<1>3. CASE ListenEvent \/ AccWakeEvent \/ AcceptDone \/ OnConnectReturns \/ EpollAdd
  <2>1. /\ UNCHANGED <<connVars, fd, book, connections, next, cur, loop>>
        /\ acc' = "connect" <=> acc = "connect"
        /\ acc' \in {"return", "insert"} => acc \in {"return", "insert"}
    BY <1>3 DEF ListenEvent, AccWakeEvent, AccWait, AcceptDone, OnConnectReturns, EpollAdd,
       kernelVars, tableVars, loopVars, histVars
  <2>2. QED
    BY <1>e, <2>1, QuietStep
<1>4. ASSUME NEW r \in Reactors, NEW S, NEW there \in {"wait", "events"}, CloseAll(r, S, there),
             loop[r] \in {"wait", "events"}
      PROVE  \A q \in Reactors : loop'[q] \in {"close", "erase"} \/ loop[q] \in {"close", "erase"}
                                   => loop'[q] = loop[q]
  BY <1>0, <1>4 DEF CloseAll, Loop, Resumed, LoopTypes
<1>5. ASSUME NEW r \in Reactors, EpollWait(r) \/ Handle(r) \/ WakeEvent(r) \/ IdleScan(r) \/ BucketDone(r)
      PROVE  Orderly'
  <2>1. UNCHANGED <<connVars, fd, book, connections, next, acc, cur>>
    BY <1>5 DEF EpollWait, Handle, EventStale, Event, WakeEvent, IdleScan, BucketDone, kernelVars,
       tableVars, accVars, histVars
  <2>2. \A q \in Reactors : loop'[q] \in {"close", "erase"} \/ loop[q] \in {"close", "erase"}
                              => loop'[q] = loop[q]
    <3>1. CASE EpollWait(r)
      BY <1>0, <3>1 DEF EpollWait, Loop, LoopTypes
    <3>2. CASE BucketDone(r)
      <4>1. Resumed(r, back[r]) \in {"wait", "events", "exited"}
        BY <1>0 DEF Resumed, LoopTypes
      <4>2. QED
        BY <1>0, <3>2, <4>1 DEF BucketDone, Loop, LoopTypes
    <3>3. CASE Handle(r)
      BY <1>4, <3>3 DEF Handle, EventStale, Event
    <3>4. CASE WakeEvent(r)
      BY <1>4, <3>4 DEF WakeEvent
    <3>5. CASE IdleScan(r)
      BY <1>4, <3>5 DEF IdleScan
    <3>6. QED
      BY <1>5, <3>1, <3>2, <3>3, <3>4, <3>5
  <2>3. QED
    BY <1>e, <2>1, <2>2, QuietStep
<1>6. CASE \E r \in Reactors : Reactor(r)
  BY <1>5, <1>6, CloseBeginReg, CloseFdReg, CloseEraseReg DEF Reactor, Close
<1>7. CASE Accept \/ OnConnect \/ Publish \/ StopCloses
  BY <1>7, AcceptReg, OnConnectReg, PublishReg, StopClosesReg
<1>8. QED
  BY <1>1, <1>2, <1>3, <1>6, <1>7 DEF Next, Acceptor, Stop

(* Only the sweep of Reactor::stop may close a number of somebody else.    *)
LEMMA RightNumber ==
  ASSUME LifeInv, Orderly, [Next]_vars, ~StopCloses
  PROVE  wrong' = wrong
<1>1. CASE UNCHANGED vars
  BY <1>1 DEF vars, histVars
<1>2. CASE \/ \E c \in Conns : ClientSends(c) \/ ClientLeaves(c) \/ CloseConn(c)
           \/ RequestClose \/ StopAccept \/ AcceptorJoined \/ StopReactor \/ StopDone
  BY <1>2 DEF ClientSends, ClientLeaves, CloseConn, RequestClose, StopAccept, AcceptorJoined,
     StopReactor, StopDone, histVars
<1>3. CASE ListenEvent \/ Acceptor
  BY <1>3 DEF ListenEvent, Acceptor, AccWakeEvent, Accept, AcceptDone, OnConnect, OnConnectReturns,
     Publish, EpollAdd, histVars
<1>4. ASSUME NEW r \in Reactors, Reactor(r) PROVE wrong' = wrong
  <2>1. CASE CloseFd(r)
    BY <2>1, CloseFdReg
  <2>2. CASE ~CloseFd(r)
    BY <1>4, <2>2 DEF Reactor, EpollWait, Handle, EventStale, Event, WakeEvent, IdleScan, Close,
       CloseBegin, CloseErase, BucketDone, histVars
  <2>3. QED
    BY <2>1, <2>2
<1>5. QED
  BY <1>1, <1>2, <1>3, <1>4 DEF Next, Stop

LEMMA RegStep == LifeInv /\ EventInv /\ KnownInv /\ RegInv /\ [Next]_vars => RegInv'
<1> SUFFICES ASSUME LifeInv, EventInv, KnownInv, RegInv, [Next]_vars PROVE RegInv'
  OBVIOUS
<1>0. early \subseteq early' /\ wrong \in BOOLEAN /\ (wrong => wrong')
  BY HistoryLasts, Parts DEF LifeInv, HistTypes
<1>1. CASE wrong
  BY <1>0, <1>1 DEF RegInv
<1>2. CASE ~wrong /\ ~StopCloses
  <2>1. Orderly' /\ wrong' = wrong
    BY <1>2, OrderlyStep, RightNumber DEF RegInv
  <2>2. QED
    BY <1>2, <2>1 DEF RegInv
<1>3. CASE ~wrong /\ StopCloses
  <2>1. Orderly
    BY <1>3 DEF RegInv
  <2>2. wrong' = (wrong \/ \E c \in connections[at] : ~Open(c))
    BY <1>3 DEF StopCloses
  <2>3. CASE \A c \in connections[at] : Open(c)
    <3>1. Orderly'
      BY <1>3, <2>1, <2>3, StopClosesReg
    <3>2. ~wrong'
      BY <1>3, <2>2, <2>3
    <3>3. QED
      BY <3>1, <3>2 DEF RegInv
  \* It finds a closed one: a business closed that before it was in the table.
  <2>4. ASSUME NEW c \in connections[at], ~Open(c) PROVE RegInv'
    <3>1. at \in Reactors /\ loop[at] = "exited" /\ c \in Conns /\ 0 \notin Socks
      BY <1>3, Parts, LifeAssumption DEF StopCloses, LifeInv, Joining, TableTypes
    <3>2. c \notin connected
      BY <2>1, <2>4, <3>1 DEF Orderly, OpenOnes, Open
    <3>3. c \in early
      BY <2>1, <3>1, <3>2 DEF Orderly, Tabled
    <3>4. wrong' /\ early' # {}
      BY <1>0, <2>2, <2>4, <3>3
    <3>5. QED
      BY <3>4 DEF RegInv
  <2>5. QED
    BY <2>3, <2>4
<1>4. QED
  BY <1>0, <1>1, <1>2, <1>3

LEMMA RegHolds == Spec => [](RegInv /\ KnownInv /\ LifeInv)
<1>1. Init => EventInv
  <2> SUFFICES ASSUME Init PROVE EventInv
    OBVIOUS
  <2>1. fetched = [r \in Reactors |-> {}] /\ connections = [r \in Reactors |-> {}] /\ ~astray
    BY DEF Init
  <2>2. QED
    BY <2>1 DEF EventInv, Fetched, Tables
<1>2. LifeInv /\ EventInv /\ KnownInv /\ [Next]_vars => KnownInv'
  BY KnownStep
<1>3. QED
  BY <1>1, <1>2, InitReg, LifeHolds, EventStep, RegStep, PTL DEF Spec

(* The registry holds exactly the connected ones, each under its own open  *)
(* descriptor, and no close() hits the descriptor of another connection,   *)
(* however fast numbers are reused and wherever Reactor::stop finds the    *)
(* Reactor, until a business closes a connection it found in the registry  *)
(* before add_connection was done with it and the sweep of Reactor::stop   *)
(* then closes that one's number again.                                    *)
THEOREM RegistryIsFollowed == Spec => []RegistryFollows
<1>1. RegInv => RegistryFollows
  BY DEF RegInv, Orderly, Followed, RegistryFollows
<1>2. QED
  BY <1>1, RegHolds, PTL

---------------------------------------------------------------------------
(* The handler of the connection being added.  What close_client and the   *)
(* sweep of Reactor::stop take it from has been entered in connections_    *)
(* first, or a business closed it early.                                   *)
HandlerInv == acc \in {"connect", "return", "insert"} => next \in handler \/ next \in early

LEMMA HandlerStep == LifeInv /\ KnownInv /\ HandlerInv /\ [Next]_vars => HandlerInv'
<1> SUFFICES ASSUME LifeInv, KnownInv, HandlerInv, [Next]_vars PROVE HandlerInv'
  OBVIOUS
<1>0. /\ early \subseteq early' /\ TableTypes /\ Joining /\ next \in Nat
      /\ acc \in {"connect", "return", "insert"} => ~Known(next)
  BY HistoryLasts, Parts, LifeAssumption DEF LifeInv, AccTypes, Known
<1>1. ASSUME handler' = handler, next' = next,
             acc' \in {"connect", "return", "insert"} => acc \in {"connect", "return", "insert"}
      PROVE  HandlerInv'
  BY <1>0, <1>1 DEF HandlerInv
<1>2. CASE UNCHANGED vars
  BY <1>1, <1>2 DEF vars, connVars, accVars
<1>3. CASE \/ \E c \in Conns : ClientSends(c) \/ ClientLeaves(c) \/ CloseConn(c)
           \/ RequestClose \/ StopAccept \/ AcceptorJoined \/ StopReactor \/ StopDone
  BY <1>1, <1>3 DEF ClientSends, ClientLeaves, CloseConn, RequestClose, StopAccept, AcceptorJoined,
     StopReactor, StopDone, connVars, accVars
<1>4. CASE ListenEvent \/ AccWakeEvent \/ AcceptDone \/ OnConnect \/ OnConnectReturns \/ Publish
           \/ EpollAdd
  BY <1>1, <1>4 DEF ListenEvent, AccWakeEvent, AccWait, AcceptDone, OnConnect, OnConnectReturns,
     Publish, EpollAdd, connVars
<1>5. CASE Accept
  <2>1. handler' = handler \union {next'}
    BY <1>5 DEF Accept
  <2>2. QED
    BY <2>1 DEF HandlerInv
\* Only of what may be closed the handler goes.
<1>6. ASSUME NEW r \in Reactors, Reactor(r) PROVE HandlerInv'
  <2>1. UNCHANGED accVars
    BY <1>6 DEF Reactor, EpollWait, Handle, EventStale, Event, WakeEvent, IdleScan, Close,
       CloseBegin, CloseFd, CloseErase, BucketDone
  <2>2. CASE \E c \in Conns : CloseBegin(r, c)
    <3>1. PICK c \in Conns : CloseBegin(r, c)
      BY <2>2
    <3>2. Closable(c) /\ (handler' = handler \/ handler' = handler \ {c})
      BY <3>1 DEF CloseBegin, KnownInv
    <3>3. QED
      BY <1>0, <2>1, <3>2 DEF HandlerInv, Closable, accVars
  <2>3. CASE ~\E c \in Conns : CloseBegin(r, c)
    <3>1. handler' = handler
      BY <1>6, <2>3 DEF Reactor, EpollWait, Handle, EventStale, Event, WakeEvent, IdleScan, Close,
         CloseFd, CloseErase, BucketDone, connVars
    <3>2. QED
      BY <1>1, <2>1, <3>1 DEF accVars
  <2>4. QED
    BY <2>2, <2>3
<1>7. CASE StopCloses
  <2>1. UNCHANGED <<accVars, early>> /\ handler' = handler \ connections[at] /\ at \in Reactors
    BY <1>0, <1>7 DEF StopCloses, Joining
  <2>2. \A c \in connections[at] : Known(c)
    BY <2>1 DEF KnownInv
  <2>3. QED
    BY <1>0, <2>1, <2>2 DEF HandlerInv, accVars
<1>8. QED
  BY <1>2, <1>3, <1>4, <1>5, <1>6, <1>7 DEF Next, Acceptor, Stop

(* close_client never takes the handler from under the Acceptor's thread   *)
(* while it is in on_connect, whatever the client does: only a business    *)
(* that closes the connection it finds in the registry meanwhile does.     *)
THEOREM HandlerIsKept == Spec => []HandlerOutlivesOnConnect
<1>1. Init => HandlerInv
  BY DEF Init, HandlerInv
<1>2. HandlerInv => HandlerOutlivesOnConnect
  BY DEF HandlerInv, HandlerOutlivesOnConnect
<1>3. QED
  BY <1>1, <1>2, RegHolds, HandlerStep, PTL DEF Spec
=============================================================================
