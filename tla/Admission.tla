------------------------------ MODULE Admission ------------------------------
(***************************************************************************)
(* Admission of messages to the divide pool, down to the condition         *)
(* variables, and how Server::stop ends it: Reactors offer messages        *)
(* (Handler_epoll_make.cpp), DB messages need a credit of DB_credit_gate   *)
(* or are parked in DB_waiting_queue, whose drain thread waits for credits *)
(* (backpressure.h), divide workers hand over to the work pool             *)
(* (divide_pool.cpp), and Server::stop closes the divide pool, waits for   *)
(* it, goes on to the work pool and the network, and ends the drain thread *)
(* last (Server.cpp).                                                      *)
(*                                                                         *)
(* A message is one of Msgs; in which order a connection's messages are    *)
(* read is ReadPath's subject.  A business is from here a message that     *)
(* will end; CoroutineDB has its inside.                                   *)
(***************************************************************************)
EXTENDS Integers, Sequences, FiniteSets

CONSTANTS Msgs,
          Fast,        \* those whose route needs no credit
          Reactors,    \* threads that call on_message
          Workers,     \* divide workers
          CreditLimit,
          High,        \* divide pool's queue
          MayThrow,    \* messages the divide function throws on
          MayStop,
          None

ASSUME AdmissionAssumption ==
  /\ Fast \subseteq Msgs /\ MayThrow \subseteq Msgs /\ None \notin Msgs
  /\ IsFiniteSet(Msgs) /\ IsFiniteSet(Reactors) /\ IsFiniteSet(Workers)
  /\ CreditLimit \in Nat /\ High \in Nat \ {0} /\ MayStop \in BOOLEAN

VARIABLES
  buffered,                     \* messages in read buffers
  pc, msg,                      \* a Reactor's step in on_message and its message
  available, closed, noting,    \* DB_credit_gate; a release is about to notify_one
  waiting, stopped,             \* DB_waiting_queue
  drain, parked,                \* its thread's step and message
  divideq, divide_closed, unfinished,   \* divide_pool
  at, hand,                     \* a divide worker's step and task
  work, work_closed,            \* businesses handed over; the work pool's closed_
  fate,                         \* history: where a message ended
  reading,                      \* the Reactors' running_
  stage, napping, gave_up       \* Server::stop; history: wait_idle timed out

readVars   == <<buffered, pc, msg>>
gateVars   == <<available, closed, noting>>
parkVars   == <<waiting, stopped, drain, parked>>
divideVars == <<divideq, divide_closed, unfinished, at, hand>>
workVars   == <<work, work_closed, fate>>
stopVars   == <<reading, stage, napping, gave_up>>
vars == <<readVars, gateVars, parkVars, divideVars, workVars, stopVars>>

Init ==
  /\ buffered = Msgs
  /\ pc = [r \in Reactors |-> "idle"] /\ msg = [r \in Reactors |-> None]
  /\ available = CreditLimit /\ closed = FALSE /\ noting = FALSE
  /\ waiting = << >> /\ stopped = FALSE /\ drain = "wait" /\ parked = None
  /\ divideq = << >> /\ divide_closed = FALSE /\ unfinished = 0
  /\ at = [t \in Workers |-> "idle"] /\ hand = [t \in Workers |-> None]
  /\ work = {} /\ work_closed = FALSE /\ fate = [m \in Msgs |-> "open"]
  /\ reading = TRUE /\ stage = "up" /\ napping = FALSE /\ gave_up = FALSE

---------------------------------------------------------------------------
DB == Msgs \ Fast
Goto(r, from, to) == pc[r] = from /\ pc' = [pc EXCEPT ![r] = to]
Ends(m, how)      == fate' = [fate EXCEPT ![m] = how]

\* DB_credit_gate::release, up to its notify_one.
Release(m) ==
  IF m \in DB
    THEN /\ available' = IF ~closed /\ available < CreditLimit THEN available + 1 ELSE available
         /\ noting' = TRUE
    ELSE UNCHANGED <<available, noting>>

\* A notification of the gate's or of the waiting queue's condition variable.
Notified(cv) == drain' = IF drain = cv THEN (IF cv = "no credit" THEN "acquire" ELSE "wait")
                         ELSE drain

(* Several releases may be on their way to notify_one: the others are as   *)
(* Spurious, wakings the wait's test must stand.                           *)
GateNote ==
  /\ noting /\ noting' = FALSE
  /\ Notified("no credit")
  /\ UNCHANGED <<readVars, available, closed, waiting, stopped, parked, divideVars,
                 workVars, stopVars>>

Spurious ==
  /\ drain \in {"no credit", "no task"} /\ Notified(drain)
  /\ UNCHANGED <<readVars, gateVars, waiting, stopped, parked, divideVars, workVars, stopVars>>

---------------------------------------------------------------------------
(* A Reactor: handle_read takes a message out of a read buffer and calls   *)
(* on_message.                                                             *)
Offer(r, m, to) ==
  /\ m \in buffered /\ buffered' = buffered \ {m}
  /\ Goto(r, "idle", to) /\ msg' = [msg EXCEPT ![r] = m]
  /\ UNCHANGED <<closed, noting, parkVars, divideVars, workVars, stopVars>>

OnMessageFast(r, m) == m \in Fast /\ Offer(r, m, "count") /\ UNCHANGED available

TryAcquire(r, m) ==
  /\ m \in DB /\ ~closed /\ available > 0
  /\ Offer(r, m, "count") /\ available' = available - 1

TryAcquireFails(r, m) ==
  /\ m \in DB /\ (closed \/ available = 0)
  /\ Offer(r, m, "park") /\ UNCHANGED available

\* add_waiting_task, up to its notify_one ...
AddWaitingTask(r) ==
  /\ IF stopped THEN Goto(r, "park", "idle") /\ buffered' = buffered \union {msg[r]}
                     /\ UNCHANGED waiting
                ELSE Goto(r, "park", "note") /\ waiting' = Append(waiting, msg[r])
                     /\ UNCHANGED buffered
  /\ msg' = [msg EXCEPT ![r] = None]
  /\ UNCHANGED <<gateVars, stopped, drain, parked, divideVars, workVars, stopVars>>

\* Slip: the drain thread is not notified.
WaitingNote_Silent(r) ==
  /\ Goto(r, "note", "idle")
  /\ UNCHANGED <<buffered, msg, gateVars, parkVars, divideVars, workVars, stopVars>>

\* ... and its notify_one.
WaitingNote(r) ==
  /\ Goto(r, "note", "idle")
  /\ Notified("no task")
  /\ UNCHANGED <<buffered, msg, gateVars, waiting, stopped, parked, divideVars, workVars, stopVars>>

\* divide_pool::try_add_task: the count, the push, and the count again.
CountUp(r) ==
  /\ Goto(r, "count", "push")
  /\ unfinished' = unfinished + 1
  /\ UNCHANGED <<buffered, msg, gateVars, parkVars, divideq, divide_closed, at, hand,
                 workVars, stopVars>>

TryPush(r) ==
  /\ \/ /\ ~divide_closed /\ Len(divideq) < High
        /\ Goto(r, "push", "idle")
        /\ divideq' = Append(divideq, msg[r]) /\ msg' = [msg EXCEPT ![r] = None]
     \/ /\ Goto(r, "push", IF divide_closed THEN "closed" ELSE "full")
        /\ divide_closed \/ Len(divideq) >= High
        /\ UNCHANGED <<divideq, msg>>
  /\ UNCHANGED <<buffered, gateVars, parkVars, divide_closed, unfinished, at, hand,
                 workVars, stopVars>>

CountDown(r) ==
  /\ Goto(r, "full", "give back") \/ Goto(r, "closed", "give up")
  /\ unfinished' = unfinished - 1
  /\ UNCHANGED <<buffered, msg, gateVars, parkVars, divideq, divide_closed, at, hand,
                 workVars, stopVars>>

\* Slip: on Closed the credit is kept.
GiveBack_OnFull(r) ==
  LET m == msg[r]
  IN /\ \/ Goto(r, "give back", "idle") /\ buffered' = buffered \union {m} /\ UNCHANGED fate
           /\ Release(m)
        \/ Goto(r, "give up", "idle") /\ Ends(m, "refused")
           /\ UNCHANGED <<buffered, available, noting>>
     /\ msg' = [msg EXCEPT ![r] = None]
     /\ UNCHANGED <<closed, parkVars, divideVars, work, work_closed, stopVars>>

(* The credit goes back; a message refused as Full stays in its read       *)
(* buffer, for one refused as Closed the connection is closed.             *)
GiveBack(r) ==
  LET m == msg[r]
  IN /\ \/ Goto(r, "give back", "idle") /\ buffered' = buffered \union {m} /\ UNCHANGED fate
        \/ Goto(r, "give up", "idle") /\ Ends(m, "refused") /\ UNCHANGED buffered
     /\ Release(m)
     /\ msg' = [msg EXCEPT ![r] = None]
     /\ UNCHANGED <<closed, parkVars, divideVars, work, work_closed, stopVars>>

\* The event loop ends after the batch in which running_ was cleared.
ReactorExits(r) ==
  /\ ~reading /\ Goto(r, "idle", "exited")
  /\ UNCHANGED <<buffered, msg, gateVars, parkVars, divideVars, workVars, stopVars>>

---------------------------------------------------------------------------
(* The drain thread (dispatch_waiting_tasks).                              *)
DrainStep(from, to) == drain = from /\ drain' = to

\* The test of cv_.wait, at first and after every notification.
DrainTakes ==
  /\ \/ DrainStep("wait", "exited") /\ stopped /\ UNCHANGED <<waiting, parked>>
     \/ DrainStep("wait", "no task") /\ ~stopped /\ waiting = << >>
        /\ UNCHANGED <<waiting, parked>>
     \/ DrainStep("wait", "acquire") /\ ~stopped /\ waiting # << >>
        /\ parked' = Head(waiting) /\ waiting' = Tail(waiting)
  /\ UNCHANGED <<readVars, gateVars, stopped, divideVars, workVars, stopVars>>

\* acquire, whose wait tests the same way; a closed gate ends the thread.
DrainAcquires ==
  /\ \/ DrainStep("acquire", "exited") /\ closed
        /\ waiting' = <<parked>> \o waiting /\ parked' = None /\ UNCHANGED available
     \/ DrainStep("acquire", "no credit") /\ ~closed /\ available = 0
        /\ UNCHANGED <<available, waiting, parked>>
     \/ DrainStep("acquire", "count") /\ ~closed /\ available > 0
        /\ available' = available - 1 /\ UNCHANGED <<waiting, parked>>
  /\ UNCHANGED <<readVars, closed, noting, stopped, divideVars, workVars, stopVars>>

\* dispatch_: divide_pool::add_task, which waits for room ...
DrainCounts ==
  /\ DrainStep("count", "push")
  /\ unfinished' = unfinished + 1
  /\ UNCHANGED <<readVars, gateVars, waiting, stopped, parked, divideq, divide_closed, at, hand,
                 workVars, stopVars>>

DrainPushes ==
  /\ \/ DrainStep("push", "resume") /\ ~divide_closed /\ Len(divideq) < High
        /\ divideq' = Append(divideq, parked) /\ parked' = None
     \/ DrainStep("push", "closed") /\ divide_closed /\ UNCHANGED <<divideq, parked>>
  /\ UNCHANGED <<readVars, gateVars, waiting, stopped, divide_closed, unfinished, at, hand,
                 workVars, stopVars>>

DrainUncounts ==
  /\ DrainStep("closed", "give up")
  /\ unfinished' = unfinished - 1
  /\ UNCHANGED <<readVars, gateVars, waiting, stopped, parked, divideq, divide_closed, at, hand,
                 workVars, stopVars>>

\* ... not dispatched: the token is released and the message gone ...
DrainGivesUp ==
  /\ DrainStep("give up", "wait")
  /\ Release(parked) /\ Ends(parked, "dropped") /\ parked' = None
  /\ UNCHANGED <<readVars, closed, waiting, stopped, divideVars, work, work_closed, stopVars>>

\* ... dispatched: schedule_resume of its connection's Reactor.
DrainResumes ==
  /\ DrainStep("resume", "wait")
  /\ UNCHANGED <<readVars, gateVars, waiting, stopped, parked, divideVars, workVars, stopVars>>

---------------------------------------------------------------------------
(* A divide worker.                                                        *)
Step(t, from, to) == at[t] = from /\ at' = [at EXCEPT ![t] = to]

DividePop(t) ==
  /\ divideq # << >>
  /\ Step(t, "idle", "parse")
  /\ hand' = [hand EXCEPT ![t] = Head(divideq)] /\ divideq' = Tail(divideq)
  /\ UNCHANGED <<readVars, gateVars, parkVars, divide_closed, unfinished, workVars, stopVars>>

DivideExits(t) ==
  /\ divide_closed /\ divideq = << >>
  /\ Step(t, "idle", "exited")
  /\ UNCHANGED <<readVars, gateVars, parkVars, divideq, divide_closed, unfinished, hand,
                 workVars, stopVars>>

(* on_work hands the business over; a closed work pool refuses it, and     *)
(* with the task goes its token.                                           *)
OnWork(t) ==
  /\ Step(t, "parse", "finish")
  /\ IF work_closed THEN Ends(hand[t], "lost") /\ UNCHANGED work
                    ELSE work' = work \union {hand[t]} /\ UNCHANGED fate
  /\ hand' = [hand EXCEPT ![t] = None]
  /\ UNCHANGED <<readVars, gateVars, parkVars, divideq, divide_closed, unfinished, work_closed,
                 stopVars>>

DivideThrows(t) ==
  /\ hand[t] \in MayThrow
  /\ Step(t, "parse", "finish")
  /\ Ends(hand[t], "thrown") /\ hand' = [hand EXCEPT ![t] = None]
  /\ UNCHANGED <<readVars, gateVars, parkVars, divideq, divide_closed, unfinished, work,
                 work_closed, stopVars>>

FinishTask(t) ==
  /\ Step(t, "finish", "idle")
  /\ unfinished' = IF unfinished > 0 THEN unfinished - 1 ELSE unfinished
  /\ napping' = (napping /\ stage # "divide wait")
  /\ UNCHANGED <<readVars, gateVars, parkVars, divideq, divide_closed, hand, workVars,
                 reading, stage, gave_up>>

\* The work pool: a business ends and its credit goes back.
WorkEnds(m) ==
  /\ m \in work /\ work' = work \ {m} /\ Ends(m, "ended")
  /\ Release(m)
  /\ UNCHANGED <<readVars, closed, parkVars, divideVars, work_closed, stopVars>>

---------------------------------------------------------------------------
(* Server::stop.                                                           *)
Stage(from, to) == stage = from /\ stage' = to

CloseDivide ==
  /\ MayStop /\ Stage("up", "divide wait")
  /\ divide_closed' = TRUE
  /\ UNCHANGED <<readVars, gateVars, parkVars, divideq, unfinished, at, hand, workVars, reading,
                 napping, gave_up>>

(* wait_idle: passes when the count is 0, sleeps otherwise; a sleeper is   *)
(* notified by finish_task or gives up after five seconds.                 *)
WaitIdle ==
  /\ stage = "divide wait"
  /\ \/ /\ ~napping /\ unfinished = 0
        /\ stage' = "work" /\ UNCHANGED <<napping, gave_up>>
     \/ /\ ~napping /\ unfinished # 0
        /\ napping' = TRUE /\ UNCHANGED <<stage, gave_up>>
     \/ /\ napping
        /\ stage' = "work" /\ napping' = FALSE /\ gave_up' = (unfinished # 0)
  /\ UNCHANGED <<readVars, gateVars, parkVars, divideVars, workVars, reading>>

CloseWork ==
  /\ Stage("work", "work wait")
  /\ work_closed' = TRUE
  /\ UNCHANGED <<readVars, gateVars, parkVars, divideVars, work, fate, reading, napping, gave_up>>

\* The work pool is idle, or its wait_idle gives up too; then the Reactors.
StopReading ==
  /\ Stage("work wait", "join reactors")
  /\ reading' = FALSE
  /\ UNCHANGED <<readVars, gateVars, parkVars, divideVars, workVars, napping, gave_up>>

ReactorsJoined ==
  /\ Stage("join reactors", "gate") /\ \A r \in Reactors : pc[r] = "exited"
  /\ UNCHANGED <<readVars, gateVars, parkVars, divideVars, workVars, reading, napping, gave_up>>

\* DB_credit_gate::shutdown, called by stop and by the waiting queue again.
CloseGate ==
  /\ Stage("gate", "gate note")
  /\ closed' = TRUE
  /\ UNCHANGED <<readVars, available, noting, parkVars, divideVars, workVars, reading, napping,
                 gave_up>>

\* Slip: an acquire that waits is not told.
GateNoteAll_Silent ==
  /\ Stage("gate note", "waiting") \/ Stage("gate again", "waiting note")
  /\ UNCHANGED <<readVars, gateVars, parkVars, divideVars, workVars,
                 reading, napping, gave_up>>

GateNoteAll ==
  /\ Stage("gate note", "waiting") \/ Stage("gate again", "waiting note")
  /\ Notified("no credit")
  /\ UNCHANGED <<readVars, gateVars, waiting, stopped, parked, divideVars, workVars,
                 reading, napping, gave_up>>

\* DB_waiting_queue::shutdown
StopWaiting ==
  /\ Stage("waiting", "gate again")
  /\ stopped' = TRUE
  /\ UNCHANGED <<readVars, gateVars, waiting, drain, parked, divideVars, workVars, reading,
                 napping, gave_up>>

WaitingNoteAll ==
  /\ Stage("waiting note", "join drain")
  /\ Notified("no task")
  /\ UNCHANGED <<readVars, gateVars, waiting, stopped, parked, divideVars, workVars, reading,
                 napping, gave_up>>

DrainJoined ==
  /\ Stage("join drain", "done") /\ drain = "exited"
  /\ UNCHANGED <<readVars, gateVars, parkVars, divideVars, workVars, reading, napping, gave_up>>

---------------------------------------------------------------------------
OnMessage(r) == \E m \in Msgs : OnMessageFast(r, m) \/ TryAcquire(r, m) \/ TryAcquireFails(r, m)
ReactorStep(r) == \/ AddWaitingTask(r) \/ WaitingNote(r)
                  \/ CountUp(r) \/ TryPush(r) \/ CountDown(r) \/ GiveBack(r)
                  \/ ReactorExits(r)
Drain == \/ DrainTakes \/ DrainAcquires \/ DrainCounts \/ DrainPushes \/ DrainUncounts
         \/ DrainGivesUp \/ DrainResumes
Divide(t) == DividePop(t) \/ DivideExits(t) \/ OnWork(t) \/ DivideThrows(t) \/ FinishTask(t)
Stopping == \/ WaitIdle \/ CloseWork \/ StopReading \/ ReactorsJoined \/ CloseGate \/ GateNoteAll
            \/ StopWaiting \/ WaitingNoteAll \/ DrainJoined

Next == \/ \E r \in Reactors : OnMessage(r) \/ ReactorStep(r)
        \/ GateNote \/ Spurious \/ Drain
        \/ \E t \in Workers : Divide(t)
        \/ \E m \in Msgs : WorkEnds(m)
        \/ CloseDivide \/ Stopping

(* Every thread keeps running and every business ends; nobody has to bring *)
(* or to offer a message, or to stop.                                      *)
Fairness ==
  /\ \A r \in Reactors : WF_vars(ReactorStep(r))
  /\ WF_vars(GateNote) /\ WF_vars(Drain) /\ WF_vars(Stopping)
  /\ \A t \in Workers : WF_vars(Divide(t))
  /\ \A m \in Msgs : WF_vars(WorkEnds(m))

Spec == Init /\ [][Next]_vars /\ Fairness

---------------------------------------------------------------------------
(* Properties.                                                             *)
Stages == {"up", "divide wait", "work", "work wait", "join reactors", "gate", "gate note",
           "waiting", "gate again", "waiting note", "join drain", "done"}

(* Every variable keeps its type.                                          *)
TypeOK ==
  /\ buffered \in SUBSET Msgs
  /\ pc \in [Reactors -> {"idle", "park", "note", "count", "push", "full", "closed",
                          "give back", "give up", "exited"}]
  /\ msg \in [Reactors -> Msgs \union {None}]
  /\ \A r \in Reactors : msg[r] = None <=> pc[r] \in {"idle", "note", "exited"}
  /\ available \in 0 .. CreditLimit /\ closed \in BOOLEAN /\ noting \in BOOLEAN
  /\ waiting \in Seq(Msgs) /\ stopped \in BOOLEAN
  /\ drain \in {"wait", "no task", "acquire", "no credit", "count", "push", "closed", "give up",
                "resume", "exited"}
  /\ parked \in Msgs \union {None}
  /\ parked = None <=> drain \in {"wait", "no task", "resume", "exited"}
  /\ divideq \in Seq(Msgs) /\ Len(divideq) <= High /\ divide_closed \in BOOLEAN
  /\ unfinished \in Int
  /\ at \in [Workers -> {"idle", "parse", "finish", "exited"}]
  /\ hand \in [Workers -> Msgs \union {None}]
  /\ \A t \in Workers : hand[t] = None <=> at[t] # "parse"
  /\ work \in SUBSET Msgs /\ work_closed \in BOOLEAN
  /\ fate \in [Msgs -> {"open", "refused", "dropped", "lost", "thrown", "ended"}]
  /\ reading \in BOOLEAN /\ stage \in Stages /\ napping \in BOOLEAN /\ gave_up \in BOOLEAN

InSeq(m, s) == \E i \in 1 .. Len(s) : s[i] = m

\* Where message m is.
Places(m) ==
  {p \in {"buffer", "waiting", "drain", "queue", "work", "past"} :
     CASE p = "buffer"  -> m \in buffered
       [] p = "waiting" -> InSeq(m, waiting)
       [] p = "drain"   -> parked = m
       [] p = "queue"   -> InSeq(m, divideq)
       [] p = "work"    -> m \in work
       [] p = "past"    -> fate[m] # "open"}
  \union {r \in Reactors : msg[r] = m} \union {t \in Workers : hand[t] = m}

(* Through refusals, parking and stop a message is always in one place,    *)
(* ends unserved only once the divide pool is closed or its parser throws, *)
(* and what the divide pool accepted reaches the work pool before that     *)
(* closes, unless wait_idle gave up.                                       *)
AcceptedReachesWork ==
  \A m \in Msgs : /\ Cardinality(Places(m)) = 1
                  /\ fate[m] \in {"refused", "dropped"} => divide_closed
                  /\ fate[m] = "lost" => gave_up

\* The DB messages that have a credit; one whose parser threw has kept it.
Credited ==
  {m \in DB : \/ \E r \in Reactors : msg[r] = m /\ pc[r] # "park"
              \/ parked = m /\ drain \in {"count", "push", "closed", "give up"}
              \/ InSeq(m, divideq) \/ \E t \in Workers : hand[t] = m
              \/ m \in work \/ fate[m] \in {"thrown", "lost"}}

CreditsAreExact == ~closed => available + Cardinality(Credited) = CreditLimit

(* Nothing is lost in admission and stop: every accepted message reaches   *)
(* the work pool (AcceptedReachesWork), and until the gate closes every    *)
(* credit is with a message or available, none lost or given back twice by *)
(* refusals, by the drain thread or by messages that stop turns away.      *)
NothingIsLost == AcceptedReachesWork /\ CreditsAreExact

(* The drain thread never sleeps through its reason to go on: asleep for   *)
(* want of messages or of credits, there are none, or whoever brought one  *)
(* or closed the gate is about to notify it.                               *)
DrainIsTold ==
  /\ drain = "no task" =>
       \/ waiting = << >> /\ ~stopped
       \/ \E r \in Reactors : pc[r] = "note"
       \/ stage \in {"gate again", "waiting note"}
  /\ drain = "no credit" =>
       \/ available = 0 /\ ~closed
       \/ noting \/ stage = "gate note"

(* stop() ends with the drain thread joined, wherever that was waiting.    *)
StopEnds == stage # "up" ~> stage = "done"
==============================================================================
