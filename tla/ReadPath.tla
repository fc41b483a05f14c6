------------------------------ MODULE ReadPath ------------------------------
(***************************************************************************)
(* The way of a request through the server and the back pressure on it:    *)
(* one Reactor thread reading its connections (Reactor.cpp), the           *)
(* per-connection window (ConnectionFlow.h), DB admission (backpressure.h, *)
(* Handler_epoll_make.cpp, Server.cpp), and the divide, work and DB pools. *)
(*                                                                         *)
(* A message is its connection, its class, how many queries its business   *)
(* may still make, and - in the work queue - whether the queued item is    *)
(* the business itself ("task") or the DB worker's on_event call that will *)
(* requeue it ("event").  Each queue is the bounded FIFO that              *)
(* BoundedTaskQueue implements; nothing is closed here (Server::stop is    *)
(* another module).  A step is what a thread does between two accesses to  *)
(* state shared with another thread.                                       *)
(***************************************************************************)
EXTENDS Naturals, Sequences, FiniteSets

CONSTANTS Conns,          \* connections of the Reactor
          DivideWorkers, WorkWorkers, DbWorkers,
          Window,         \* ConnectionFlow's window_
          CreditLimit,    \* DB_credit_gate's limit_
          DivideHigh, WorkHigh, DbHigh,   \* high_ of the three queues
          Script,         \* what each client sends, in order
          MayClose,       \* connections that may be closed at any time
          DivideMayThrow, \* whether the divide function may throw
          None

ASSUME SizeAssumption ==
  /\ Window \in Nat \ {0} /\ CreditLimit \in Nat \ {0}
  /\ DivideHigh \in Nat \ {0} /\ WorkHigh \in Nat \ {0} /\ DbHigh \in Nat \ {0}
  /\ IsFiniteSet(DivideWorkers) /\ IsFiniteSet(WorkWorkers) /\ IsFiniteSet(DbWorkers)

Requests == [class : {"fast", "db"}, queries : Nat]

ASSUME ScriptAssumption ==
  /\ Script \in [Conns -> Seq(Requests)]
  /\ MayClose \subseteq Conns /\ DivideMayThrow \in BOOLEAN

Messages == [conn : Conns, class : {"fast", "db"}, queries : Nat,
             hop : {"task", "event"}]

Flows == [in_flight : Nat, full : BOOLEAN, resume_pending : BOOLEAN]

Threads == {"reactor", "drain"} \union DivideWorkers \union WorkWorkers
                                \union DbWorkers

ASSUME ThreadAssumption ==
  /\ {"reactor", "drain"} \intersect (DivideWorkers \union WorkWorkers \union DbWorkers) = {}
  /\ DivideWorkers \intersect (WorkWorkers \union DbWorkers) = {}
  /\ WorkWorkers \intersect DbWorkers = {}
  /\ None \notin Messages

VARIABLES
  \* the connection, as its Reactor and the kernel see it
  sent,       \* messages that have reached the socket
  received,   \* of those, messages read into read_buffer
  taken,      \* of those, messages taken out and not put back
  interest,   \* EPOLLIN is in the connection's epoll mask
  edge,       \* an EPOLLIN edge is pending in the kernel
  connected,
  \* shared between the Reactor and the other threads
  paused,     \* reading_paused
  flow,       \* ConnectionFlow: in_flight_, full_, resume_pending_
  resumes,    \* pending_resume_ (process_pending_resume removes duplicates)
  woken,      \* wake_fd_ is readable
  \* private to the Reactor
  retries,    \* pending_divide_retry_
  bucket,     \* the swapped-out bucket being processed
  cur,        \* the connection being handled
  phase,      \* the handler that called handle_read
  signal,     \* resume_signal
  \* admission and pools
  available,  \* available_ of the DB credit gate
  waiting,    \* waiting_tasks_ of the DB waiting queue
  divideq, workq, dbq,
  hand,       \* the message a thread is working on
  pc,         \* what a thread does next
  dropped     \* history: the messages whose divide function threw

connVars    == <<sent, received, taken, interest, edge, connected>>
sharedVars  == <<paused, flow, resumes, woken>>
reactorVars == <<retries, bucket, cur, phase, signal>>
queueVars   == <<waiting, divideq, workq, dbq>>
vars == <<connVars, sharedVars, reactorVars, available, queueVars, hand, pc, dropped>>

Init ==
  /\ sent = [c \in Conns |-> 0]
  /\ received = [c \in Conns |-> 0]
  /\ taken = [c \in Conns |-> 0]
  /\ interest = [c \in Conns |-> TRUE]
  /\ edge = [c \in Conns |-> FALSE]
  /\ connected = [c \in Conns |-> TRUE]
  /\ paused = [c \in Conns |-> FALSE]
  /\ flow = [c \in Conns |-> [in_flight |-> 0, full |-> FALSE, resume_pending |-> FALSE]]
  /\ resumes = {}
  /\ woken = FALSE
  /\ retries = {}
  /\ bucket = {}
  /\ cur \in Conns
  /\ phase = "event"
  /\ signal = FALSE
  /\ available = CreditLimit
  /\ waiting = << >> /\ divideq = << >> /\ workq = << >> /\ dbq = << >>
  /\ hand = [t \in Threads |-> None]
  /\ pc = [t \in Threads |-> "idle"]
  /\ dropped = << >>

---------------------------------------------------------------------------
(* Helpers: where a thread goes next, and the small operations that more   *)
(* than one thread calls.                                                  *)
Goto(t, there) == pc' = [pc EXCEPT ![t] = there]
Holds(t, m)    == hand' = [hand EXCEPT ![t] = m]

\* queue_low_water of a capacity
Low(high) == IF high > 1 THEN high \div 2 ELSE 1

\* DB_credit_gate::release, through a DB_credit_token that was not released yet.
ReleaseCredit == available' = IF available < CreditLimit THEN available + 1 ELSE available

(* Reactor::schedule_resume, its two accesses: the bucket under its mutex, *)
(* then wakeup() through the eventfd.                                      *)
ScheduleResume(t, c) ==
  /\ resumes' = resumes \union {c}
  /\ Goto(t, "wakeup")

Wakeup(t) ==
  /\ pc[t] = "wakeup"
  /\ woken' = TRUE
  /\ Goto(t, "idle")
  /\ UNCHANGED <<connVars, paused, flow, resumes, reactorVars, available,
                 queueVars, hand, dropped>>

\* ConnectionFlow's four transitions.
CanTake(f) == ~f.resume_pending /\ ~f.full /\ f.in_flight < Window
TryTake(f) == [f EXCEPT !.in_flight = @ + 1, !.full = f.in_flight + 1 >= Window]
Less(n) == IF n > 0 THEN n - 1 ELSE 0
NeedsResume(f) == f.full /\ Less(f.in_flight) < Window /\ ~f.resume_pending
\* Slip: full_ is left set when the resume is requested.
FinishOne_StaysFull(f) ==
  [f EXCEPT !.in_flight = Less(@), !.resume_pending = @ \/ NeedsResume(f)]
FinishOne(f) ==
  [f EXCEPT !.in_flight = Less(@),
            !.full = @ /\ ~NeedsResume(f),
            !.resume_pending = @ \/ NeedsResume(f)]
ReleaseSlot(f) ==
  [f EXCEPT !.in_flight = Less(@),
            !.full = @ /\ Less(f.in_flight) >= Window]

(* mod_event.  Arming EPOLLIN on a socket with unread bytes raises an      *)
(* edge at once (EPOLLET); an edge raised while the mask is 0 is not       *)
(* delivered.                                                              *)
Arm(c) ==
  /\ interest' = [interest EXCEPT ![c] = TRUE]
  /\ edge' = [edge EXCEPT ![c] = @ \/ received[c] < sent[c]]
Disarm(c) ==
  /\ interest' = [interest EXCEPT ![c] = FALSE]
  /\ edge' = [edge EXCEPT ![c] = FALSE]

---------------------------------------------------------------------------
(* The client's next message reaches the socket.                           *)
Arrive(c) ==
  /\ connected[c]
  /\ sent[c] < Len(Script[c])
  /\ sent' = [sent EXCEPT ![c] = @ + 1]
  /\ edge' = [edge EXCEPT ![c] = @ \/ interest[c]]
  /\ UNCHANGED <<received, taken, interest, connected, sharedVars, reactorVars,
                 available, queueVars, hand, pc, dropped>>

(* close_client, called between events for an idle timeout, a socket error *)
(* or request_close, and by handle_read when it meets the peer's EOF.      *)
CloseClient(c) ==
  /\ \/ pc["reactor"] = "idle"
     \/ pc["reactor"] = "read" /\ cur = c /\ ~paused[c] /\ taken[c] = sent[c]
  /\ connected[c]
  /\ connected' = [connected EXCEPT ![c] = FALSE]
  /\ interest' = [interest EXCEPT ![c] = FALSE]
  /\ edge' = [edge EXCEPT ![c] = FALSE]
  /\ UNCHANGED <<sent, received, taken, sharedVars, reactorVars, available,
                 queueVars, hand, pc, dropped>>

---------------------------------------------------------------------------
(* The Reactor thread.  "idle" is epoll_wait.                              *)

(* event_loop: an EPOLLIN edge of connection c.                            *)
ReadEvent(c) ==
  /\ pc["reactor"] = "idle"
  /\ edge[c]
  /\ edge' = [edge EXCEPT ![c] = FALSE]
  /\ cur' = c /\ phase' = "event"
  /\ Goto("reactor", "read")
  /\ UNCHANGED <<sent, received, taken, interest, connected, sharedVars, retries,
                 bucket, signal, available, queueVars, hand, dropped>>

(* event_loop: wake_fd_.  The eventfd is read, then process_pending_resume *)
(* swaps the bucket out.                                                   *)
WakeEvent ==
  /\ pc["reactor"] = "idle"
  /\ woken
  /\ woken' = FALSE
  /\ phase' = "resume"
  /\ Goto("reactor", "swap")
  /\ UNCHANGED <<connVars, paused, flow, resumes, retries, bucket, cur, signal,
                 available, queueVars, hand, dropped>>

ResumeSwap ==
  /\ pc["reactor"] = "swap"
  /\ bucket' = resumes /\ resumes' = {}
  /\ Goto("reactor", "resume")
  /\ UNCHANGED <<connVars, paused, flow, woken, retries, cur, phase, signal,
                 available, queueVars, hand, dropped>>

(* process_pending_resume, its two reads of shared state one after the     *)
(* other: consume_resume, then reading_paused.exchange(false).             *)
ResumeConsume(c) ==
  /\ pc["reactor"] = "resume"
  /\ c \in bucket
  /\ bucket' = bucket \ {c}
  /\ cur' = c
  /\ signal' = flow[c].resume_pending
  /\ flow' = [flow EXCEPT ![c].resume_pending = FALSE]
  /\ Goto("reactor", "unpause")
  /\ UNCHANGED <<connVars, paused, resumes, woken, retries, phase, available,
                 queueVars, hand, dropped>>

ResumeUnpause ==
  /\ pc["reactor"] = "unpause" /\ phase = "resume"
  /\ paused' = [paused EXCEPT ![cur] = FALSE]
  /\ IF (signal \/ paused[cur]) /\ connected[cur]
     THEN Arm(cur) /\ Goto("reactor", "read")
     ELSE UNCHANGED <<interest, edge>> /\ Goto("reactor", "resume")
  /\ UNCHANGED <<sent, received, taken, connected, flow, resumes, woken,
                 reactorVars, available, queueVars, hand, dropped>>

ResumesDone ==
  /\ pc["reactor"] = "resume"
  /\ bucket = {}
  /\ bucket' = {c \in retries : connected[c]} /\ retries' = {}
  /\ phase' = "retry"
  /\ Goto("reactor", "retry")
  /\ UNCHANGED <<connVars, sharedVars, cur, signal, available, queueVars, hand, dropped>>

(* process_divide_retry, in the same order.                                *)
RetryConsume(c) ==
  /\ pc["reactor"] = "retry"
  /\ c \in bucket
  /\ bucket' = bucket \ {c}
  /\ cur' = c
  /\ flow' = [flow EXCEPT ![c].resume_pending = FALSE]
  /\ Goto("reactor", "unpause")
  /\ UNCHANGED <<connVars, paused, resumes, woken, retries, phase, signal,
                 available, queueVars, hand, dropped>>

RetryUnpause ==
  /\ pc["reactor"] = "unpause" /\ phase = "retry"
  /\ paused' = [paused EXCEPT ![cur] = FALSE]
  /\ Arm(cur)
  /\ Goto("reactor", "read")
  /\ UNCHANGED <<sent, received, taken, connected, flow, resumes, woken,
                 reactorVars, available, queueVars, hand, dropped>>

RetriesDone ==
  /\ pc["reactor"] = "retry"
  /\ bucket = {}
  /\ Goto("reactor", "idle")
  /\ UNCHANGED <<connVars, sharedVars, reactorVars, available, queueVars, hand, dropped>>

\* Where handle_read returns to.
Caller == IF phase = "event" THEN "idle" ELSE phase

(* handle_read, the head of its loop: stop when paused, closed or out of   *)
(* bytes; else fill read_buffer; else take one message if the window lets  *)
(* it, and put it back if not.                                             *)
Stops ==
  \/ paused[cur] \/ ~connected[cur]
  \/ taken[cur] = received[cur] /\ received[cur] = sent[cur]
  \/ taken[cur] < received[cur] /\ ~CanTake(flow[cur])

ReadStops ==
  /\ pc["reactor"] = "read"
  /\ Stops
  /\ Goto("reactor", Caller)
  /\ UNCHANGED <<connVars, sharedVars, reactorVars, available, queueVars, hand, dropped>>

ReadBytes ==
  /\ pc["reactor"] = "read"
  /\ ~Stops
  /\ taken[cur] = received[cur]
  /\ \E n \in received[cur] + 1 .. sent[cur] :
       received' = [received EXCEPT ![cur] = n]
  /\ UNCHANGED <<sent, taken, interest, edge, connected, sharedVars, reactorVars,
                 available, queueVars, hand, pc, dropped>>

ReadTakes ==
  /\ pc["reactor"] = "read"
  /\ ~Stops
  /\ taken[cur] < received[cur]
  /\ flow' = [flow EXCEPT ![cur] = TryTake(@)]
  /\ taken' = [taken EXCEPT ![cur] = @ + 1]
  /\ LET r == Script[cur][taken[cur] + 1]
     IN  /\ Holds("reactor", [conn |-> cur, class |-> r.class,
                              queries |-> r.queries, hop |-> "task"])
         /\ Goto("reactor", IF r.class = "db" THEN "admit" ELSE "dispatch")
  /\ UNCHANGED <<sent, received, interest, edge, connected, paused, resumes, woken,
                 reactorVars, available, queueVars, dropped>>

(* on_message: a DB message first needs a credit ...                       *)
Admit ==
  /\ pc["reactor"] = "admit"
  /\ IF available > 0
     THEN available' = available - 1 /\ Goto("reactor", "dispatch")
     ELSE UNCHANGED available /\ Goto("reactor", "park")
  /\ UNCHANGED <<connVars, sharedVars, reactorVars, queueVars, hand, dropped>>

(* ... without one it goes to the DB waiting queue, then reading pauses.   *)
Park ==
  /\ pc["reactor"] = "park"
  /\ waiting' = Append(waiting, hand["reactor"])
  /\ Holds("reactor", None)
  /\ Goto("reactor", "pause")
  /\ UNCHANGED <<connVars, sharedVars, reactorVars, available, divideq, workq, dbq, dropped>>

Pause ==
  /\ pc["reactor"] = "pause"
  /\ paused' = [paused EXCEPT ![cur] = TRUE]
  /\ Disarm(cur)
  /\ Goto("reactor", "read")
  /\ UNCHANGED <<sent, received, taken, connected, flow, resumes, woken, reactorVars,
                 available, queueVars, hand, dropped>>

(* on_message: try_add_task; Full gives the credit back.                   *)
Dispatch ==
  /\ pc["reactor"] = "dispatch"
  /\ IF Len(divideq) < DivideHigh
     THEN /\ divideq' = Append(divideq, hand["reactor"])
          /\ Holds("reactor", None)
          /\ Goto("reactor", "read")
     ELSE /\ UNCHANGED <<divideq, hand>>
          /\ Goto("reactor", IF hand["reactor"].class = "db" THEN "uncredit"
                                                             ELSE "unslot")
  /\ UNCHANGED <<connVars, sharedVars, reactorVars, available, waiting, workq, dbq, dropped>>

GiveCreditBack ==
  /\ pc["reactor"] = "uncredit"
  /\ ReleaseCredit
  /\ Goto("reactor", "unslot")
  /\ UNCHANGED <<connVars, sharedVars, reactorVars, queueVars, hand, dropped>>

\* Slip: handle_read forgets release_slot.
GiveSlotBack_KeepsSlot ==
  /\ pc["reactor"] = "unslot"
  /\ taken' = [taken EXCEPT ![cur] = @ - 1]
  /\ Holds("reactor", None)
  /\ Goto("reactor", "defer")
  /\ UNCHANGED <<sent, received, interest, edge, connected, sharedVars, reactorVars,
                 available, queueVars, dropped>>

(* handle_read on Full: release_slot, the message back into read_buffer,   *)
(* schedule_divide_retry - which wakes the Reactor itself.                 *)
GiveSlotBack ==
  /\ pc["reactor"] = "unslot"
  /\ flow' = [flow EXCEPT ![cur] = ReleaseSlot(@)]
  /\ taken' = [taken EXCEPT ![cur] = @ - 1]
  /\ Holds("reactor", None)
  /\ Goto("reactor", "defer")
  /\ UNCHANGED <<sent, received, interest, edge, connected, paused, resumes, woken,
                 reactorVars, available, queueVars, dropped>>

Defer ==
  /\ pc["reactor"] = "defer"
  /\ retries' = retries \union {cur}
  /\ paused' = [paused EXCEPT ![cur] = TRUE]
  /\ Disarm(cur)
  /\ woken' = TRUE
  /\ Goto("reactor", Caller)
  /\ UNCHANGED <<sent, received, taken, connected, flow, resumes, bucket, cur, phase,
                 signal, available, queueVars, hand, dropped>>

---------------------------------------------------------------------------
(* The drain thread of the DB waiting queue: take the oldest message, wait *)
(* for a credit, push it to the divide queue (blocking), then resume its   *)
(* connection.                                                             *)
DrainTake ==
  /\ pc["drain"] = "idle"
  /\ waiting # << >>
  /\ Holds("drain", Head(waiting))
  /\ waiting' = Tail(waiting)
  /\ Goto("drain", "acquire")
  /\ UNCHANGED <<connVars, sharedVars, reactorVars, available, divideq, workq, dbq, dropped>>

DrainAcquire ==
  /\ pc["drain"] = "acquire"
  /\ available > 0
  /\ available' = available - 1
  /\ Goto("drain", "dispatch")
  /\ UNCHANGED <<connVars, sharedVars, reactorVars, queueVars, hand, dropped>>

DrainDispatch ==
  /\ pc["drain"] = "dispatch"
  /\ Len(divideq) < DivideHigh
  /\ divideq' = Append(divideq, hand["drain"])
  /\ Goto("drain", "notify")
  /\ UNCHANGED <<connVars, sharedVars, reactorVars, available, waiting, workq, dbq, hand, dropped>>

\* Slip: the dispatch lambda forgets schedule_resume.
DrainNotify_Silent ==
  /\ pc["drain"] = "notify"
  /\ Holds("drain", None)
  /\ Goto("drain", "idle")
  /\ UNCHANGED <<connVars, sharedVars, reactorVars, available, queueVars, dropped>>

DrainNotify ==
  /\ pc["drain"] = "notify"
  /\ ScheduleResume("drain", hand["drain"].conn)
  /\ Holds("drain", None)
  /\ UNCHANGED <<connVars, paused, flow, woken, reactorVars, available, queueVars, dropped>>

---------------------------------------------------------------------------
(* A divide worker: pop, with the low-water callback that ends in          *)
(* Reactor::retry_pending; run the divide function; hand its business to   *)
(* the work queue (blocking).  An exception is logged and swallowed, and   *)
(* the worker goes on to its next task.                                    *)
DividePop(d) ==
  /\ pc[d] = "idle"
  /\ divideq # << >>
  /\ Holds(d, Head(divideq))
  /\ divideq' = Tail(divideq)
  /\ Goto(d, IF Len(divideq') <= Low(DivideHigh) THEN "low_water" ELSE "divide")
  /\ UNCHANGED <<connVars, sharedVars, reactorVars, available, waiting, workq, dbq, dropped>>

LowWater(d) ==
  /\ pc[d] = "low_water"
  /\ woken' = TRUE
  /\ Goto(d, "divide")
  /\ UNCHANGED <<connVars, paused, flow, resumes, reactorVars, available, queueVars,
                 hand, dropped>>

DivideWork(d) ==
  /\ pc[d] = "divide"
  /\ Len(workq) < WorkHigh
  /\ workq' = Append(workq, hand[d])
  /\ Holds(d, None)
  /\ Goto(d, "idle")
  /\ UNCHANGED <<connVars, sharedVars, reactorVars, available, waiting, divideq, dbq, dropped>>

DivideThrows(d) ==
  /\ DivideMayThrow
  /\ pc[d] = "divide"
  /\ dropped' = Append(dropped, hand[d])
  /\ Holds(d, None)
  /\ Goto(d, "idle")
  /\ UNCHANGED <<connVars, sharedVars, reactorVars, available, queueVars>>

(* A work worker.  The business either ends, by returning or by an         *)
(* exception, or suspends in a query: await_suspend submits to the DB      *)
(* queue (blocking, on the work worker) and only then does the worker      *)
(* become free.                                                            *)
WorkPop(w) ==
  /\ pc[w] = "idle"
  /\ workq # << >>
  /\ Holds(w, Head(workq))
  /\ workq' = Tail(workq)
  /\ Goto(w, Head(workq).hop)
  /\ UNCHANGED <<connVars, sharedVars, reactorVars, available, waiting, divideq, dbq, dropped>>

\* Slip: the worker gives the credit back although the business suspended.
WorkAwaits_ReleasesCredit(w) ==
  /\ pc[w] = "task"
  /\ hand[w].queries > 0
  /\ IF hand[w].class = "db" THEN ReleaseCredit ELSE UNCHANGED available
  /\ Goto(w, "submit")
  /\ UNCHANGED <<connVars, sharedVars, reactorVars, queueVars, hand, dropped>>

WorkAwaits(w) ==
  /\ pc[w] = "task"
  /\ hand[w].queries > 0
  /\ Goto(w, "submit")
  /\ UNCHANGED <<connVars, sharedVars, reactorVars, available, queueVars, hand, dropped>>

WorkSuspends(w) ==
  /\ pc[w] = "submit"
  /\ Len(dbq) < DbHigh
  /\ dbq' = Append(dbq, [hand[w] EXCEPT !.queries = @ - 1])
  /\ Holds(w, None)
  /\ Goto(w, "idle")
  /\ UNCHANGED <<connVars, sharedVars, reactorVars, available, waiting, divideq, workq, dropped>>

WorkEnds(w) ==
  /\ pc[w] = "task"
  /\ IF hand[w].class = "db" THEN ReleaseCredit ELSE UNCHANGED available
  /\ Goto(w, "finish")
  /\ UNCHANGED <<connVars, sharedVars, reactorVars, queueVars, hand, dropped>>

(* The business has ended: finish_one, then reading_paused is read, then   *)
(* schedule_resume - three separate accesses.                              *)
WorkFinish(w) ==
  /\ pc[w] = "finish"
  /\ LET c == hand[w].conn
     IN  /\ flow' = [flow EXCEPT ![c] = FinishOne(@)]
         /\ IF NeedsResume(flow[c])
            THEN Goto(w, "check") /\ UNCHANGED hand
            ELSE Goto(w, "idle") /\ Holds(w, None)
  /\ UNCHANGED <<connVars, paused, resumes, woken, reactorVars, available, queueVars, dropped>>

\* Slip: the test of reading_paused the wrong way round.
WorkCheck_Inverted(w) ==
  /\ pc[w] = "check"
  /\ IF ~paused[hand[w].conn]
     THEN Goto(w, "idle") /\ Holds(w, None)
     ELSE Goto(w, "notify") /\ UNCHANGED hand
  /\ UNCHANGED <<connVars, sharedVars, reactorVars, available, queueVars, dropped>>

WorkCheck(w) ==
  /\ pc[w] = "check"
  /\ IF paused[hand[w].conn]
     THEN Goto(w, "idle") /\ Holds(w, None)
     ELSE Goto(w, "notify") /\ UNCHANGED hand
  /\ UNCHANGED <<connVars, sharedVars, reactorVars, available, queueVars, dropped>>

\* Slip: the bucket is filled, the Reactor is not woken.
WorkNotify_NoWakeup(w) ==
  /\ pc[w] = "notify"
  /\ resumes' = resumes \union {hand[w].conn}
  /\ Holds(w, None)
  /\ Goto(w, "idle")
  /\ UNCHANGED <<connVars, paused, flow, woken, reactorVars, available, queueVars, dropped>>

WorkNotify(w) ==
  /\ pc[w] = "notify"
  /\ ScheduleResume(w, hand[w].conn)
  /\ Holds(w, None)
  /\ UNCHANGED <<connVars, paused, flow, woken, reactorVars, available, queueVars, dropped>>

(* The work item queued by a DB worker: on_event requeues the suspended    *)
(* business (blocking, from a work worker).  It has no connection of its   *)
(* own, so no slot is given back.                                          *)
WorkEvent(w) ==
  /\ pc[w] = "event"
  /\ Len(workq) < WorkHigh
  /\ workq' = Append(workq, [hand[w] EXCEPT !.hop = "task"])
  /\ Holds(w, None)
  /\ Goto(w, "idle")
  /\ UNCHANGED <<connVars, sharedVars, reactorVars, available, waiting, divideq, dbq, dropped>>

(* A DB worker: pop, run the query, queue the on_event call (blocking).    *)
DbPop(b) ==
  /\ pc[b] = "idle"
  /\ dbq # << >>
  /\ Holds(b, Head(dbq))
  /\ dbq' = Tail(dbq)
  /\ Goto(b, "query")
  /\ UNCHANGED <<connVars, sharedVars, reactorVars, available, waiting, divideq, workq, dropped>>

DbAnswers(b) ==
  /\ pc[b] = "query"
  /\ Len(workq) < WorkHigh
  /\ workq' = Append(workq, [hand[b] EXCEPT !.hop = "event"])
  /\ Holds(b, None)
  /\ Goto(b, "idle")
  /\ UNCHANGED <<connVars, sharedVars, reactorVars, available, waiting, divideq, dbq, dropped>>

---------------------------------------------------------------------------
Reactor ==
  \/ \E c \in Conns : ReadEvent(c) \/ ResumeConsume(c) \/ RetryConsume(c)
  \/ WakeEvent \/ ResumeSwap \/ ResumeUnpause \/ ResumesDone \/ RetryUnpause \/ RetriesDone
  \/ ReadStops \/ ReadBytes \/ ReadTakes
  \/ Admit \/ Park \/ Pause \/ Dispatch \/ GiveCreditBack \/ GiveSlotBack \/ Defer

Drain == DrainTake \/ DrainAcquire \/ DrainDispatch \/ DrainNotify \/ Wakeup("drain")

Divide(d) == DividePop(d) \/ LowWater(d) \/ DivideWork(d) \/ DivideThrows(d)

Work(w) ==
  \/ WorkPop(w) \/ WorkAwaits(w) \/ WorkSuspends(w) \/ WorkEnds(w) \/ WorkFinish(w)
  \/ WorkCheck(w) \/ WorkNotify(w) \/ Wakeup(w) \/ WorkEvent(w)

Db(b) == DbPop(b) \/ DbAnswers(b)

Next ==
  \/ \E c \in Conns : Arrive(c)
  \/ \E c \in MayClose : CloseClient(c)
  \/ Reactor \/ Drain
  \/ \E d \in DivideWorkers : Divide(d)
  \/ \E w \in WorkWorkers : Work(w)
  \/ \E b \in DbWorkers : Db(b)

Spec == Init /\ [][Next]_vars

(* Every thread is scheduled, business functions return and the database   *)
(* answers.  Clients owe nothing: they need not send or close.             *)
Fairness ==
  /\ WF_vars(Reactor) /\ WF_vars(Drain)
  /\ \A d \in DivideWorkers : WF_vars(Divide(d))
  /\ \A w \in WorkWorkers : WF_vars(Work(w))
  /\ \A b \in DbWorkers : WF_vars(Db(b))

FairSpec == Spec /\ Fairness

---------------------------------------------------------------------------
ReactorPCs == {"idle", "read", "swap", "resume", "retry", "unpause", "admit", "park",
               "pause", "dispatch", "uncredit", "unslot", "defer"}
WorkerPCs  == {"idle", "wakeup", "low_water", "divide", "task", "submit", "event",
               "finish", "check", "notify", "query", "acquire", "dispatch"}

(* Type invariant; the queues never exceed their capacity and the credits  *)
(* never exceed the gate's limit.                                          *)
TypeOK ==
  /\ sent \in [Conns -> Nat] /\ received \in [Conns -> Nat] /\ taken \in [Conns -> Nat]
  /\ \A c \in Conns : taken[c] <= received[c] /\ received[c] <= sent[c]
                       /\ sent[c] <= Len(Script[c])
  /\ interest \in [Conns -> BOOLEAN] /\ edge \in [Conns -> BOOLEAN]
  /\ connected \in [Conns -> BOOLEAN] /\ paused \in [Conns -> BOOLEAN]
  /\ flow \in [Conns -> Flows]
  /\ resumes \subseteq Conns /\ retries \subseteq Conns /\ bucket \subseteq Conns
  /\ woken \in BOOLEAN /\ signal \in BOOLEAN
  /\ cur \in Conns /\ phase \in {"event", "resume", "retry"}
  /\ available \in 0 .. CreditLimit
  /\ waiting \in Seq(Messages) /\ divideq \in Seq(Messages)
  /\ workq \in Seq(Messages) /\ dbq \in Seq(Messages)
  /\ Len(divideq) <= DivideHigh /\ Len(workq) <= WorkHigh /\ Len(dbq) <= DbHigh
  /\ hand \in [Threads -> Messages \union {None}]
  /\ pc \in [Threads -> ReactorPCs \union WorkerPCs]

(* Where messages are: in the queues, and in the hands of threads.         *)
Queued(q, P(_)) == Cardinality({i \in DOMAIN q : P(q[i])})
InHand(places, P(_)) ==
  Cardinality({t \in Threads : hand[t] # None /\ pc[t] \in places /\ P(hand[t])})

SlotPlaces   == {"admit", "park", "dispatch", "uncredit", "unslot", "acquire",
                 "low_water", "divide", "task", "submit", "event", "query", "finish"}
CreditPlaces == {"dispatch", "uncredit", "low_water", "divide", "task", "submit", "event", "query"}

OfConn(m, c) == m.conn = c
NeedsDb(m)   == m.class = "db"

\* Messages of connection c on their way, each in a slot of its window.
Slots(c) ==
  LET OfC(m) == OfConn(m, c)
  IN  Queued(waiting, OfC) + Queued(divideq, OfC) + Queued(workq, OfC)
      + Queued(dbq, OfC) + InHand(SlotPlaces, OfC)

\* Messages that hold a DB credit.
Tokens ==
  Queued(divideq, NeedsDb) + Queued(workq, NeedsDb) + Queued(dbq, NeedsDb)
  + InHand(CreditPlaces, NeedsDb)

(* Every slot of a connection's window is held by exactly one message,     *)
(* whatever happened to it: parked without credit, refused by a full       *)
(* divide queue, suspended in a query, its connection closed.  The only    *)
(* slots held for nothing are those of messages whose divide function      *)
(* threw.                                                                  *)
SlotsConserved ==
  \A c \in Conns :
    LET OfC(m) == OfConn(m, c)
    IN  flow[c].in_flight = Slots(c) + Queued(dropped, OfC)

(* A DB business holds one credit from admission to its end, across every  *)
(* suspension, and gives it back once; the only credits that never come    *)
(* back are those of messages whose divide function threw.                 *)
CreditsConserved == available + Tokens + Queued(dropped, NeedsDb) = CreditLimit

(* ConnectionFlow's three fields fit together: full_ says exactly that the *)
(* window is used up, and never at the same time as resume_pending_.       *)
Sound(f) ==
  /\ f.full <=> f.in_flight = Window
  /\ f.in_flight <= Window
  /\ ~(f.full /\ f.resume_pending)
WindowSound == \A c \in Conns : Sound(flow[c])

(* A pause always has somebody who will end it: the connection is in a     *)
(* bucket the Reactor will go through, or one of its messages is with the  *)
(* DB waiting queue or its drain thread, which resumes it after dispatch.  *)
Parked(c) ==
  \/ \E i \in DOMAIN waiting : waiting[i].conn = c
  \/ hand["drain"] # None /\ hand["drain"].conn = c
Revisited(c) ==
  \/ c \in resumes \union retries \union bucket
  \/ pc["reactor"] = "unpause" /\ cur = c
PausedIsRevisited ==
  \A c \in Conns : paused[c] => ~connected[c] \/ Parked(c) \/ Revisited(c)

(* Nothing is left in a bucket of a sleeping Reactor: when it is back in   *)
(* epoll_wait with something to go through, wake_fd_ is readable or the    *)
(* thread that filled the bucket is about to write it.                     *)
BucketsAreAnnounced ==
  pc["reactor"] = "idle" /\ resumes \union retries # {}
    => woken \/ \E t \in Threads : pc[t] = "wakeup"

(* README.md 5.4: finish_one sets resume_pending_ and notifies the Reactor;*)
(* nobody leaves an unconsumed resume_pending_.  While it is set on an     *)
(* open connection, somebody is still on the way to the Reactor with it.   *)
ResumeIsConsumed ==
  \A c \in Conns : flow[c].resume_pending /\ connected[c] =>
    \/ Parked(c) \/ Revisited(c)
    \/ \E w \in WorkWorkers : /\ pc[w] \in {"check", "notify"}
                              /\ hand[w].conn = c

(* Whatever a client has sent on a connection that stays open is           *)
(* eventually taken and carried through, and the window is free again -    *)
(* unless a divide function has thrown and kept a slot or credit for good, *)
(* or the race ResumeIsConsumed is about happened to the connection:       *)
(* finish_one between the Reactor's consume_resume and its exchange of     *)
(* reading_paused, with the worker's look at it still to come.             *)
Race(c) ==
  /\ pc["reactor"] = "unpause" /\ cur = c /\ flow[c].resume_pending
  /\ \E w \in WorkWorkers : pc[w] = "check" /\ hand[w].conn = c
EveryMessageServed ==
  \A c \in Conns :
    \/ <>Race(c)
    \/ <>[](connected[c] /\ dropped = << >> => taken[c] = sent[c] /\ flow[c].in_flight = 0)

=============================================================================
