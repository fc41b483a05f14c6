----------------------------- MODULE CoroutineDB -----------------------------
(***************************************************************************)
(* A business that queries the database is a coroutine: a work worker runs *)
(* it until query_db suspends it (EventAwaiter.cpp), the DB pool answers   *)
(* (DB_pool.cpp, connect_pool.cpp), an on_event task brings it back into   *)
(* the work queue (work_pool.cpp, blockingqueue.cpp) and a worker resumes  *)
(* it (thread_pool.cpp).  Server::stop (Server.cpp) drains the DB pool,    *)
(* cancels what is still suspended and closes both pools, against all of   *)
(* the threads.                                                            *)
(*                                                                         *)
(* Queries of business b have the keys <<b, 1>>, <<b, 2>>, ...  A push is  *)
(* two steps, as in the code: the pool's unfinished count goes up, then    *)
(* the bounded queue takes the task or refuses it.                         *)
(***************************************************************************)
EXTENDS Integers, Sequences, FiniteSets

CONSTANTS Businesses,
          Queries,       \* queries a business may make
          Workers, DbWorkers,
          WorkHigh, DbHigh,
          DbConns,       \* connections connect_pool tries to establish
          MayStop,
          None

ASSUME PoolAssumption ==
  /\ Queries \in [Businesses -> Nat]
  /\ WorkHigh \in Nat \ {0} /\ DbHigh \in Nat \ {0} /\ DbConns \in Nat
  /\ IsFiniteSet(Workers) /\ IsFiniteSet(DbWorkers) /\ MayStop \in BOOLEAN
  /\ Workers \intersect DbWorkers = {}
  /\ {"parse", "stop"} \intersect (Workers \union DbWorkers) = {}
  /\ None \notin [kind : {"start", "resume", "event"}, b : Businesses, n : Nat]

Threads == Workers \union DbWorkers \union {"parse", "stop"}
Keys == UNION {{b} \X (1 .. Queries[b]) : b \in Businesses}
Tasks == [kind : {"start", "resume", "event"}, b : Businesses, n : Nat]

VARIABLES
  \* the business side
  started,    \* businesses handed to the work pool
  asked,      \* how many queries a business has made
  ended,      \* history: businesses that ran to their end
  resumed,    \* history: how often the coroutine was resumed for a key
  \* work_pool: tasks_, closed_, unfinished_task_count_, and task_queue of the
  \* suspended coroutines, by key
  workq, work_closed, work_count, task_queue,
  \* Box of a query: cancelled; ready; suspend_guard not finished yet
  cancelled, ready, held,
  \* DB_pool and its connect_pool
  dbq, db_closed, db_count, established, free, pool_closed,
  \* the threads
  pc, hand,   \* a thread's step and its task
  \* Server::stop
  stage, napping, settling,
  globals,    \* g_work_pool and g_db_handler are set
  unguarded,  \* history: keys resumed without waiting for a guard still held
  refused     \* history: a push was refused while stop waited for idleness

bizVars  == <<started, asked, ended, resumed>>
workVars == <<workq, work_closed, work_count, task_queue>>
boxVars  == <<cancelled, ready, held>>
dbVars   == <<dbq, db_closed, db_count, established, free, pool_closed>>
runVars  == <<pc, hand>>
stopVars == <<stage, napping, settling, globals, unguarded, refused>>
vars == <<bizVars, workVars, boxVars, dbVars, runVars, stopVars>>

Init ==
  /\ started = {} /\ ended = {}
  /\ asked = [b \in Businesses |-> 0]
  /\ resumed = [k \in Keys |-> 0]
  /\ workq = << >> /\ work_closed = FALSE /\ work_count = 0 /\ task_queue = {}
  /\ cancelled = {} /\ ready = {} /\ held = {}
  /\ dbq = << >> /\ db_closed = FALSE /\ db_count = 0 /\ pool_closed = FALSE
  /\ established \in 0 .. DbConns /\ free = established
  /\ pc = [t \in Threads |-> "idle"]
  /\ hand = [t \in Threads |-> None]
  /\ stage = "up" /\ napping = FALSE /\ settling = {} /\ globals = TRUE
  /\ unguarded = {} /\ refused = FALSE

---------------------------------------------------------------------------
Task(kind, k) == [kind |-> kind, b |-> k[1], n |-> k[2]]
Key(task)     == <<task.b, task.n>>

Step(t, from, to) == pc[t] = from /\ pc' = [pc EXCEPT ![t] = to]
Holds(t, task)    == hand' = [hand EXCEPT ![t] = task]

\* finish_task's count and its notification of a wait_idle.
Less(count) == IF count > 0 THEN count - 1 ELSE count

Wakes(here) == napping' = (napping /\ stage # here)

\* thread_pool::add_task: the count, then the push.
AddTask(t, from, task) ==
  /\ Step(t, from, "push")
  /\ work_count' = work_count + 1
  /\ Holds(t, task)

\* Where a thread goes when its push is done.
AfterPush(t) == IF t \in {"parse", "stop"} THEN "idle" ELSE "finish"

PushOk(t) ==
  /\ Step(t, "push", AfterPush(t))
  /\ ~work_closed /\ Len(workq) < WorkHigh
  /\ workq' = Append(workq, hand[t])
  /\ Holds(t, None)
  /\ UNCHANGED <<bizVars, work_closed, work_count, task_queue, boxVars, dbVars, stopVars>>

\* Slip: a refused push stays counted.
PushClosed_Counts(t) ==
  /\ Step(t, "push", AfterPush(t))
  /\ work_closed
  /\ refused' = TRUE
  /\ Holds(t, None)
  /\ UNCHANGED <<bizVars, workVars, boxVars, dbVars, stage, napping, settling, globals, unguarded>>

\* Closed: the count goes down again, without notifying idle_cv_.
PushClosed(t) ==
  /\ Step(t, "push", AfterPush(t))
  /\ work_closed
  /\ work_count' = work_count - 1
  /\ refused' = TRUE
  /\ Holds(t, None)
  /\ UNCHANGED <<bizVars, workq, work_closed, task_queue, boxVars, dbVars,
                 stage, napping, settling, globals, unguarded>>

\* A divide worker hands a parsed request over (Handler_divide_make::on_work).
OnWork(b) ==
  /\ b \notin started
  /\ started' = started \union {b}
  /\ AddTask("parse", "idle", [kind |-> "start", b |-> b, n |-> 0])
  /\ UNCHANGED <<asked, ended, resumed, workq, work_closed, task_queue, boxVars, dbVars, stopVars>>

---------------------------------------------------------------------------
(* A work worker.                                                          *)
WorkPop(t) ==
  /\ workq # << >>
  /\ Step(t, "idle", IF Head(workq).kind = "event" THEN "event" ELSE "run")
  /\ workq' = Tail(workq)
  /\ Holds(t, Head(workq))
  /\ resumed' = IF Head(workq).kind = "resume"
                THEN [resumed EXCEPT ![Key(Head(workq))] = @ + 1] ELSE resumed
  /\ UNCHANGED <<started, asked, ended, work_closed, work_count, task_queue,
                 boxVars, dbVars, stopVars>>

WorkExits(t) ==
  /\ Step(t, "idle", "exited")
  /\ work_closed /\ workq = << >>
  /\ UNCHANGED <<bizVars, workVars, boxVars, dbVars, hand, stopVars>>

(* query_db and await_suspend up to the insert: from here on the coroutine *)
(* can be taken and resumed.                                               *)
AwaitSuspend(t) ==
  /\ Step(t, "run", "submit")
  /\ globals
  /\ LET b == hand[t].b
         k == <<b, asked[b] + 1>>
     IN
     /\ k \in Keys
     /\ asked' = [asked EXCEPT ![b] = @ + 1]
     /\ task_queue' = task_queue \union {k}
     /\ held' = held \union {k}
     /\ Holds(t, Task("resume", k))
     /\ UNCHANGED <<started, ended, resumed, workq, work_closed, work_count,
                    cancelled, ready, dbVars, stopVars>>

\* query_db without a framework: the box is cancelled, nothing suspends.
AwaitReady(t) ==
  /\ pc[t] = "run" /\ ~globals
  /\ LET b == hand[t].b
         k == <<b, asked[b] + 1>>
     IN
     /\ k \in Keys
     /\ asked' = [asked EXCEPT ![b] = @ + 1]
     /\ cancelled' = cancelled \union {k}
     /\ UNCHANGED <<started, ended, resumed, workVars, ready, held, dbVars, runVars, stopVars>>

\* The rest of await_suspend: DB_pool::submit, whose result nobody looks at.
Submit(t) ==
  /\ Step(t, "submit", "dbpush")
  /\ db_count' = db_count + 1
  /\ UNCHANGED <<bizVars, workVars, boxVars, dbq, db_closed, established, free, pool_closed,
                 hand, stopVars>>

\* Slip: a query a full queue refuses is dropped.
SubmitOk_Drops(t) ==
  /\ Step(t, "dbpush", "leave")
  /\ ~db_closed
  /\ dbq' = IF Len(dbq) < DbHigh THEN Append(dbq, Key(hand[t])) ELSE dbq
  /\ UNCHANGED <<bizVars, workVars, boxVars, db_closed, db_count, established, free,
                 pool_closed, hand, stopVars>>

SubmitOk(t) ==
  /\ Step(t, "dbpush", "leave")
  /\ ~db_closed /\ Len(dbq) < DbHigh
  /\ dbq' = Append(dbq, Key(hand[t]))
  /\ UNCHANGED <<bizVars, workVars, boxVars, db_closed, db_count, established, free,
                 pool_closed, hand, stopVars>>

SubmitClosed(t) ==
  /\ Step(t, "dbpush", "leave")
  /\ db_closed
  /\ db_count' = Less(db_count) /\ Wakes("db wait")
  /\ UNCHANGED <<bizVars, workVars, boxVars, dbq, db_closed, established, free, pool_closed,
                 hand, stage, settling, globals, unguarded, refused>>

\* Slip: the guard is not finished.
Leave_Forgets(t) ==
  /\ Step(t, "leave", "finish")
  /\ UNCHANGED <<bizVars, workVars, boxVars, dbVars, hand, stopVars>>

\* The coroutine is suspended and fn() returns: active->finish().
Leave(t) ==
  /\ Step(t, "leave", "finish")
  /\ held' = held \ {Key(hand[t])}
  /\ UNCHANGED <<bizVars, workVars, cancelled, ready, dbVars, hand, stopVars>>

\* The business runs to its end, with or without its further queries.
Ends(t) ==
  /\ Step(t, "run", "finish")
  /\ ended' = ended \union {hand[t].b}
  /\ UNCHANGED <<started, asked, resumed, workVars, boxVars, dbVars, hand, stopVars>>

\* Slip: the suspended coroutine is found, not taken.
OnEvent_Finds(t) ==
  /\ AddTask(t, "event", Task("resume", Key(hand[t])))
  /\ Key(hand[t]) \in task_queue
  /\ UNCHANGED <<bizVars, workq, work_closed, task_queue, boxVars, dbVars, stopVars>>

\* on_event: the suspended coroutine is taken and its resume pushed.
OnEvent(t) ==
  /\ AddTask(t, "event", Task("resume", Key(hand[t])))
  /\ Key(hand[t]) \in task_queue
  /\ task_queue' = task_queue \ {Key(hand[t])}
  /\ UNCHANGED <<bizVars, workq, work_closed, boxVars, dbVars, stopVars>>

\* Nobody waits for the key any more.
OnEventTooLate(t) ==
  /\ Step(t, "event", "finish")
  /\ Key(hand[t]) \notin task_queue
  /\ UNCHANGED <<bizVars, workVars, boxVars, dbVars, hand, stopVars>>

\* Slip: finish_task without its notification.
FinishTask_Silent(t) ==
  /\ t \in Workers /\ Step(t, "finish", "idle")
  /\ work_count' = Less(work_count)
  /\ Holds(t, None)
  /\ UNCHANGED <<bizVars, workq, work_closed, task_queue, boxVars, dbVars, stopVars>>

FinishTask(t) ==
  /\ t \in Workers /\ Step(t, "finish", "idle")
  /\ work_count' = Less(work_count) /\ Wakes("work wait")
  /\ Holds(t, None)
  /\ UNCHANGED <<bizVars, workq, work_closed, task_queue, boxVars, dbVars,
                 stage, settling, globals, unguarded, refused>>

---------------------------------------------------------------------------
(* A DB worker; its hand holds an event task of the query's key.           *)
DbPop(t) ==
  /\ dbq # << >>
  /\ Step(t, "idle", "get")
  /\ dbq' = Tail(dbq)
  /\ Holds(t, Task("event", Head(dbq)))
  /\ UNCHANGED <<bizVars, workVars, boxVars, db_closed, db_count, established, free,
                 pool_closed, stopVars>>

DbExits(t) ==
  /\ Step(t, "idle", "exited")
  /\ db_closed /\ dbq = << >>
  /\ UNCHANGED <<bizVars, workVars, boxVars, dbVars, hand, stopVars>>

\* connect_pool::get
Get(t) ==
  /\ Step(t, "get", "query")
  /\ ~pool_closed /\ free > 0
  /\ free' = free - 1
  /\ UNCHANGED <<bizVars, workVars, boxVars, dbq, db_closed, db_count, established,
                 pool_closed, hand, stopVars>>

\* It returns null: the answer is an error and goes back without the guard.
GetNull(t) ==
  /\ pool_closed
  /\ AddTask(t, "get", hand[t])
  /\ ready' = ready \union {Key(hand[t])}
  /\ unguarded' = unguarded \union ({Key(hand[t])} \intersect held)
  /\ UNCHANGED <<bizVars, workq, work_closed, task_queue, cancelled, held, dbVars,
                 stage, napping, settling, globals, refused>>

\* The statement is executed or fails, and the connection goes back.
Query(t) ==
  /\ Step(t, "query", "guard")
  /\ ready' = ready \union {Key(hand[t])}
  /\ free' = free + 1
  /\ UNCHANGED <<bizVars, workVars, cancelled, held, dbq, db_closed, db_count, established,
                 pool_closed, hand, stopVars>>

\* Slip: the event is pushed as soon as the answer is there.
WaitFinished_Not(t) ==
  /\ AddTask(t, "guard", hand[t])
  /\ UNCHANGED <<bizVars, workq, work_closed, task_queue, boxVars, dbVars, stopVars>>

\* suspend_guard->wait_finished(), then add_task of the on_event call.
WaitFinished(t) ==
  /\ AddTask(t, "guard", hand[t])
  /\ Key(hand[t]) \notin held
  /\ UNCHANGED <<bizVars, workq, work_closed, task_queue, boxVars, dbVars, stopVars>>

DbFinishTask(t) ==
  /\ t \in DbWorkers /\ Step(t, "finish", "idle")
  /\ db_count' = Less(db_count) /\ Wakes("db wait")
  /\ Holds(t, None)
  /\ UNCHANGED <<bizVars, workVars, boxVars, dbq, db_closed, established, free, pool_closed,
                 stage, settling, globals, unguarded, refused>>

---------------------------------------------------------------------------
(* Server::stop, from the drained parse pool on.                           *)
Stage(from, to) == stage = from /\ stage' = to

Stop ==
  /\ MayStop /\ Stage("up", "db wait")
  /\ UNCHANGED <<bizVars, workVars, boxVars, dbVars, runVars, napping, settling, globals,
                 unguarded, refused>>

(* wait_idle: passes when the count is 0, sleeps otherwise; a sleeper is   *)
(* notified by finish_task or gives up after five seconds.                 *)
Idle(here, count, to) ==
  /\ stage = here /\ ~napping
  /\ IF count = 0 THEN stage' = to /\ UNCHANGED napping
     ELSE napping' = TRUE /\ UNCHANGED stage
  /\ refused' = FALSE
GivesUp(here, to) == napping /\ Stage(here, to) /\ napping' = FALSE /\ UNCHANGED refused

WaitIdle ==
  /\ \/ Idle("db wait", db_count, "settle") \/ GivesUp("db wait", "settle")
     \/ Idle("work wait", work_count, "db close") \/ GivesUp("work wait", "db close")
  /\ UNCHANGED <<bizVars, workVars, boxVars, dbVars, runVars, settling, globals, unguarded>>

\* settle_pending: take_all, then each coroutine is cancelled and pushed.
TakeAll ==
  /\ Stage("settle", "settling")
  /\ settling' = task_queue /\ task_queue' = {}
  /\ unguarded' = unguarded \union (task_queue \intersect held)
  /\ UNCHANGED <<bizVars, workq, work_closed, work_count, boxVars, dbVars, runVars, napping,
                 globals, refused>>

Settle(k) ==
  /\ stage = "settling" /\ k \in settling
  /\ settling' = settling \ {k}
  /\ cancelled' = cancelled \union {k}
  /\ AddTask("stop", "idle", Task("resume", k))
  /\ UNCHANGED <<bizVars, workq, work_closed, task_queue, ready, held, dbVars, stage,
                 napping, globals, unguarded, refused>>

CloseWork ==
  /\ Stage("settling", "work wait") /\ settling = {} /\ pc["stop"] = "idle"
  /\ work_closed' = TRUE
  /\ UNCHANGED <<bizVars, workq, work_count, task_queue, boxVars, dbVars, runVars, napping,
                 settling, globals, unguarded, refused>>

\* DB_pool::shutdown: the queue, the connections, the workers.
CloseDb ==
  /\ Stage("db close", "pool close")
  /\ db_closed' = TRUE
  /\ UNCHANGED <<bizVars, workVars, boxVars, dbq, db_count, established, free, pool_closed,
                 runVars, napping, settling, globals, unguarded, refused>>


ClosePool ==
  /\ Stage("pool close", "join")
  /\ pool_closed' = TRUE
  /\ UNCHANGED <<bizVars, workVars, boxVars, dbq, db_closed, db_count, established, free,
                 runVars, napping, settling, globals, unguarded, refused>>

ClearGlobals ==
  /\ Stage("join", "done") /\ \A t \in DbWorkers : pc[t] = "exited"
  /\ globals' = FALSE
  /\ UNCHANGED <<bizVars, workVars, boxVars, dbVars, runVars, napping, settling, unguarded, refused>>

---------------------------------------------------------------------------
Work(t) ==
  \/ WorkPop(t) \/ WorkExits(t) \/ AwaitSuspend(t) \/ AwaitReady(t) \/ Submit(t) \/ SubmitOk(t)
  \/ SubmitClosed(t) \/ Leave(t) \/ Ends(t) \/ OnEvent(t) \/ OnEventTooLate(t) \/ FinishTask(t)
Db(t) == \/ DbPop(t) \/ DbExits(t) \/ Get(t) \/ GetNull(t) \/ Query(t) \/ WaitFinished(t)
         \/ DbFinishTask(t)
Stopping == \/ WaitIdle \/ TakeAll \/ CloseWork \/ CloseDb \/ ClosePool \/ ClearGlobals
            \/ \E k \in Keys : Settle(k)

Next == \/ \E b \in Businesses : OnWork(b)
        \/ \E t \in Threads : PushOk(t) \/ PushClosed(t)
        \/ \E t \in Workers : Work(t)
        \/ \E t \in DbWorkers : Db(t)
        \/ Stop \/ Stopping

(* Every thread keeps running.  Nobody has to bring a business or to stop. *)
Fairness ==
  /\ \A t \in Threads : WF_vars(PushOk(t) \/ PushClosed(t))
  /\ \A t \in Workers : WF_vars(Work(t))
  /\ \A t \in DbWorkers : WF_vars(Db(t))
  /\ WF_vars(Stopping)

Spec == Init /\ [][Next]_vars /\ Fairness

---------------------------------------------------------------------------
(* Properties.                                                             *)
Stages == {"up", "db wait", "settle", "settling", "work wait", "db close", "pool close",
           "join", "done"}

(* Every variable keeps its type.                                          *)
TypeOK ==
  /\ started \in SUBSET Businesses /\ ended \in SUBSET Businesses
  /\ asked \in [Businesses -> Nat] /\ resumed \in [Keys -> Nat]
  /\ workq \in Seq(Tasks) /\ Len(workq) <= WorkHigh
  /\ work_closed \in BOOLEAN /\ work_count \in Int
  /\ task_queue \in SUBSET Keys /\ cancelled \in SUBSET Keys
  /\ ready \in SUBSET Keys /\ held \in SUBSET Keys
  /\ dbq \in Seq(Keys) /\ Len(dbq) <= DbHigh /\ db_closed \in BOOLEAN /\ db_count \in Nat
  /\ established \in 0 .. DbConns /\ free \in Nat /\ pool_closed \in BOOLEAN
  /\ pc \in [Threads -> {"idle", "push", "run", "submit", "dbpush", "leave", "event", "finish",
                         "get", "query", "guard", "exited"}]
  /\ hand \in [Threads -> Tasks \union {None}]
  /\ stage \in Stages /\ napping \in BOOLEAN /\ settling \in SUBSET Keys
  /\ globals \in BOOLEAN /\ unguarded \in SUBSET Keys /\ refused \in BOOLEAN

\* Worker t is executing code of business b's coroutine or its awaiter.
Inside(t, b) == pc[t] \in {"run", "submit", "dbpush", "leave"} /\ hand[t].b = b

(* No two threads are ever in the same coroutine (DB_pool.cpp:201), as     *)
(* long as nobody resumes it without asking its guard, as settle_pending   *)
(* and a DB worker without a connection do.                                *)
OneThreadUnlessUnguarded ==
  \A b \in Businesses : (\A k \in unguarded : k[1] # b) =>
    \A t, u \in Workers : Inside(t, b) /\ Inside(u, b) => t = u

(* A coroutine suspended for a query is resumed at most once for it, and   *)
(* while its resume is on the way it is no longer in the guard queue,      *)
(* whoever took it: the answer's on_event or settle_pending.               *)
Resuming(k) ==
  Cardinality({i \in 1 .. Len(workq) : workq[i] = Task("resume", k)})
    + Cardinality({t \in Threads : pc[t] = "push" /\ hand[t] = Task("resume", k)})
    + (IF k \in task_queue THEN 1 ELSE 0) + (IF k \in settling THEN 1 ELSE 0)
ResumedOnce == \A k \in Keys : resumed[k] + Resuming(k) <= 1

\* The query k is somewhere between await_suspend and its on_event.
Underway(k) ==
  \/ \E t \in Workers : pc[t] \in {"submit", "dbpush"} /\ Key(hand[t]) = k
  \/ \E i \in 1 .. Len(dbq) : dbq[i] = k
  \/ \E t \in DbWorkers : pc[t] \in {"get", "query", "guard", "push"} /\ Key(hand[t]) = k
  \/ \E i \in 1 .. Len(workq) : workq[i] = Task("event", k)
  \/ \E t \in Workers : pc[t] = "event" /\ Key(hand[t]) = k

(* A suspended coroutine is never forgotten while the pools are open: its  *)
(* query or its event is underway to resume it.                            *)
SuspendedIsAnswered == ~work_closed /\ ~db_closed => \A k \in task_queue : Underway(k)

\* Threads with a task of the pool in their hands, and pushers counted already.
InWork == Cardinality({t \in Workers : pc[t] \notin {"idle", "exited"}})
            + Cardinality({t \in Threads : pc[t] = "push"})
InDb == Cardinality({t \in Workers : pc[t] = "dbpush"})
          + Cardinality({t \in DbWorkers : pc[t] \notin {"idle", "exited"}})

(* The unfinished counts wait_idle reads are what is queued, in hand or    *)
(* about to be queued, through refusals and shutdown: 0 means idle.  And   *)
(* database connections are neither lost nor made.                         *)
CountsAreExact ==
  /\ work_count = Len(workq) + InWork
  /\ db_count = Len(dbq) + InDb
  /\ free + Cardinality({t \in DbWorkers : pc[t] = "query"}) = established

(* wait_idle sleeps only while something is unfinished, except after a     *)
(* refused push, which does not notify it (thread_pool.cpp:84).            *)
SleeperHasReason ==
  /\ napping /\ stage = "db wait" => db_count > 0
  /\ napping /\ stage = "work wait" => work_count > 0 \/ refused

(* Every business handed over runs to its end, through all its queries, if *)
(* the database has a connection and the server is not stopped.  Nobody    *)
(* but the work workers empties the queue they push resumptions into, so   *)
(* it takes fewer businesses than workers and room in the queue together.  *)
BusinessEnds ==
  \A b \in Businesses : b \in started ~> b \in ended \/ stage # "up" \/ established = 0

(* src/README.md:414 says that a resumption is queued and never run by who *)
(* completes the query, lest the business pool starve.  A worker that has  *)
(* taken an event does get rid of its resumption, then.  With as many      *)
(* businesses as workers and room in the queue it does not: all workers    *)
(* wait for room that only they can make.                                  *)
ResumptionsAreQueued == \A t \in Workers : pc[t] = "push" ~> pc[t] # "push"

(* stop() gets through every wait and join, and then the work threads end, *)
(* even if the database never had a connection.                            *)
StopEnds == (stage # "up") ~> (stage = "done" /\ \A t \in Workers : pc[t] = "exited")
==============================================================================
