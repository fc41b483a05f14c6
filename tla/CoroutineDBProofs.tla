-------------------------- MODULE CoroutineDBProofs --------------------------
(***************************************************************************)
(* For any businesses, threads, queue limits and database connections: the *)
(* variables keep their types and the queues their bounds; the unfinished  *)
(* counts are exact and a sleeping wait_idle has a reason; a suspended     *)
(* coroutine is not forgotten, is resumed at most once for a query and, if *)
(* nobody passes its guard by, is never run by two threads.                *)
(*                                                                         *)
(* The type of a thread's task depends on where the thread is, and on that *)
(* every task in the work queue that is not a business to start carries a  *)
(* query's key.  The proofs about the coroutines follow one thing each: a  *)
(* query's way from await_suspend to on_event (Underway), the resume of a  *)
(* query (Out) and the turn of a business (Turns).                         *)
(***************************************************************************)
EXTENDS CoroutineDB, FiniteSetTheorems, SequenceTheorems, TLAPS

GoodTasks == {task \in Tasks : task.kind # "start" => Key(task) \in Keys}

\* Where a thread has a task in its hand, and where the task has a key.
Keyed   == {"submit", "dbpush", "leave", "event", "get", "query", "guard"}
Holding == Keyed \union {"run", "push"}
Places  == Holding \union {"idle", "finish", "exited"}

BizTypes ==
  /\ started \in SUBSET Businesses /\ ended \in SUBSET Businesses
  /\ asked \in [Businesses -> Nat] /\ resumed \in [Keys -> Nat]
WorkTypes ==
  /\ workq \in Seq(GoodTasks) /\ Len(workq) <= WorkHigh
  /\ work_closed \in BOOLEAN /\ work_count \in Int
  /\ task_queue \in SUBSET Keys
BoxTypes == cancelled \in SUBSET Keys /\ ready \in SUBSET Keys /\ held \in SUBSET Keys
DbTypes ==
  /\ dbq \in Seq(Keys) /\ Len(dbq) <= DbHigh /\ db_closed \in BOOLEAN /\ db_count \in Nat
  /\ established \in 0 .. DbConns /\ free \in Nat /\ pool_closed \in BOOLEAN
ThreadTypes ==
  /\ pc \in [Threads -> Places]
  /\ hand \in [Threads -> GoodTasks \union {None}]
  /\ \A t \in Threads : /\ pc[t] \in Holding => hand[t] \in GoodTasks
                        /\ pc[t] \in Keyed => hand[t].kind # "start"
StopTypes ==
  /\ stage \in Stages /\ napping \in BOOLEAN /\ settling \in SUBSET Keys
  /\ globals \in BOOLEAN /\ unguarded \in SUBSET Keys /\ refused \in BOOLEAN

PoolInv == BizTypes /\ WorkTypes /\ BoxTypes /\ DbTypes /\ ThreadTypes /\ StopTypes

---------------------------------------------------------------------------
(* What a step leaves alone keeps its type.                                *)
LEMMA Kept ==
  /\ BizTypes /\ UNCHANGED bizVars => BizTypes'
  /\ WorkTypes /\ UNCHANGED workVars => WorkTypes'
  /\ BoxTypes /\ UNCHANGED boxVars => BoxTypes'
  /\ DbTypes /\ UNCHANGED dbVars => DbTypes'
  /\ ThreadTypes /\ UNCHANGED runVars => ThreadTypes'
  /\ StopTypes /\ UNCHANGED stopVars => StopTypes'
<1>1. BizTypes /\ UNCHANGED bizVars => BizTypes'
  BY DEF BizTypes, bizVars
<1>2. WorkTypes /\ UNCHANGED workVars => WorkTypes'
  BY DEF WorkTypes, workVars
<1>3. BoxTypes /\ UNCHANGED boxVars => BoxTypes'
  BY DEF BoxTypes, boxVars
<1>4. DbTypes /\ UNCHANGED dbVars => DbTypes'
  BY DEF DbTypes, dbVars
<1>5. ThreadTypes /\ UNCHANGED runVars => ThreadTypes'
  BY DEF ThreadTypes, runVars
<1>6. StopTypes /\ UNCHANGED stopVars => StopTypes'
  BY DEF StopTypes, stopVars
<1>7. QED
  BY <1>1, <1>2, <1>3, <1>4, <1>5, <1>6

(* A task of a query's key is a good one, and its key is that key.         *)
LEMMA KeyedTask ==
  ASSUME NEW kind \in {"resume", "event"}, NEW k \in Keys
  PROVE  Task(kind, k) \in GoodTasks /\ Key(Task(kind, k)) = k /\ Task(kind, k).kind = kind
<1>1. k = <<k[1], k[2]>> /\ k[1] \in Businesses /\ k[2] \in Nat
  BY PoolAssumption DEF Keys
<1>2. QED
  BY <1>1 DEF Task, Key, GoodTasks, Tasks

LEMMA HasKey ==
  ASSUME NEW task \in GoodTasks, task.kind # "start"
  PROVE  Key(task) \in Keys
  BY DEF GoodTasks

(* A thread moves on, with a task that fits where it goes to.              *)
LEMMA Moves ==
  ASSUME ThreadTypes, NEW t \in Threads, NEW to \in Places, NEW task \in GoodTasks \union {None},
         pc' = [pc EXCEPT ![t] = to], hand' = [hand EXCEPT ![t] = task],
         to \in Holding => task \in GoodTasks, to \in Keyed => task.kind # "start"
  PROVE  ThreadTypes'
<1>1. pc' \in [Threads -> Places] /\ hand' \in [Threads -> GoodTasks \union {None}]
  BY DEF ThreadTypes
<1>2. ASSUME NEW u \in Threads
      PROVE  /\ pc'[u] \in Holding => hand'[u] \in GoodTasks
             /\ pc'[u] \in Keyed => hand'[u].kind # "start"
  BY DEF ThreadTypes
<1>3. QED
  BY <1>1, <1>2 DEF ThreadTypes

LEMMA Stays ==
  ASSUME ThreadTypes, NEW t \in Threads, NEW from, NEW to \in Places,
         Step(t, from, to), hand' = hand,
         to \in Holding => from \in Holding, to \in Keyed => from \in Keyed
  PROVE  ThreadTypes'
<1>1. pc' \in [Threads -> Places] /\ hand' \in [Threads -> GoodTasks \union {None}]
  BY DEF ThreadTypes, Step
<1>2. ASSUME NEW u \in Threads
      PROVE  /\ pc'[u] \in Holding => hand'[u] \in GoodTasks
             /\ pc'[u] \in Keyed => hand'[u].kind # "start"
  BY DEF ThreadTypes, Step
<1>3. QED
  BY <1>1, <1>2 DEF ThreadTypes

(* add_task, by a thread with a task at hand.                              *)
LEMMA Adds ==
  ASSUME ThreadTypes, NEW t \in Threads, NEW from, NEW task \in GoodTasks, AddTask(t, from, task)
  PROVE  ThreadTypes'
  BY Moves DEF AddTask, Step, Holds, Holding, Keyed, Places

LEMMA Counts ==
  ASSUME WorkTypes, work_count' \in Int, UNCHANGED <<workq, work_closed, task_queue>>
  PROVE  WorkTypes'
  BY DEF WorkTypes

(* A business asks its next query.                                         *)
LEMMA Asks ==
  ASSUME BizTypes, NEW b, asked' = [asked EXCEPT ![b] = @ + 1],
         UNCHANGED <<started, ended, resumed>>
  PROVE  BizTypes'
<1>1. ASSUME NEW c \in Businesses PROVE asked'[c] \in Nat
  <2>1. asked[c] \in Nat /\ asked[c] + 1 \in Nat
    BY DEF BizTypes
  <2>2. asked'[c] = IF c = b THEN asked[c] + 1 ELSE asked[c]
    BY DEF BizTypes
  <2>3. QED
    BY <2>1, <2>2
<1>2. asked' \in [Businesses -> Nat]
  BY <1>1 DEF BizTypes
<1>3. QED
  BY <1>2 DEF BizTypes

LEMMA FewerIsCounted ==
  /\ \A n \in Int : n - 1 \in Int /\ n + 1 \in Int /\ Less(n) \in Int
  /\ \A n \in Nat : n + 1 \in Nat /\ Less(n) \in Nat
  BY DEF Less

---------------------------------------------------------------------------
(* The divide worker's hand-over and the pushes of every thread.           *)
LEMMA PushTypes ==
  ASSUME PoolInv, NEW t \in Threads,
         \/ \E b \in Businesses : OnWork(b)
         \/ PushOk(t) \/ PushClosed(t)
  PROVE  PoolInv'
<1> BizTypes /\ WorkTypes /\ BoxTypes /\ DbTypes /\ ThreadTypes /\ StopTypes
  BY DEF PoolInv
<1>1. ASSUME NEW b \in Businesses, OnWork(b) PROVE PoolInv'
  <2>1. [kind |-> "start", b |-> b, n |-> 0] \in GoodTasks
    BY DEF GoodTasks, Tasks
  <2>2. ThreadTypes'
    BY <1>1, <2>1, Adds DEF OnWork, Threads
  <2>3. WorkTypes'
    BY <1>1, FewerIsCounted DEF OnWork, AddTask, WorkTypes
  <2>4. BizTypes'
    BY <1>1 DEF OnWork, BizTypes
  <2>5. QED
    BY <1>1, <2>2, <2>3, <2>4, Kept DEF OnWork, PoolInv
<1>2. CASE PushOk(t)
  <2>1. hand[t] \in GoodTasks /\ AfterPush(t) \in {"idle", "finish"}
    BY <1>2 DEF PushOk, Step, ThreadTypes, Holding, AfterPush
  <2>2. Append(workq, hand[t]) \in Seq(GoodTasks) /\ Len(Append(workq, hand[t])) <= WorkHigh
    BY <1>2, <2>1, AppendProperties, PoolAssumption, LenProperties DEF PushOk, WorkTypes
  <2>3. WorkTypes'
    BY <1>2, <2>2 DEF PushOk, WorkTypes
  <2>4. ThreadTypes'
    BY <1>2, <2>1, Moves DEF PushOk, Step, Holds, Holding, Keyed, Places
  <2>5. QED
    BY <1>2, <2>3, <2>4, Kept DEF PushOk, PoolInv
<1>3. CASE PushClosed(t)
  <2>1. AfterPush(t) \in {"idle", "finish"}
    BY DEF AfterPush
  <2>2. WorkTypes'
    BY <1>3, FewerIsCounted DEF PushClosed, WorkTypes
  <2>3. ThreadTypes'
    BY <1>3, <2>1, Moves DEF PushClosed, Step, Holds, Holding, Keyed, Places
  <2>4. StopTypes'
    BY <1>3 DEF PushClosed, StopTypes
  <2>5. QED
    BY <1>3, <2>2, <2>3, <2>4, Kept DEF PushClosed, PoolInv
<1>4. QED
  BY <1>1, <1>2, <1>3

---------------------------------------------------------------------------
(* A work worker.                                                          *)
LEMMA WorkStepTypes ==
  ASSUME PoolInv, NEW t \in Workers, Work(t)
  PROVE  PoolInv'
<1> BizTypes /\ WorkTypes /\ BoxTypes /\ DbTypes /\ ThreadTypes /\ StopTypes
  BY DEF PoolInv
<1> t \in Threads
  BY DEF Threads
<1>1. CASE WorkPop(t)
  <2>1. Head(workq) \in GoodTasks /\ Tail(workq) \in Seq(GoodTasks)
        /\ Len(Tail(workq)) = Len(workq) - 1 /\ Len(workq) \in Nat
    BY <1>1, HeadTailProperties, LenProperties DEF WorkPop, WorkTypes
  <2>2. WorkTypes'
    BY <1>1, <2>1, PoolAssumption DEF WorkPop, WorkTypes
  <2>3. ThreadTypes'
    <3>1. CASE Head(workq).kind = "event"
      BY <1>1, <2>1, <3>1, Moves DEF WorkPop, Step, Holds, Holding, Keyed, Places
    <3>2. CASE Head(workq).kind # "event"
      BY <1>1, <2>1, <3>2, Moves DEF WorkPop, Step, Holds, Holding, Keyed, Places
    <3>3. QED
      BY <3>1, <3>2
  <2>4. BizTypes'
    <3>1. CASE Head(workq).kind = "resume"
      <4>1. Key(Head(workq)) \in Keys
        BY <2>1, <3>1, HasKey
      <4>2. resumed \in [Keys -> Nat] /\ UNCHANGED <<started, asked, ended>>
            /\ resumed' = [resumed EXCEPT ![Key(Head(workq))] = @ + 1]
        BY <1>1, <3>1 DEF WorkPop, BizTypes
      <4>3. resumed' \in [Keys -> Nat]
        BY <4>1, <4>2
      <4>4. QED
        BY <4>2, <4>3 DEF BizTypes
    <3>2. CASE Head(workq).kind # "resume"
      <4>1. UNCHANGED bizVars
        BY <1>1, <3>2 DEF WorkPop, bizVars
      <4>2. QED
        BY <4>1, Kept
    <3>3. QED
      BY <3>1, <3>2
  <2>5. QED
    BY <1>1, <2>2, <2>3, <2>4, Kept DEF WorkPop, PoolInv
<1>2. CASE WorkExits(t)
  <2>1. ThreadTypes'
    BY <1>2, Stays DEF WorkExits, Holding, Keyed, Places
  <2>2. QED
    BY <1>2, <2>1, Kept DEF WorkExits, PoolInv
<1>3. CASE AwaitSuspend(t)
  <2> DEFINE k == <<hand[t].b, asked[hand[t].b] + 1>>
  <2>1. k \in Keys /\ pc[t] = "run" /\ hand[t] \in GoodTasks
    BY <1>3 DEF AwaitSuspend, Step, ThreadTypes, Holding
  <2>2. Task("resume", k) \in GoodTasks /\ Task("resume", k).kind # "start"
    BY <2>1, KeyedTask
  <2>3. ThreadTypes'
    BY <1>3, <2>2, Moves DEF AwaitSuspend, Step, Holds, Holding, Keyed, Places
  <2>4. BizTypes'
    BY <1>3, Asks DEF AwaitSuspend
  <2>5. WorkTypes'
    BY <1>3, <2>1 DEF AwaitSuspend, WorkTypes
  <2>6. BoxTypes'
    BY <1>3, <2>1 DEF AwaitSuspend, BoxTypes
  <2>7. QED
    BY <1>3, <2>3, <2>4, <2>5, <2>6, Kept DEF AwaitSuspend, PoolInv
<1>4. CASE AwaitReady(t)
  <2>1. BizTypes'
    BY <1>4, Asks DEF AwaitReady
  <2>2. BoxTypes'
    BY <1>4 DEF AwaitReady, BoxTypes
  <2>3. QED
    BY <1>4, <2>1, <2>2, Kept DEF AwaitReady, PoolInv
<1>5. CASE Submit(t)
  <2>1. ThreadTypes'
    BY <1>5, Stays DEF Submit, Holding, Keyed, Places
  <2>2. DbTypes'
    BY <1>5, FewerIsCounted DEF Submit, DbTypes
  <2>3. QED
    BY <1>5, <2>1, <2>2, Kept DEF Submit, PoolInv
<1>6. CASE SubmitOk(t)
  <2>1. Key(hand[t]) \in Keys
    BY <1>6, HasKey DEF SubmitOk, Step, ThreadTypes, Holding, Keyed
  <2>2. Append(dbq, Key(hand[t])) \in Seq(Keys) /\ Len(Append(dbq, Key(hand[t]))) <= DbHigh
    BY <1>6, <2>1, AppendProperties, LenProperties, PoolAssumption DEF SubmitOk, DbTypes
  <2>3. ThreadTypes'
    BY <1>6, Stays DEF SubmitOk, Holding, Keyed, Places
  <2>4. DbTypes'
    BY <1>6, <2>2 DEF SubmitOk, DbTypes
  <2>5. QED
    BY <1>6, <2>3, <2>4, Kept DEF SubmitOk, PoolInv
<1>7. CASE SubmitClosed(t)
  <2>1. ThreadTypes'
    BY <1>7, Stays DEF SubmitClosed, Holding, Keyed, Places
  <2>2. DbTypes'
    BY <1>7, FewerIsCounted DEF SubmitClosed, DbTypes
  <2>3. StopTypes'
    BY <1>7 DEF SubmitClosed, StopTypes, Wakes
  <2>4. QED
    BY <1>7, <2>1, <2>2, <2>3, Kept DEF SubmitClosed, PoolInv
<1>8. CASE Leave(t)
  <2>1. ThreadTypes'
    BY <1>8, Stays DEF Leave, Holding, Keyed, Places
  <2>2. BoxTypes'
    BY <1>8 DEF Leave, BoxTypes
  <2>3. QED
    BY <1>8, <2>1, <2>2, Kept DEF Leave, PoolInv
<1>9. CASE Ends(t)
  <2>1. hand[t].b \in Businesses
    BY <1>9 DEF Ends, Step, ThreadTypes, Holding, GoodTasks, Tasks
  <2>2. ThreadTypes'
    BY <1>9, Stays DEF Ends, Holding, Keyed, Places
  <2>3. BizTypes'
    BY <1>9, <2>1 DEF Ends, BizTypes
  <2>4. QED
    BY <1>9, <2>2, <2>3, Kept DEF Ends, PoolInv
<1>10. CASE OnEvent(t)
  <2>1. Key(hand[t]) \in Keys
    BY <1>10 DEF OnEvent, WorkTypes
  <2>2. Task("resume", Key(hand[t])) \in GoodTasks
    BY <2>1, KeyedTask
  <2>3. ThreadTypes'
    BY <1>10, <2>2, Adds DEF OnEvent
  <2>4. WorkTypes'
    BY <1>10, FewerIsCounted DEF OnEvent, AddTask, WorkTypes
  <2>5. QED
    BY <1>10, <2>3, <2>4, Kept DEF OnEvent, PoolInv
<1>11. CASE OnEventTooLate(t)
  <2>1. ThreadTypes'
    BY <1>11, Stays DEF OnEventTooLate, Holding, Keyed, Places
  <2>2. QED
    BY <1>11, <2>1, Kept DEF OnEventTooLate, PoolInv
<1>12. CASE FinishTask(t)
  <2>1. ThreadTypes'
    BY <1>12, Moves DEF FinishTask, Step, Holds, Holding, Keyed, Places
  <2>2. WorkTypes'
    BY <1>12, FewerIsCounted DEF FinishTask, WorkTypes
  <2>3. StopTypes'
    BY <1>12 DEF FinishTask, StopTypes, Wakes
  <2>4. QED
    BY <1>12, <2>1, <2>2, <2>3, Kept DEF FinishTask, PoolInv
<1>13. QED
  BY <1>1, <1>2, <1>3, <1>4, <1>5, <1>6, <1>7, <1>8, <1>9, <1>10, <1>11, <1>12 DEF Work

---------------------------------------------------------------------------
(* A DB worker.                                                            *)
LEMMA DbStepTypes ==
  ASSUME PoolInv, NEW t \in DbWorkers, Db(t)
  PROVE  PoolInv'
<1> BizTypes /\ WorkTypes /\ BoxTypes /\ DbTypes /\ ThreadTypes /\ StopTypes
  BY DEF PoolInv
<1> t \in Threads
  BY DEF Threads
<1>1. CASE DbPop(t)
  <2>1. Head(dbq) \in Keys /\ Tail(dbq) \in Seq(Keys)
        /\ Len(Tail(dbq)) = Len(dbq) - 1 /\ Len(dbq) \in Nat
    BY <1>1, HeadTailProperties, LenProperties DEF DbPop, DbTypes
  <2>2. Task("event", Head(dbq)) \in GoodTasks /\ Task("event", Head(dbq)).kind # "start"
    BY <2>1, KeyedTask
  <2>3. ThreadTypes'
    BY <1>1, <2>2, Moves DEF DbPop, Step, Holds, Holding, Keyed, Places
  <2>4. DbTypes'
    BY <1>1, <2>1, PoolAssumption DEF DbPop, DbTypes
  <2>5. QED
    BY <1>1, <2>3, <2>4, Kept DEF DbPop, PoolInv
<1>2. CASE DbExits(t)
  <2>1. ThreadTypes'
    BY <1>2, Stays DEF DbExits, Holding, Keyed, Places
  <2>2. QED
    BY <1>2, <2>1, Kept DEF DbExits, PoolInv
<1>3. CASE Get(t)
  <2>1. ThreadTypes'
    BY <1>3, Stays DEF Get, Holding, Keyed, Places
  <2>2. DbTypes'
    BY <1>3 DEF Get, DbTypes
  <2>3. QED
    BY <1>3, <2>1, <2>2, Kept DEF Get, PoolInv
<1>4. CASE GetNull(t)
  <2>1. hand[t] \in GoodTasks /\ Key(hand[t]) \in Keys
    BY <1>4, HasKey DEF GetNull, AddTask, Step, ThreadTypes, Holding, Keyed
  <2>2. ThreadTypes'
    BY <1>4, <2>1, Adds DEF GetNull
  <2>3. WorkTypes'
    BY <1>4, FewerIsCounted DEF GetNull, AddTask, WorkTypes
  <2>4. BoxTypes'
    BY <1>4, <2>1 DEF GetNull, BoxTypes
  <2>5. StopTypes'
    BY <1>4, <2>1 DEF GetNull, StopTypes
  <2>6. QED
    BY <1>4, <2>2, <2>3, <2>4, <2>5, Kept DEF GetNull, PoolInv
<1>5. CASE Query(t)
  <2>1. Key(hand[t]) \in Keys
    BY <1>5, HasKey DEF Query, Step, ThreadTypes, Holding, Keyed
  <2>2. ThreadTypes'
    BY <1>5, Stays DEF Query, Holding, Keyed, Places
  <2>3. BoxTypes'
    BY <1>5, <2>1 DEF Query, BoxTypes
  <2>4. DbTypes'
    BY <1>5 DEF Query, DbTypes
  <2>5. QED
    BY <1>5, <2>2, <2>3, <2>4, Kept DEF Query, PoolInv
<1>6. CASE WaitFinished(t)
  <2>1. hand[t] \in GoodTasks
    BY <1>6 DEF WaitFinished, AddTask, Step, ThreadTypes, Holding, Keyed
  <2>2. ThreadTypes'
    BY <1>6, <2>1, Adds DEF WaitFinished
  <2>3. WorkTypes'
    BY <1>6, FewerIsCounted DEF WaitFinished, AddTask, WorkTypes
  <2>4. QED
    BY <1>6, <2>2, <2>3, Kept DEF WaitFinished, PoolInv
<1>7. CASE DbFinishTask(t)
  <2>1. ThreadTypes'
    BY <1>7, Moves DEF DbFinishTask, Step, Holds, Holding, Keyed, Places
  <2>2. DbTypes'
    BY <1>7, FewerIsCounted DEF DbFinishTask, DbTypes
  <2>3. StopTypes'
    BY <1>7 DEF DbFinishTask, StopTypes, Wakes
  <2>4. QED
    BY <1>7, <2>1, <2>2, <2>3, Kept DEF DbFinishTask, PoolInv
<1>8. QED
  BY <1>1, <1>2, <1>3, <1>4, <1>5, <1>6, <1>7 DEF Db

---------------------------------------------------------------------------
(* Server::stop.                                                           *)
LEMMA StopStepTypes ==
  ASSUME PoolInv, Stop \/ Stopping
  PROVE  PoolInv'
<1> BizTypes /\ WorkTypes /\ BoxTypes /\ DbTypes /\ ThreadTypes /\ StopTypes
  BY DEF PoolInv
<1>1. CASE Stop
  <2>1. StopTypes'
    BY <1>1 DEF Stop, Stage, StopTypes, Stages
  <2>2. QED
    BY <1>1, <2>1, Kept DEF Stop, PoolInv
<1>2. CASE WaitIdle
  <2>1. StopTypes'
    BY <1>2 DEF WaitIdle, Idle, GivesUp, Stage, StopTypes, Stages
  <2>2. QED
    BY <1>2, <2>1, Kept DEF WaitIdle, PoolInv
<1>3. CASE TakeAll
  <2>1. StopTypes'
    BY <1>3 DEF TakeAll, Stage, StopTypes, WorkTypes, Stages
  <2>2. WorkTypes'
    BY <1>3 DEF TakeAll, WorkTypes
  <2>3. QED
    BY <1>3, <2>1, <2>2, Kept DEF TakeAll, PoolInv
<1>4. ASSUME NEW k \in Keys, Settle(k) PROVE PoolInv'
  <2>1. Task("resume", k) \in GoodTasks
    BY KeyedTask
  <2>2. ThreadTypes'
    BY <1>4, <2>1, Adds DEF Settle, Threads
  <2>3. WorkTypes'
    BY <1>4, FewerIsCounted DEF Settle, AddTask, WorkTypes
  <2>4. BoxTypes'
    BY <1>4 DEF Settle, BoxTypes
  <2>5. StopTypes'
    BY <1>4 DEF Settle, StopTypes
  <2>6. QED
    BY <1>4, <2>2, <2>3, <2>4, <2>5, Kept DEF Settle, PoolInv
<1>5. CASE CloseWork
  <2>1. StopTypes' /\ WorkTypes'
    BY <1>5 DEF CloseWork, Stage, StopTypes, WorkTypes, Stages
  <2>2. QED
    BY <1>5, <2>1, Kept DEF CloseWork, PoolInv
<1>6. CASE CloseDb
  <2>1. StopTypes' /\ DbTypes'
    BY <1>6 DEF CloseDb, Stage, StopTypes, DbTypes, Stages
  <2>2. QED
    BY <1>6, <2>1, Kept DEF CloseDb, PoolInv
<1>7. CASE ClosePool
  <2>1. StopTypes' /\ DbTypes'
    BY <1>7 DEF ClosePool, Stage, StopTypes, DbTypes, Stages
  <2>2. QED
    BY <1>7, <2>1, Kept DEF ClosePool, PoolInv
<1>8. CASE ClearGlobals
  <2>1. StopTypes'
    BY <1>8 DEF ClearGlobals, Stage, StopTypes, Stages
  <2>2. QED
    BY <1>8, <2>1, Kept DEF ClearGlobals, PoolInv
<1>9. QED
  BY <1>1, <1>2, <1>3, <1>4, <1>5, <1>6, <1>7, <1>8 DEF Stopping

---------------------------------------------------------------------------
LEMMA TypesHold == Spec => []PoolInv
<1>1. Init => PoolInv
  <2> SUFFICES ASSUME Init PROVE PoolInv
    OBVIOUS
  <2>1. BizTypes /\ BoxTypes /\ StopTypes
    BY DEF Init, BizTypes, BoxTypes, StopTypes, Stages
  <2>2. << >> \in Seq(GoodTasks) /\ << >> \in Seq(Keys) /\ Len(<< >>) = 0
    OBVIOUS
  <2>3. 0 <= WorkHigh /\ 0 <= DbHigh /\ 0 \in Nat /\ 0 \in Int
    BY PoolAssumption
  <2>4. WorkTypes
    BY <2>2, <2>3 DEF Init, WorkTypes
  <2>5. established \in Nat
    BY PoolAssumption DEF Init
  <2>6. DbTypes
    BY <2>2, <2>3, <2>5 DEF Init, DbTypes
  <2>7. ThreadTypes
    BY DEF Init, ThreadTypes, Holding, Keyed, Places
  <2>8. QED
    BY <2>1, <2>4, <2>6, <2>7 DEF PoolInv
<1>2. PoolInv /\ [Next]_vars => PoolInv'
  <2> SUFFICES ASSUME PoolInv, [Next]_vars PROVE PoolInv'
    OBVIOUS
  <2>1. CASE UNCHANGED vars
    BY <2>1, Kept DEF vars, PoolInv
  <2>2. ASSUME NEW b \in Businesses, OnWork(b) PROVE PoolInv'
    BY <2>2, PushTypes DEF Threads
  <2>3. ASSUME NEW t \in Threads, PushOk(t) \/ PushClosed(t) PROVE PoolInv'
    BY <2>3, PushTypes
  <2>4. ASSUME NEW t \in Workers, Work(t) PROVE PoolInv'
    BY <2>4, WorkStepTypes
  <2>5. ASSUME NEW t \in DbWorkers, Db(t) PROVE PoolInv'
    BY <2>5, DbStepTypes
  <2>6. CASE Stop \/ Stopping
    BY <2>6, StopStepTypes
  <2>7. QED
    BY <2>1, <2>2, <2>3, <2>4, <2>5, <2>6 DEF Next
<1>3. QED
  BY <1>1, <1>2, PTL DEF Spec

(* The variables of the coroutine layer keep their types and the pools'    *)
(* queues their bounds (TypeOK), whatever stop() does to the threads.      *)
THEOREM TypeCorrect == Spec => []TypeOK
<1>1. PoolInv => TypeOK
  <2> SUFFICES ASSUME PoolInv PROVE TypeOK
    OBVIOUS
  <2>1. workq \in Seq(Tasks)
    <3>1. GoodTasks \subseteq Tasks
      BY DEF GoodTasks
    <3>2. QED
      BY <3>1 DEF PoolInv, WorkTypes
  <2>2. pc \in [Threads -> {"idle", "push", "run", "submit", "dbpush", "leave", "event",
                            "finish", "get", "query", "guard", "exited"}]
    BY DEF PoolInv, ThreadTypes, Places, Holding, Keyed
  <2>3. hand \in [Threads -> Tasks \union {None}]
    BY DEF PoolInv, ThreadTypes, GoodTasks
  <2>4. QED
    BY <2>1, <2>2, <2>3
    DEF TypeOK, PoolInv, BizTypes, WorkTypes, BoxTypes, DbTypes, StopTypes
<1>2. QED
  BY <1>1, TypesHold, PTL

---------------------------------------------------------------------------
(* Counting the threads that are in certain places: a step of thread t     *)
(* changes the number by what t itself adds and takes away.                *)
Busy     == Places \ {"idle", "exited"}
AtPush   == {"push"}
AtSubmit == {"dbpush"}
AtQuery  == {"query"}

Count(T, P) == Cardinality({t \in T : pc[t] \in P})

One(place, P) == IF place \in P THEN 1 ELSE 0
Change(P, from, to) == One(to, P) - One(from, P)
Delta(T, P, t, from, to) == IF t \in T THEN Change(P, from, to) ELSE 0

LEMMA Finite == IsFiniteSet(Workers) /\ IsFiniteSet(DbWorkers) /\ IsFiniteSet(Threads)
<1>1. IsFiniteSet({"parse"}) /\ IsFiniteSet({"stop"})
  BY FS_Singleton
<1>2. Threads = (Workers \union DbWorkers) \union ({"parse"} \union {"stop"})
  BY DEF Threads
<1>3. QED
  BY <1>1, <1>2, FS_Union, PoolAssumption

LEMMA CountIsNat ==
  ASSUME NEW T, IsFiniteSet(T), NEW P
  PROVE  Count(T, P) \in Nat /\ Count(T, P)' \in Nat
<1>1. IsFiniteSet({t \in T : pc[t] \in P}) /\ IsFiniteSet({t \in T : pc'[t] \in P})
  BY FS_Subset
<1>2. QED
  BY <1>1, FS_CardinalityType DEF Count

LEMMA Counted ==
  ASSUME ThreadTypes, NEW T \in SUBSET Threads, IsFiniteSet(T), NEW P,
         NEW t \in Threads, NEW from, NEW to, Step(t, from, to)
  PROVE  Count(T, P)' = Count(T, P) + Delta(T, P, t, from, to)
<1> DEFINE S == {u \in T : pc[u] \in P}
           Z == {u \in T : pc'[u] \in P}
<1>1. IsFiniteSet(S) /\ Cardinality(S) \in Nat /\ Count(T, P) = Cardinality(S)
      /\ Count(T, P)' = Cardinality(Z)
  BY FS_Subset, FS_CardinalityType DEF Count
<1>2. pc[t] = from /\ \A u \in T : pc'[u] = IF u = t THEN to ELSE pc[u]
  BY DEF Step, ThreadTypes
<1>3. CASE t \in T /\ to \in P /\ from \notin P
  <2>1. Z = S \union {t} /\ t \notin S
    BY <1>2, <1>3
  <2>2. Cardinality(Z) = Cardinality(S) + 1
    BY <1>1, <2>1, FS_AddElement
  <2>3. Delta(T, P, t, from, to) = 1
    BY <1>3 DEF Delta, Change, One
  <2>4. QED
    BY <1>1, <2>2, <2>3
<1>4. CASE t \in T /\ to \notin P /\ from \in P
  <2>1. Z = S \ {t} /\ t \in S
    BY <1>2, <1>4
  <2>2. Cardinality(Z) = Cardinality(S) - 1
    BY <1>1, <2>1, FS_RemoveElement
  <2>3. Delta(T, P, t, from, to) = -1
    BY <1>4 DEF Delta, Change, One
  <2>4. QED
    BY <1>1, <2>2, <2>3
<1>5. CASE t \notin T \/ (to \in P <=> from \in P)
  <2>1. Z = S
    BY <1>2, <1>5
  <2>2. Delta(T, P, t, from, to) = 0
    BY <1>5 DEF Delta, Change, One
  <2> HIDE DEF S, Z
  <2>3. Cardinality(Z) = Cardinality(S) + 0
    BY <1>1, <2>1
  <2>4. QED
    BY <1>1, <2>2, <2>3
<1>6. QED
  BY <1>3, <1>4, <1>5

LEMMA NobodyCounted ==
  ASSUME UNCHANGED pc, NEW T, NEW P
  PROVE  Count(T, P)' = Count(T, P)
  BY DEF Count

---------------------------------------------------------------------------
Working    == Count(Workers, Busy)
Pushing    == Count(Threads, AtPush)
Submitting == Count(Workers, AtSubmit)
Answering  == Count(DbWorkers, Busy)
Querying   == Count(DbWorkers, AtQuery)

WorkExact == work_count = Len(workq) + Working + Pushing
DbExact   == db_count = Len(dbq) + Submitting + Answering
ConnExact == established = free + Querying
CountInv  == WorkExact /\ DbExact /\ ConnExact

LEMMA CountTypes ==
  ASSUME PoolInv
  PROVE  /\ Len(workq) \in Nat /\ Len(dbq) \in Nat /\ work_count \in Int
         /\ db_count \in Nat /\ free \in Nat /\ established \in Nat
         /\ Working \in Nat /\ Working' \in Nat
         /\ Pushing \in Nat /\ Pushing' \in Nat
         /\ Submitting \in Nat /\ Submitting' \in Nat
         /\ Answering \in Nat /\ Answering' \in Nat
         /\ Querying \in Nat /\ Querying' \in Nat
<1>1. Len(workq) \in Nat /\ Len(dbq) \in Nat
  BY LenProperties DEF PoolInv, WorkTypes, DbTypes
<1>2. established \in Nat
  BY PoolAssumption DEF PoolInv, DbTypes
<1>3. QED
  BY <1>1, <1>2, Finite, CountIsNat
  DEF PoolInv, WorkTypes, DbTypes, Working, Pushing, Submitting, Answering, Querying

(* All five numbers after a step of one thread.                            *)
LEMMA StepCounted ==
  ASSUME PoolInv, NEW t \in Threads, NEW from, NEW to, Step(t, from, to)
  PROVE  /\ Working' = Working + Delta(Workers, Busy, t, from, to)
         /\ Pushing' = Pushing + Delta(Threads, AtPush, t, from, to)
         /\ Submitting' = Submitting + Delta(Workers, AtSubmit, t, from, to)
         /\ Answering' = Answering + Delta(DbWorkers, Busy, t, from, to)
         /\ Querying' = Querying + Delta(DbWorkers, AtQuery, t, from, to)
<1>1. ThreadTypes /\ Workers \in SUBSET Threads /\ DbWorkers \in SUBSET Threads
      /\ Threads \in SUBSET Threads
  BY DEF PoolInv, Threads
<1>2. QED
  BY <1>1, Finite, Counted DEF Working, Pushing, Submitting, Answering, Querying

(* Which thread is counted where.                                          *)
LEMMA WorkerDelta ==
  ASSUME NEW t \in Workers, NEW from \in Places, NEW to \in Places
  PROVE  /\ t \in Threads
         /\ Delta(Workers, Busy, t, from, to) = Change(Busy, from, to)
         /\ Delta(Threads, AtPush, t, from, to) = Change(AtPush, from, to)
         /\ Delta(Workers, AtSubmit, t, from, to) = Change(AtSubmit, from, to)
         /\ Delta(DbWorkers, Busy, t, from, to) = 0
         /\ Delta(DbWorkers, AtQuery, t, from, to) = 0
  BY PoolAssumption DEF Delta, Threads

LEMMA DbWorkerDelta ==
  ASSUME NEW t \in DbWorkers, NEW from \in Places, NEW to \in Places
  PROVE  /\ t \in Threads
         /\ Delta(Workers, Busy, t, from, to) = 0
         /\ Delta(Threads, AtPush, t, from, to) = Change(AtPush, from, to)
         /\ Delta(Workers, AtSubmit, t, from, to) = 0
         /\ Delta(DbWorkers, Busy, t, from, to) = Change(Busy, from, to)
         /\ Delta(DbWorkers, AtQuery, t, from, to) = Change(AtQuery, from, to)
  BY PoolAssumption DEF Delta, Threads

LEMMA OtherDelta ==
  ASSUME NEW t \in {"parse", "stop"}, NEW from \in Places, NEW to \in Places
  PROVE  /\ t \in Threads
         /\ Delta(Workers, Busy, t, from, to) = 0
         /\ Delta(Threads, AtPush, t, from, to) = Change(AtPush, from, to)
         /\ Delta(Workers, AtSubmit, t, from, to) = 0
         /\ Delta(DbWorkers, Busy, t, from, to) = 0
         /\ Delta(DbWorkers, AtQuery, t, from, to) = 0
  BY PoolAssumption DEF Delta, Threads

LEMMA WorkerCounted ==
  ASSUME PoolInv, NEW t \in Workers, NEW from \in Places, NEW to \in Places, Step(t, from, to)
  PROVE  /\ Working' = Working + Change(Busy, from, to)
         /\ Pushing' = Pushing + Change(AtPush, from, to)
         /\ Submitting' = Submitting + Change(AtSubmit, from, to)
         /\ Answering' = Answering + 0 /\ Querying' = Querying + 0
  BY StepCounted, WorkerDelta

LEMMA DbWorkerCounted ==
  ASSUME PoolInv, NEW t \in DbWorkers, NEW from \in Places, NEW to \in Places, Step(t, from, to)
  PROVE  /\ Working' = Working + 0 /\ Submitting' = Submitting + 0
         /\ Pushing' = Pushing + Change(AtPush, from, to)
         /\ Answering' = Answering + Change(Busy, from, to)
         /\ Querying' = Querying + Change(AtQuery, from, to)
  BY StepCounted, DbWorkerDelta

LEMMA OtherCounted ==
  ASSUME PoolInv, NEW t \in {"parse", "stop"}, NEW from \in Places, NEW to \in Places,
         Step(t, from, to)
  PROVE  /\ Working' = Working + 0 /\ Submitting' = Submitting + 0
         /\ Pushing' = Pushing + Change(AtPush, from, to)
         /\ Answering' = Answering + 0 /\ Querying' = Querying + 0
  BY StepCounted, OtherDelta

LEMMA NobodyMoved ==
  ASSUME PoolInv, UNCHANGED pc
  PROVE  /\ Working' = Working + 0 /\ Pushing' = Pushing + 0 /\ Submitting' = Submitting + 0
         /\ Answering' = Answering + 0 /\ Querying' = Querying + 0
<1>1. /\ Working' = Working /\ Pushing' = Pushing /\ Submitting' = Submitting
      /\ Answering' = Answering /\ Querying' = Querying
  BY NobodyCounted DEF Working, Pushing, Submitting, Answering, Querying
<1>2. QED
  BY <1>1, CountTypes

(* The queues' lengths after a push and a pop.                             *)
LEMMA Lengths ==
  ASSUME PoolInv
  PROVE  /\ \A e \in GoodTasks : Len(Append(workq, e)) = Len(workq) + 1
         /\ \A k \in Keys : Len(Append(dbq, k)) = Len(dbq) + 1
         /\ workq # << >> => Len(Tail(workq)) = Len(workq) + (-1)
         /\ dbq # << >> => Len(Tail(dbq)) = Len(dbq) + (-1)
  BY AppendProperties, HeadTailProperties, LenProperties DEF PoolInv, WorkTypes, DbTypes

LEMMA WorkNumbers ==
  PoolInv => /\ Working \in Nat /\ Pushing \in Nat /\ Len(workq) \in Nat /\ work_count \in Int
  BY CountTypes
LEMMA DbNumbers ==
  PoolInv => /\ Submitting \in Nat /\ Answering \in Nat /\ Len(dbq) \in Nat /\ db_count \in Int
  BY CountTypes
LEMMA ConnNumbers == PoolInv => Querying \in Nat /\ free \in Nat /\ established \in Nat
  BY CountTypes

LEMMA WorkQuiet ==
  ASSUME PoolInv, PoolInv', WorkExact, Working' = Working + 0, Pushing' = Pushing + 0,
         UNCHANGED <<workq, work_count>>
  PROVE  WorkExact'
<1>1. work_count' = work_count + 0 /\ Len(workq)' = Len(workq) + 0
  BY CountTypes
<1>2. QED
  BY <1>1, CountTypes DEF WorkExact

LEMMA DbQuiet ==
  ASSUME PoolInv, PoolInv', DbExact, Submitting' = Submitting + 0, Answering' = Answering + 0,
         UNCHANGED <<dbq, db_count>>
  PROVE  DbExact'
<1>1. db_count' = db_count + 0 /\ Len(dbq)' = Len(dbq) + 0
  BY CountTypes
<1>2. QED
  BY <1>1, CountTypes DEF DbExact

LEMMA ConnQuiet ==
  ASSUME PoolInv, PoolInv', ConnExact, Querying' = Querying + 0, UNCHANGED <<free, established>>
  PROVE  ConnExact'
<1>1. free' = free - 0
  BY CountTypes
<1>2. QED
  BY <1>1, CountTypes DEF ConnExact

(* A task is counted by who is about to push it.                           *)
LEMMA WorkAdds ==
  ASSUME PoolInv, WorkExact, Working' = Working + 0, Pushing' = Pushing + 1,
         work_count' = work_count + 1, workq' = workq
  PROVE  WorkExact'
<1>1. /\ Working \in Nat /\ Pushing \in Nat /\ Len(workq) \in Nat /\ work_count \in Int
      /\ work_count = Len(workq) + Working + Pushing
  BY WorkNumbers DEF WorkExact
<1>2. QED
  BY <1>1 DEF WorkExact

(* It is pushed ...                                                        *)
LEMMA WorkPushed ==
  ASSUME PoolInv, WorkExact, Working' = Working + 0, Pushing' = Pushing + (-1),
         work_count' = work_count, Len(workq)' = Len(workq) + 1
  PROVE  WorkExact'
<1>1. /\ Working \in Nat /\ Pushing \in Nat /\ Len(workq) \in Nat /\ work_count \in Int
      /\ work_count = Len(workq) + Working + Pushing
  BY WorkNumbers DEF WorkExact
<1>2. QED
  BY <1>1 DEF WorkExact

(* ... or refused.                                                         *)
LEMMA WorkRefused ==
  ASSUME PoolInv, WorkExact, Working' = Working + 0, Pushing' = Pushing + (-1),
         work_count' = work_count + (-1), workq' = workq
  PROVE  WorkExact'
<1>1. /\ Working \in Nat /\ Pushing \in Nat /\ Len(workq) \in Nat /\ work_count \in Int
      /\ work_count = Len(workq) + Working + Pushing
  BY WorkNumbers DEF WorkExact
<1>2. QED
  BY <1>1 DEF WorkExact

(* A worker takes it.                                                      *)
LEMMA WorkTaken ==
  ASSUME PoolInv, WorkExact, Working' = Working + 1, Pushing' = Pushing + 0,
         work_count' = work_count, Len(workq)' = Len(workq) + (-1)
  PROVE  WorkExact'
<1>1. /\ Working \in Nat /\ Pushing \in Nat /\ Len(workq) \in Nat /\ work_count \in Int
      /\ work_count = Len(workq) + Working + Pushing
  BY WorkNumbers DEF WorkExact
<1>2. QED
  BY <1>1 DEF WorkExact

(* Who finishes a task of a pool is in its count: finish_task's test for 0 *)
(* never hides a task.                                                     *)
LEMMA FinisherIsCounted ==
  ASSUME PoolInv
  PROVE  /\ WorkExact /\ Working' = Working + (-1) => Less(work_count) = work_count + (-1)
         /\ DbExact /\ Submitting' = Submitting + (-1) => Less(db_count) = db_count + (-1)
         /\ DbExact /\ Answering' = Answering + (-1) => Less(db_count) = db_count + (-1)
<1>1. ASSUME WorkExact, Working' = Working + (-1) PROVE work_count > 0
  <2>1. Working \in Nat /\ Working' \in Nat /\ Pushing \in Nat /\ Len(workq) \in Nat
    BY CountTypes
  <2>2. QED
    BY <1>1, <2>1 DEF WorkExact
<1>2. ASSUME DbExact, Submitting' = Submitting + (-1) \/ Answering' = Answering + (-1)
      PROVE  db_count > 0
  <2>1. Submitting \in Nat /\ Submitting' \in Nat /\ Answering \in Nat /\ Answering' \in Nat
        /\ Len(dbq) \in Nat
    BY CountTypes
  <2>2. QED
    BY <1>2, <2>1 DEF DbExact
<1>3. work_count \in Int /\ db_count \in Int
  BY CountTypes
<1>4. QED
  BY <1>1, <1>2, <1>3 DEF Less

(* What a thread pushes is a task of that queue.                           *)
LEMMA HandIsGood ==
  ASSUME PoolInv, NEW t \in Threads
  PROVE  /\ pc[t] = "push" => hand[t] \in GoodTasks
         /\ pc[t] = "dbpush" => Key(hand[t]) \in Keys
  BY HasKey DEF PoolInv, ThreadTypes, Holding, Keyed

---------------------------------------------------------------------------
LEMMA PushExact ==
  ASSUME PoolInv, PoolInv', CountInv, NEW t \in Threads, PushOk(t) \/ PushClosed(t)
  PROVE  CountInv'
<1>1. CASE PushOk(t) /\ t \in Workers
  <2>1. /\ Change(Busy, "push", "finish") = 0 /\ Change(AtPush, "push", "finish") = -1
        /\ Change(AtSubmit, "push", "finish") = 0
        /\ "push" \in Places /\ "finish" \in Places
    BY DEF Change, One, Busy, AtPush, AtSubmit, AtQuery, Places, Holding, Keyed
  <2>2. /\ Working' = Working + 0 /\ Pushing' = Pushing + (-1) /\ Submitting' = Submitting + 0
        /\ Answering' = Answering + 0 /\ Querying' = Querying + 0
    BY <1>1, <2>1, WorkerCounted, PoolAssumption DEF PushOk, AfterPush, Step
  <2>3. Len(workq)' = Len(workq) + 1
    BY <1>1, Lengths, HandIsGood DEF PushOk, AfterPush, Step
  <2>4. WorkExact'
    BY <1>1, <2>2, <2>3, WorkPushed DEF PushOk, CountInv, AfterPush, Step
  <2>5. DbExact'
    BY <1>1, <2>2, DbQuiet DEF PushOk, CountInv, dbVars, AfterPush, Step
  <2>6. ConnExact'
    BY <1>1, <2>2, ConnQuiet DEF PushOk, CountInv, dbVars, AfterPush, Step
  <2>7. QED
    BY <2>4, <2>5, <2>6 DEF CountInv
<1>2. CASE PushClosed(t) /\ t \in Workers
  <2>1. /\ Change(Busy, "push", "finish") = 0 /\ Change(AtPush, "push", "finish") = -1
        /\ Change(AtSubmit, "push", "finish") = 0
        /\ "push" \in Places /\ "finish" \in Places
    BY DEF Change, One, Busy, AtPush, AtSubmit, AtQuery, Places, Holding, Keyed
  <2>2. /\ Working' = Working + 0 /\ Pushing' = Pushing + (-1) /\ Submitting' = Submitting + 0
        /\ Answering' = Answering + 0 /\ Querying' = Querying + 0
    BY <1>2, <2>1, WorkerCounted, PoolAssumption DEF PushClosed, AfterPush, Step
  <2>3. work_count' = work_count + (-1)
    BY <1>2, WorkNumbers DEF PushClosed, AfterPush, Step
  <2>4. WorkExact'
    BY <1>2, <2>2, <2>3, WorkRefused DEF PushClosed, CountInv, AfterPush, Step
  <2>5. DbExact'
    BY <1>2, <2>2, DbQuiet DEF PushClosed, CountInv, dbVars, AfterPush, Step
  <2>6. ConnExact'
    BY <1>2, <2>2, ConnQuiet DEF PushClosed, CountInv, dbVars, AfterPush, Step
  <2>7. QED
    BY <2>4, <2>5, <2>6 DEF CountInv
<1>3. CASE PushOk(t) /\ t \in DbWorkers
  <2>1. /\ Change(Busy, "push", "finish") = 0 /\ Change(AtPush, "push", "finish") = -1
        /\ Change(AtQuery, "push", "finish") = 0
        /\ "push" \in Places /\ "finish" \in Places
    BY DEF Change, One, Busy, AtPush, AtSubmit, AtQuery, Places, Holding, Keyed
  <2>2. /\ Working' = Working + 0 /\ Pushing' = Pushing + (-1) /\ Submitting' = Submitting + 0
        /\ Answering' = Answering + 0 /\ Querying' = Querying + 0
    BY <1>3, <2>1, DbWorkerCounted, PoolAssumption DEF PushOk, AfterPush, Step
  <2>3. Len(workq)' = Len(workq) + 1
    BY <1>3, Lengths, HandIsGood DEF PushOk, AfterPush, Step
  <2>4. WorkExact'
    BY <1>3, <2>2, <2>3, WorkPushed DEF PushOk, CountInv, AfterPush, Step
  <2>5. DbExact'
    BY <1>3, <2>2, DbQuiet DEF PushOk, CountInv, dbVars, AfterPush, Step
  <2>6. ConnExact'
    BY <1>3, <2>2, ConnQuiet DEF PushOk, CountInv, dbVars, AfterPush, Step
  <2>7. QED
    BY <2>4, <2>5, <2>6 DEF CountInv
<1>4. CASE PushClosed(t) /\ t \in DbWorkers
  <2>1. /\ Change(Busy, "push", "finish") = 0 /\ Change(AtPush, "push", "finish") = -1
        /\ Change(AtQuery, "push", "finish") = 0
        /\ "push" \in Places /\ "finish" \in Places
    BY DEF Change, One, Busy, AtPush, AtSubmit, AtQuery, Places, Holding, Keyed
  <2>2. /\ Working' = Working + 0 /\ Pushing' = Pushing + (-1) /\ Submitting' = Submitting + 0
        /\ Answering' = Answering + 0 /\ Querying' = Querying + 0
    BY <1>4, <2>1, DbWorkerCounted, PoolAssumption DEF PushClosed, AfterPush, Step
  <2>3. work_count' = work_count + (-1)
    BY <1>4, WorkNumbers DEF PushClosed, AfterPush, Step
  <2>4. WorkExact'
    BY <1>4, <2>2, <2>3, WorkRefused DEF PushClosed, CountInv, AfterPush, Step
  <2>5. DbExact'
    BY <1>4, <2>2, DbQuiet DEF PushClosed, CountInv, dbVars, AfterPush, Step
  <2>6. ConnExact'
    BY <1>4, <2>2, ConnQuiet DEF PushClosed, CountInv, dbVars, AfterPush, Step
  <2>7. QED
    BY <2>4, <2>5, <2>6 DEF CountInv
<1>5. CASE PushOk(t) /\ t \in {"parse", "stop"}
  <2>1. /\ Change(AtPush, "push", "idle") = -1
        /\ "push" \in Places /\ "idle" \in Places
    BY DEF Change, One, Busy, AtPush, AtSubmit, AtQuery, Places, Holding, Keyed
  <2>2. /\ Working' = Working + 0 /\ Pushing' = Pushing + (-1) /\ Submitting' = Submitting + 0
        /\ Answering' = Answering + 0 /\ Querying' = Querying + 0
    BY <1>5, <2>1, OtherCounted, PoolAssumption DEF PushOk, AfterPush, Step
  <2>3. Len(workq)' = Len(workq) + 1
    BY <1>5, Lengths, HandIsGood DEF PushOk, AfterPush, Step
  <2>4. WorkExact'
    BY <1>5, <2>2, <2>3, WorkPushed DEF PushOk, CountInv, AfterPush, Step
  <2>5. DbExact'
    BY <1>5, <2>2, DbQuiet DEF PushOk, CountInv, dbVars, AfterPush, Step
  <2>6. ConnExact'
    BY <1>5, <2>2, ConnQuiet DEF PushOk, CountInv, dbVars, AfterPush, Step
  <2>7. QED
    BY <2>4, <2>5, <2>6 DEF CountInv
<1>6. CASE PushClosed(t) /\ t \in {"parse", "stop"}
  <2>1. /\ Change(AtPush, "push", "idle") = -1
        /\ "push" \in Places /\ "idle" \in Places
    BY DEF Change, One, Busy, AtPush, AtSubmit, AtQuery, Places, Holding, Keyed
  <2>2. /\ Working' = Working + 0 /\ Pushing' = Pushing + (-1) /\ Submitting' = Submitting + 0
        /\ Answering' = Answering + 0 /\ Querying' = Querying + 0
    BY <1>6, <2>1, OtherCounted, PoolAssumption DEF PushClosed, AfterPush, Step
  <2>3. work_count' = work_count + (-1)
    BY <1>6, WorkNumbers DEF PushClosed, AfterPush, Step
  <2>4. WorkExact'
    BY <1>6, <2>2, <2>3, WorkRefused DEF PushClosed, CountInv, AfterPush, Step
  <2>5. DbExact'
    BY <1>6, <2>2, DbQuiet DEF PushClosed, CountInv, dbVars, AfterPush, Step
  <2>6. ConnExact'
    BY <1>6, <2>2, ConnQuiet DEF PushClosed, CountInv, dbVars, AfterPush, Step
  <2>7. QED
    BY <2>4, <2>5, <2>6 DEF CountInv
<1>7. QED
  BY <1>1, <1>2, <1>3, <1>4, <1>5, <1>6 DEF Threads

(* The work workers.                                                       *)
LEMMA WorkStepExact ==
  ASSUME PoolInv, PoolInv', CountInv, NEW t \in Workers, Work(t), ~AwaitReady(t)
  PROVE  CountInv'
<1> t \in Threads
  BY DEF Threads
<1>1. CASE WorkPop(t) /\ Head(workq).kind = "event"
  <2>1. /\ Change(Busy, "idle", "event") = 1 /\ Change(AtPush, "idle", "event") = 0
        /\ Change(AtSubmit, "idle", "event") = 0
        /\ "idle" \in Places /\ "event" \in Places
    BY DEF Change, One, Busy, AtPush, AtSubmit, AtQuery, Places, Holding, Keyed
  <2>2. /\ Working' = Working + 1 /\ Pushing' = Pushing + 0 /\ Submitting' = Submitting + 0
        /\ Answering' = Answering + 0 /\ Querying' = Querying + 0
    BY <1>1, <2>1, WorkerCounted DEF WorkPop, Step
  <2>3. Len(workq)' = Len(workq) + (-1)
    BY <1>1, Lengths DEF WorkPop, Step
  <2>4. WorkExact'
    BY <1>1, <2>2, <2>3, WorkTaken DEF WorkPop, CountInv, Step
  <2>5. DbExact'
    BY <1>1, <2>2, DbQuiet DEF WorkPop, CountInv, dbVars, Step
  <2>6. ConnExact'
    BY <1>1, <2>2, ConnQuiet DEF WorkPop, CountInv, dbVars, Step
  <2>7. QED
    BY <2>4, <2>5, <2>6 DEF CountInv
<1>2. CASE WorkPop(t) /\ Head(workq).kind # "event"
  <2>1. /\ Change(Busy, "idle", "run") = 1 /\ Change(AtPush, "idle", "run") = 0
        /\ Change(AtSubmit, "idle", "run") = 0
        /\ "idle" \in Places /\ "run" \in Places
    BY DEF Change, One, Busy, AtPush, AtSubmit, AtQuery, Places, Holding, Keyed
  <2>2. /\ Working' = Working + 1 /\ Pushing' = Pushing + 0 /\ Submitting' = Submitting + 0
        /\ Answering' = Answering + 0 /\ Querying' = Querying + 0
    BY <1>2, <2>1, WorkerCounted DEF WorkPop, Step
  <2>3. Len(workq)' = Len(workq) + (-1)
    BY <1>2, Lengths DEF WorkPop, Step
  <2>4. WorkExact'
    BY <1>2, <2>2, <2>3, WorkTaken DEF WorkPop, CountInv, Step
  <2>5. DbExact'
    BY <1>2, <2>2, DbQuiet DEF WorkPop, CountInv, dbVars, Step
  <2>6. ConnExact'
    BY <1>2, <2>2, ConnQuiet DEF WorkPop, CountInv, dbVars, Step
  <2>7. QED
    BY <2>4, <2>5, <2>6 DEF CountInv
<1>3. CASE WorkExits(t)
  <2>1. /\ Change(Busy, "idle", "exited") = 0 /\ Change(AtPush, "idle", "exited") = 0
        /\ Change(AtSubmit, "idle", "exited") = 0
        /\ "idle" \in Places /\ "exited" \in Places
    BY DEF Change, One, Busy, AtPush, AtSubmit, AtQuery, Places, Holding, Keyed
  <2>2. /\ Working' = Working + 0 /\ Pushing' = Pushing + 0 /\ Submitting' = Submitting + 0
        /\ Answering' = Answering + 0 /\ Querying' = Querying + 0
    BY <1>3, <2>1, WorkerCounted DEF WorkExits, Step
  <2>3. WorkExact'
    BY <1>3, <2>2, WorkQuiet DEF WorkExits, CountInv, dbVars, workVars, Step
  <2>4. DbExact'
    BY <1>3, <2>2, DbQuiet DEF WorkExits, CountInv, dbVars, Step
  <2>5. ConnExact'
    BY <1>3, <2>2, ConnQuiet DEF WorkExits, CountInv, dbVars, Step
  <2>6. QED
    BY <2>3, <2>4, <2>5 DEF CountInv
<1>4. CASE AwaitSuspend(t)
  <2>1. /\ Change(Busy, "run", "submit") = 0 /\ Change(AtPush, "run", "submit") = 0
        /\ Change(AtSubmit, "run", "submit") = 0
        /\ "run" \in Places /\ "submit" \in Places
    BY DEF Change, One, Busy, AtPush, AtSubmit, AtQuery, Places, Holding, Keyed
  <2>2. /\ Working' = Working + 0 /\ Pushing' = Pushing + 0 /\ Submitting' = Submitting + 0
        /\ Answering' = Answering + 0 /\ Querying' = Querying + 0
    BY <1>4, <2>1, WorkerCounted DEF AwaitSuspend, Step
  <2>3. WorkExact'
    BY <1>4, <2>2, WorkQuiet DEF AwaitSuspend, CountInv, dbVars, workVars, Step
  <2>4. DbExact'
    BY <1>4, <2>2, DbQuiet DEF AwaitSuspend, CountInv, dbVars, Step
  <2>5. ConnExact'
    BY <1>4, <2>2, ConnQuiet DEF AwaitSuspend, CountInv, dbVars, Step
  <2>6. QED
    BY <2>3, <2>4, <2>5 DEF CountInv
<1>5. CASE Submit(t)
  <2>1. /\ Change(Busy, "submit", "dbpush") = 0 /\ Change(AtPush, "submit", "dbpush") = 0
        /\ Change(AtSubmit, "submit", "dbpush") = 1
        /\ "submit" \in Places /\ "dbpush" \in Places
    BY DEF Change, One, Busy, AtPush, AtSubmit, AtQuery, Places, Holding, Keyed
  <2>2. /\ Working' = Working + 0 /\ Pushing' = Pushing + 0 /\ Submitting' = Submitting + 1
        /\ Answering' = Answering + 0 /\ Querying' = Querying + 0
    BY <1>5, <2>1, WorkerCounted DEF Submit, Step
  <2>3. WorkExact'
    BY <1>5, <2>2, WorkQuiet DEF Submit, CountInv, dbVars, workVars, Step
  <2>4. db_count' = db_count + 1
    BY <1>5, <2>2, DbNumbers DEF Submit, CountInv, Step
  <2>5. Len(dbq)' = Len(dbq) + 0
    <3>1. UNCHANGED dbq
      BY <1>5 DEF Submit, dbVars, workVars, Step
    <3>2. QED
      BY <3>1, DbNumbers
  <2>6. DbExact'
    <3>1. Submitting' = Submitting + 1 /\ Answering' = Answering + 0
      BY <2>2
    <3>2. DbExact
      BY DEF CountInv
    <3>3. Submitting \in Nat /\ Answering \in Nat /\ Len(dbq) \in Nat /\ db_count \in Int
      BY DbNumbers
    <3>4. QED
      BY <2>4, <2>5, <3>1, <3>2, <3>3 DEF DbExact
  <2>7. ConnExact'
    BY <1>5, <2>2, ConnQuiet DEF Submit, CountInv, dbVars, Step
  <2>8. QED
    BY <2>3, <2>6, <2>7 DEF CountInv
<1>6. CASE SubmitOk(t)
  <2>1. /\ Change(Busy, "dbpush", "leave") = 0 /\ Change(AtPush, "dbpush", "leave") = 0
        /\ Change(AtSubmit, "dbpush", "leave") = -1
        /\ "dbpush" \in Places /\ "leave" \in Places
    BY DEF Change, One, Busy, AtPush, AtSubmit, AtQuery, Places, Holding, Keyed
  <2>2. /\ Working' = Working + 0 /\ Pushing' = Pushing + 0 /\ Submitting' = Submitting + (-1)
        /\ Answering' = Answering + 0 /\ Querying' = Querying + 0
    BY <1>6, <2>1, WorkerCounted DEF SubmitOk, Step
  <2>3. WorkExact'
    BY <1>6, <2>2, WorkQuiet DEF SubmitOk, CountInv, dbVars, workVars, Step
  <2>4. db_count' = db_count + 0
    BY <1>6, <2>2, DbNumbers DEF SubmitOk, CountInv, Step
  <2>5. Len(dbq)' = Len(dbq) + 1
    BY <1>6, Lengths, HandIsGood DEF SubmitOk, Step
  <2>6. DbExact'
    <3>1. Submitting' = Submitting + (-1) /\ Answering' = Answering + 0
      BY <2>2
    <3>2. DbExact
      BY DEF CountInv
    <3>3. Submitting \in Nat /\ Answering \in Nat /\ Len(dbq) \in Nat /\ db_count \in Int
      BY DbNumbers
    <3>4. QED
      BY <2>4, <2>5, <3>1, <3>2, <3>3 DEF DbExact
  <2>7. ConnExact'
    BY <1>6, <2>2, ConnQuiet DEF SubmitOk, CountInv, dbVars, Step
  <2>8. QED
    BY <2>3, <2>6, <2>7 DEF CountInv
<1>7. CASE SubmitClosed(t)
  <2>1. /\ Change(Busy, "dbpush", "leave") = 0 /\ Change(AtPush, "dbpush", "leave") = 0
        /\ Change(AtSubmit, "dbpush", "leave") = -1
        /\ "dbpush" \in Places /\ "leave" \in Places
    BY DEF Change, One, Busy, AtPush, AtSubmit, AtQuery, Places, Holding, Keyed
  <2>2. /\ Working' = Working + 0 /\ Pushing' = Pushing + 0 /\ Submitting' = Submitting + (-1)
        /\ Answering' = Answering + 0 /\ Querying' = Querying + 0
    BY <1>7, <2>1, WorkerCounted DEF SubmitClosed, Step
  <2>3. WorkExact'
    BY <1>7, <2>2, WorkQuiet DEF SubmitClosed, CountInv, dbVars, workVars, Step
  <2>4. db_count' = db_count + (-1)
    BY <1>7, <2>2, DbNumbers, FinisherIsCounted DEF SubmitClosed, CountInv, Step
  <2>5. Len(dbq)' = Len(dbq) + 0
    <3>1. UNCHANGED dbq
      BY <1>7 DEF SubmitClosed, dbVars, workVars, Step
    <3>2. QED
      BY <3>1, DbNumbers
  <2>6. DbExact'
    <3>1. Submitting' = Submitting + (-1) /\ Answering' = Answering + 0
      BY <2>2
    <3>2. DbExact
      BY DEF CountInv
    <3>3. Submitting \in Nat /\ Answering \in Nat /\ Len(dbq) \in Nat /\ db_count \in Int
      BY DbNumbers
    <3>4. QED
      BY <2>4, <2>5, <3>1, <3>2, <3>3 DEF DbExact
  <2>7. ConnExact'
    BY <1>7, <2>2, ConnQuiet DEF SubmitClosed, CountInv, dbVars, Step
  <2>8. QED
    BY <2>3, <2>6, <2>7 DEF CountInv
<1>8. CASE Leave(t)
  <2>1. /\ Change(Busy, "leave", "finish") = 0 /\ Change(AtPush, "leave", "finish") = 0
        /\ Change(AtSubmit, "leave", "finish") = 0
        /\ "leave" \in Places /\ "finish" \in Places
    BY DEF Change, One, Busy, AtPush, AtSubmit, AtQuery, Places, Holding, Keyed
  <2>2. /\ Working' = Working + 0 /\ Pushing' = Pushing + 0 /\ Submitting' = Submitting + 0
        /\ Answering' = Answering + 0 /\ Querying' = Querying + 0
    BY <1>8, <2>1, WorkerCounted DEF Leave, Step
  <2>3. WorkExact'
    BY <1>8, <2>2, WorkQuiet DEF Leave, CountInv, dbVars, workVars, Step
  <2>4. DbExact'
    BY <1>8, <2>2, DbQuiet DEF Leave, CountInv, dbVars, Step
  <2>5. ConnExact'
    BY <1>8, <2>2, ConnQuiet DEF Leave, CountInv, dbVars, Step
  <2>6. QED
    BY <2>3, <2>4, <2>5 DEF CountInv
<1>9. CASE Ends(t)
  <2>1. /\ Change(Busy, "run", "finish") = 0 /\ Change(AtPush, "run", "finish") = 0
        /\ Change(AtSubmit, "run", "finish") = 0
        /\ "run" \in Places /\ "finish" \in Places
    BY DEF Change, One, Busy, AtPush, AtSubmit, AtQuery, Places, Holding, Keyed
  <2>2. /\ Working' = Working + 0 /\ Pushing' = Pushing + 0 /\ Submitting' = Submitting + 0
        /\ Answering' = Answering + 0 /\ Querying' = Querying + 0
    BY <1>9, <2>1, WorkerCounted DEF Ends, Step
  <2>3. WorkExact'
    BY <1>9, <2>2, WorkQuiet DEF Ends, CountInv, dbVars, workVars, Step
  <2>4. DbExact'
    BY <1>9, <2>2, DbQuiet DEF Ends, CountInv, dbVars, Step
  <2>5. ConnExact'
    BY <1>9, <2>2, ConnQuiet DEF Ends, CountInv, dbVars, Step
  <2>6. QED
    BY <2>3, <2>4, <2>5 DEF CountInv
<1>10. CASE OnEvent(t)
  <2>1. /\ Change(Busy, "event", "push") = 0 /\ Change(AtPush, "event", "push") = 1
        /\ Change(AtSubmit, "event", "push") = 0
        /\ "event" \in Places /\ "push" \in Places
    BY DEF Change, One, Busy, AtPush, AtSubmit, AtQuery, Places, Holding, Keyed
  <2>2. /\ Working' = Working + 0 /\ Pushing' = Pushing + 1 /\ Submitting' = Submitting + 0
        /\ Answering' = Answering + 0 /\ Querying' = Querying + 0
    BY <1>10, <2>1, WorkerCounted DEF OnEvent, AddTask, Step
  <2>3. WorkExact'
    BY <1>10, <2>2, WorkAdds DEF OnEvent, CountInv, AddTask, Step
  <2>4. DbExact'
    BY <1>10, <2>2, DbQuiet DEF OnEvent, CountInv, dbVars, AddTask, Step
  <2>5. ConnExact'
    BY <1>10, <2>2, ConnQuiet DEF OnEvent, CountInv, dbVars, AddTask, Step
  <2>6. QED
    BY <2>3, <2>4, <2>5 DEF CountInv
<1>11. CASE OnEventTooLate(t)
  <2>1. /\ Change(Busy, "event", "finish") = 0 /\ Change(AtPush, "event", "finish") = 0
        /\ Change(AtSubmit, "event", "finish") = 0
        /\ "event" \in Places /\ "finish" \in Places
    BY DEF Change, One, Busy, AtPush, AtSubmit, AtQuery, Places, Holding, Keyed
  <2>2. /\ Working' = Working + 0 /\ Pushing' = Pushing + 0 /\ Submitting' = Submitting + 0
        /\ Answering' = Answering + 0 /\ Querying' = Querying + 0
    BY <1>11, <2>1, WorkerCounted DEF OnEventTooLate, Step
  <2>3. WorkExact'
    BY <1>11, <2>2, WorkQuiet DEF OnEventTooLate, CountInv, dbVars, workVars, Step
  <2>4. DbExact'
    BY <1>11, <2>2, DbQuiet DEF OnEventTooLate, CountInv, dbVars, Step
  <2>5. ConnExact'
    BY <1>11, <2>2, ConnQuiet DEF OnEventTooLate, CountInv, dbVars, Step
  <2>6. QED
    BY <2>3, <2>4, <2>5 DEF CountInv
<1>12. CASE FinishTask(t)
  <2>1. /\ Change(Busy, "finish", "idle") = -1 /\ Change(AtPush, "finish", "idle") = 0
        /\ Change(AtSubmit, "finish", "idle") = 0
        /\ "finish" \in Places /\ "idle" \in Places
    BY DEF Change, One, Busy, AtPush, AtSubmit, AtQuery, Places, Holding, Keyed
  <2>2. /\ Working' = Working + (-1) /\ Pushing' = Pushing + 0 /\ Submitting' = Submitting + 0
        /\ Answering' = Answering + 0 /\ Querying' = Querying + 0
    BY <1>12, <2>1, WorkerCounted DEF FinishTask, Step
  <2>3. work_count' = work_count + (-1)
    BY <1>12, <2>2, WorkNumbers, FinisherIsCounted DEF FinishTask, CountInv, Step
  <2>4. Len(workq)' = Len(workq) + 0
    <3>1. UNCHANGED workq
      BY <1>12 DEF FinishTask, dbVars, workVars, Step
    <3>2. QED
      BY <3>1, WorkNumbers
  <2>5. WorkExact'
    <3>1. Working' = Working + (-1) /\ Pushing' = Pushing + 0
      BY <2>2
    <3>2. WorkExact
      BY DEF CountInv
    <3>3. Working \in Nat /\ Pushing \in Nat /\ Len(workq) \in Nat /\ work_count \in Int
      BY WorkNumbers
    <3>4. QED
      BY <2>3, <2>4, <3>1, <3>2, <3>3 DEF WorkExact
  <2>6. DbExact'
    BY <1>12, <2>2, DbQuiet DEF FinishTask, CountInv, dbVars, Step
  <2>7. ConnExact'
    BY <1>12, <2>2, ConnQuiet DEF FinishTask, CountInv, dbVars, Step
  <2>8. QED
    BY <2>5, <2>6, <2>7 DEF CountInv
<1>13. QED
  BY <1>1, <1>2, <1>3, <1>4, <1>5, <1>6, <1>7, <1>8, <1>9, <1>10, <1>11, <1>12 DEF Work

(* The DB workers.                                                         *)
LEMMA DbStepExact ==
  ASSUME PoolInv, PoolInv', CountInv, NEW t \in DbWorkers, Db(t)
  PROVE  CountInv'
<1> t \in Threads
  BY DEF Threads
<1>1. CASE DbPop(t)
  <2>1. /\ Change(Busy, "idle", "get") = 1 /\ Change(AtPush, "idle", "get") = 0
        /\ Change(AtQuery, "idle", "get") = 0
        /\ "idle" \in Places /\ "get" \in Places
    BY DEF Change, One, Busy, AtPush, AtSubmit, AtQuery, Places, Holding, Keyed
  <2>2. /\ Working' = Working + 0 /\ Pushing' = Pushing + 0 /\ Submitting' = Submitting + 0
        /\ Answering' = Answering + 1 /\ Querying' = Querying + 0
    BY <1>1, <2>1, DbWorkerCounted DEF DbPop, Step
  <2>3. WorkExact'
    BY <1>1, <2>2, WorkQuiet DEF DbPop, CountInv, dbVars, workVars, Step
  <2>4. db_count' = db_count + 0
    BY <1>1, <2>2, DbNumbers DEF DbPop, CountInv, Step
  <2>5. Len(dbq)' = Len(dbq) + (-1)
    BY <1>1, Lengths DEF DbPop, Step
  <2>6. DbExact'
    <3>1. Submitting' = Submitting + 0 /\ Answering' = Answering + 1
      BY <2>2
    <3>2. DbExact
      BY DEF CountInv
    <3>3. Submitting \in Nat /\ Answering \in Nat /\ Len(dbq) \in Nat /\ db_count \in Int
      BY DbNumbers
    <3>4. QED
      BY <2>4, <2>5, <3>1, <3>2, <3>3 DEF DbExact
  <2>7. ConnExact'
    BY <1>1, <2>2, ConnQuiet DEF DbPop, CountInv, dbVars, Step
  <2>8. QED
    BY <2>3, <2>6, <2>7 DEF CountInv
<1>2. CASE DbExits(t)
  <2>1. /\ Change(Busy, "idle", "exited") = 0 /\ Change(AtPush, "idle", "exited") = 0
        /\ Change(AtQuery, "idle", "exited") = 0
        /\ "idle" \in Places /\ "exited" \in Places
    BY DEF Change, One, Busy, AtPush, AtSubmit, AtQuery, Places, Holding, Keyed
  <2>2. /\ Working' = Working + 0 /\ Pushing' = Pushing + 0 /\ Submitting' = Submitting + 0
        /\ Answering' = Answering + 0 /\ Querying' = Querying + 0
    BY <1>2, <2>1, DbWorkerCounted DEF DbExits, Step
  <2>3. WorkExact'
    BY <1>2, <2>2, WorkQuiet DEF DbExits, CountInv, dbVars, workVars, Step
  <2>4. DbExact'
    BY <1>2, <2>2, DbQuiet DEF DbExits, CountInv, dbVars, Step
  <2>5. ConnExact'
    BY <1>2, <2>2, ConnQuiet DEF DbExits, CountInv, dbVars, Step
  <2>6. QED
    BY <2>3, <2>4, <2>5 DEF CountInv
<1>3. CASE Get(t)
  <2>1. /\ Change(Busy, "get", "query") = 0 /\ Change(AtPush, "get", "query") = 0
        /\ Change(AtQuery, "get", "query") = 1
        /\ "get" \in Places /\ "query" \in Places
    BY DEF Change, One, Busy, AtPush, AtSubmit, AtQuery, Places, Holding, Keyed
  <2>2. /\ Working' = Working + 0 /\ Pushing' = Pushing + 0 /\ Submitting' = Submitting + 0
        /\ Answering' = Answering + 0 /\ Querying' = Querying + 1
    BY <1>3, <2>1, DbWorkerCounted DEF Get, Step
  <2>3. WorkExact'
    BY <1>3, <2>2, WorkQuiet DEF Get, CountInv, dbVars, workVars, Step
  <2>4. DbExact'
    BY <1>3, <2>2, DbQuiet DEF Get, CountInv, dbVars, Step
  <2>5. free' = free - 1 /\ UNCHANGED established
    BY <1>3, ConnNumbers DEF Get, Step
  <2>6. ConnExact'
    BY <2>2, <2>5, ConnNumbers DEF CountInv, ConnExact
  <2>7. QED
    BY <2>3, <2>4, <2>6 DEF CountInv
<1>4. CASE GetNull(t)
  <2>1. /\ Change(Busy, "get", "push") = 0 /\ Change(AtPush, "get", "push") = 1
        /\ Change(AtQuery, "get", "push") = 0
        /\ "get" \in Places /\ "push" \in Places
    BY DEF Change, One, Busy, AtPush, AtSubmit, AtQuery, Places, Holding, Keyed
  <2>2. /\ Working' = Working + 0 /\ Pushing' = Pushing + 1 /\ Submitting' = Submitting + 0
        /\ Answering' = Answering + 0 /\ Querying' = Querying + 0
    BY <1>4, <2>1, DbWorkerCounted DEF GetNull, AddTask, Step
  <2>3. WorkExact'
    BY <1>4, <2>2, WorkAdds DEF GetNull, CountInv, AddTask, Step
  <2>4. DbExact'
    BY <1>4, <2>2, DbQuiet DEF GetNull, CountInv, dbVars, AddTask, Step
  <2>5. ConnExact'
    BY <1>4, <2>2, ConnQuiet DEF GetNull, CountInv, dbVars, AddTask, Step
  <2>6. QED
    BY <2>3, <2>4, <2>5 DEF CountInv
<1>5. CASE Query(t)
  <2>1. /\ Change(Busy, "query", "guard") = 0 /\ Change(AtPush, "query", "guard") = 0
        /\ Change(AtQuery, "query", "guard") = -1
        /\ "query" \in Places /\ "guard" \in Places
    BY DEF Change, One, Busy, AtPush, AtSubmit, AtQuery, Places, Holding, Keyed
  <2>2. /\ Working' = Working + 0 /\ Pushing' = Pushing + 0 /\ Submitting' = Submitting + 0
        /\ Answering' = Answering + 0 /\ Querying' = Querying + (-1)
    BY <1>5, <2>1, DbWorkerCounted DEF Query, Step
  <2>3. WorkExact'
    BY <1>5, <2>2, WorkQuiet DEF Query, CountInv, dbVars, workVars, Step
  <2>4. DbExact'
    BY <1>5, <2>2, DbQuiet DEF Query, CountInv, dbVars, Step
  <2>5. free' = free - (-1) /\ UNCHANGED established
    BY <1>5, ConnNumbers DEF Query, Step
  <2>6. ConnExact'
    BY <2>2, <2>5, ConnNumbers DEF CountInv, ConnExact
  <2>7. QED
    BY <2>3, <2>4, <2>6 DEF CountInv
<1>6. CASE WaitFinished(t)
  <2>1. /\ Change(Busy, "guard", "push") = 0 /\ Change(AtPush, "guard", "push") = 1
        /\ Change(AtQuery, "guard", "push") = 0
        /\ "guard" \in Places /\ "push" \in Places
    BY DEF Change, One, Busy, AtPush, AtSubmit, AtQuery, Places, Holding, Keyed
  <2>2. /\ Working' = Working + 0 /\ Pushing' = Pushing + 1 /\ Submitting' = Submitting + 0
        /\ Answering' = Answering + 0 /\ Querying' = Querying + 0
    BY <1>6, <2>1, DbWorkerCounted DEF WaitFinished, AddTask, Step
  <2>3. WorkExact'
    BY <1>6, <2>2, WorkAdds DEF WaitFinished, CountInv, AddTask, Step
  <2>4. DbExact'
    BY <1>6, <2>2, DbQuiet DEF WaitFinished, CountInv, dbVars, AddTask, Step
  <2>5. ConnExact'
    BY <1>6, <2>2, ConnQuiet DEF WaitFinished, CountInv, dbVars, AddTask, Step
  <2>6. QED
    BY <2>3, <2>4, <2>5 DEF CountInv
<1>7. CASE DbFinishTask(t)
  <2>1. /\ Change(Busy, "finish", "idle") = -1 /\ Change(AtPush, "finish", "idle") = 0
        /\ Change(AtQuery, "finish", "idle") = 0
        /\ "finish" \in Places /\ "idle" \in Places
    BY DEF Change, One, Busy, AtPush, AtSubmit, AtQuery, Places, Holding, Keyed
  <2>2. /\ Working' = Working + 0 /\ Pushing' = Pushing + 0 /\ Submitting' = Submitting + 0
        /\ Answering' = Answering + (-1) /\ Querying' = Querying + 0
    BY <1>7, <2>1, DbWorkerCounted DEF DbFinishTask, Step
  <2>3. WorkExact'
    BY <1>7, <2>2, WorkQuiet DEF DbFinishTask, CountInv, dbVars, workVars, Step
  <2>4. db_count' = db_count + (-1)
    BY <1>7, <2>2, DbNumbers, FinisherIsCounted DEF DbFinishTask, CountInv, Step
  <2>5. Len(dbq)' = Len(dbq) + 0
    <3>1. UNCHANGED dbq
      BY <1>7 DEF DbFinishTask, dbVars, workVars, Step
    <3>2. QED
      BY <3>1, DbNumbers
  <2>6. DbExact'
    <3>1. Submitting' = Submitting + 0 /\ Answering' = Answering + (-1)
      BY <2>2
    <3>2. DbExact
      BY DEF CountInv
    <3>3. Submitting \in Nat /\ Answering \in Nat /\ Len(dbq) \in Nat /\ db_count \in Int
      BY DbNumbers
    <3>4. QED
      BY <2>4, <2>5, <3>1, <3>2, <3>3 DEF DbExact
  <2>7. ConnExact'
    BY <1>7, <2>2, ConnQuiet DEF DbFinishTask, CountInv, dbVars, Step
  <2>8. QED
    BY <2>3, <2>6, <2>7 DEF CountInv
<1>8. QED
  BY <1>1, <1>2, <1>3, <1>4, <1>5, <1>6, <1>7 DEF Db

(* The divide worker's hand-over, settle_pending, and who does not move.   *)
LEMMA OtherStepExact ==
  ASSUME PoolInv, PoolInv', CountInv,
         \/ \E b \in Businesses : OnWork(b)
         \/ \E k \in Keys : Settle(k)
         \/ UNCHANGED <<pc, work_count, workq, db_count, dbq, free, established>>
  PROVE  CountInv'
<1>1. ASSUME NEW b \in Businesses, OnWork(b) PROVE CountInv'
  <2>1. /\ Change(AtPush, "idle", "push") = 1
        /\ "idle" \in Places /\ "push" \in Places
    BY DEF Change, One, Busy, AtPush, AtSubmit, AtQuery, Places, Holding, Keyed
  <2>2. /\ Working' = Working + 0 /\ Pushing' = Pushing + 1 /\ Submitting' = Submitting + 0
        /\ Answering' = Answering + 0 /\ Querying' = Querying + 0
    BY <1>1, <2>1, OtherCounted DEF OnWork, AddTask, Step
  <2>3. WorkExact'
    BY <1>1, <2>2, WorkAdds DEF OnWork, CountInv, AddTask, Step
  <2>4. DbExact'
    BY <1>1, <2>2, DbQuiet DEF OnWork, CountInv, dbVars, AddTask, Step
  <2>5. ConnExact'
    BY <1>1, <2>2, ConnQuiet DEF OnWork, CountInv, dbVars, AddTask, Step
  <2>6. QED
    BY <2>3, <2>4, <2>5 DEF CountInv
<1>2. ASSUME NEW k \in Keys, Settle(k) PROVE CountInv'
  <2>1. /\ Change(AtPush, "idle", "push") = 1
        /\ "idle" \in Places /\ "push" \in Places
    BY DEF Change, One, Busy, AtPush, AtSubmit, AtQuery, Places, Holding, Keyed
  <2>2. /\ Working' = Working + 0 /\ Pushing' = Pushing + 1 /\ Submitting' = Submitting + 0
        /\ Answering' = Answering + 0 /\ Querying' = Querying + 0
    BY <1>2, <2>1, OtherCounted DEF Settle, AddTask, Step
  <2>3. WorkExact'
    BY <1>2, <2>2, WorkAdds DEF Settle, CountInv, AddTask, Step
  <2>4. DbExact'
    BY <1>2, <2>2, DbQuiet DEF Settle, CountInv, dbVars, AddTask, Step
  <2>5. ConnExact'
    BY <1>2, <2>2, ConnQuiet DEF Settle, CountInv, dbVars, AddTask, Step
  <2>6. QED
    BY <2>3, <2>4, <2>5 DEF CountInv
<1>3. CASE UNCHANGED <<pc, work_count, workq, db_count, dbq, free, established>>
  BY <1>3, NobodyMoved, WorkQuiet, DbQuiet, ConnQuiet DEF CountInv
<1>4. QED
  BY <1>1, <1>2, <1>3
---------------------------------------------------------------------------
LEMMA CountsHold == Spec => [](PoolInv /\ CountInv)
<1>1. Init => CountInv
  <2> SUFFICES ASSUME Init PROVE CountInv
    OBVIOUS
  <2>1. ASSUME NEW T \in SUBSET Threads, NEW P, "idle" \notin P PROVE Count(T, P) = 0
    <3>1. {t \in T : pc[t] \in P} = {}
      BY <2>1 DEF Init
    <3>2. QED
      BY <3>1, FS_EmptySet DEF Count
  <2>2. Workers \in SUBSET Threads /\ DbWorkers \in SUBSET Threads /\ Threads \in SUBSET Threads
    BY DEF Threads
  <2>3. "idle" \notin Busy /\ "idle" \notin AtPush /\ "idle" \notin AtSubmit /\ "idle" \notin AtQuery
    BY DEF Busy, AtPush, AtSubmit, AtQuery
  <2>4. Working = 0 /\ Pushing = 0 /\ Submitting = 0 /\ Answering = 0 /\ Querying = 0
    BY <2>1, <2>2, <2>3 DEF Working, Pushing, Submitting, Answering, Querying
  <2>5. Len(workq) = 0 /\ Len(dbq) = 0 /\ work_count = 0 /\ db_count = 0
    BY DEF Init
  <2>6. established \in Nat /\ free = established
    BY PoolAssumption DEF Init
  <2>7. QED
    BY <2>4, <2>5, <2>6 DEF CountInv, WorkExact, DbExact, ConnExact
<1>2. PoolInv /\ PoolInv' /\ CountInv /\ [Next]_vars => CountInv'
  <2> SUFFICES ASSUME PoolInv, PoolInv', CountInv, [Next]_vars PROVE CountInv'
    OBVIOUS
  <2>1. ASSUME NEW b \in Businesses, OnWork(b) PROVE CountInv'
    BY <2>1, OtherStepExact
  <2>2. ASSUME NEW t \in Threads, PushOk(t) \/ PushClosed(t) PROVE CountInv'
    BY <2>2, PushExact
  <2>3. ASSUME NEW t \in Workers, Work(t) PROVE CountInv'
    <3>1. CASE AwaitReady(t)
      <4>1. UNCHANGED <<pc, work_count, workq, db_count, dbq, free, established>>
        BY <3>1 DEF AwaitReady, workVars, dbVars, runVars
      <4>2. QED
        BY <4>1, OtherStepExact
    <3>2. CASE ~AwaitReady(t)
      BY <2>3, <3>2, WorkStepExact
    <3>3. QED
      BY <3>1, <3>2
  <2>4. ASSUME NEW t \in DbWorkers, Db(t) PROVE CountInv'
    BY <2>4, DbStepExact
  <2>5. ASSUME NEW k \in Keys, Settle(k) PROVE CountInv'
    BY <2>5, OtherStepExact
  <2>6. ASSUME \/ UNCHANGED vars \/ Stop \/ WaitIdle \/ TakeAll \/ CloseWork \/ CloseDb
               \/ ClosePool \/ ClearGlobals
        PROVE  CountInv'
    <3>1. UNCHANGED <<pc, work_count, workq, db_count, dbq, free, established>>
      BY <2>6 DEF vars, Stop, WaitIdle, TakeAll, CloseWork, CloseDb, ClosePool, ClearGlobals,
                  workVars, dbVars, runVars
    <3>2. QED
      BY <3>1, OtherStepExact
  <2>7. QED
    BY <2>1, <2>2, <2>3, <2>4, <2>5, <2>6 DEF Next, Stopping
<1>3. QED
  BY <1>1, <1>2, TypesHold, PTL DEF Spec

(* The unfinished counts of both pools are what is queued or in hand, and  *)
(* no connection to the database is lost (CountsAreExact), for any threads *)
(* and through every refusal: finish_task's test for 0 never matters.      *)
THEOREM CountsNeverDrift == Spec => []CountsAreExact
<1>1. PoolInv /\ CountInv => CountsAreExact
  <2> SUFFICES ASSUME PoolInv, CountInv PROVE CountsAreExact
    OBVIOUS
  <2>1. pc \in [Threads -> Places] /\ Workers \subseteq Threads /\ DbWorkers \subseteq Threads
    BY DEF PoolInv, ThreadTypes, Threads
  <2>2. /\ {t \in Workers : pc[t] \notin {"idle", "exited"}} = {t \in Workers : pc[t] \in Busy}
        /\ {t \in DbWorkers : pc[t] \notin {"idle", "exited"}} = {t \in DbWorkers : pc[t] \in Busy}
    BY <2>1 DEF Busy
  <2>3. /\ {t \in Threads : pc[t] = "push"} = {t \in Threads : pc[t] \in AtPush}
        /\ {t \in Workers : pc[t] = "dbpush"} = {t \in Workers : pc[t] \in AtSubmit}
        /\ {t \in DbWorkers : pc[t] = "query"} = {t \in DbWorkers : pc[t] \in AtQuery}
    BY DEF AtPush, AtSubmit, AtQuery
  <2>4. InWork = Working + Pushing /\ InDb = Submitting + Answering
    BY <2>2, <2>3 DEF InWork, InDb, Working, Pushing, Submitting, Answering, Count
  <2>5. Cardinality({t \in DbWorkers : pc[t] = "query"}) = Querying
    BY <2>3 DEF Querying, Count
  <2>6. work_count = Len(workq) + (Working + Pushing) /\ db_count = Len(dbq) + (Submitting + Answering)
    <3>1. Working \in Nat /\ Pushing \in Nat /\ Len(workq) \in Nat
      BY WorkNumbers
    <3>2. Submitting \in Nat /\ Answering \in Nat /\ Len(dbq) \in Nat
      BY DbNumbers
    <3>3. QED
      BY <3>1, <3>2 DEF CountInv, WorkExact, DbExact
  <2>7. QED
    BY <2>4, <2>5, <2>6 DEF CountsAreExact, CountInv, ConnExact
<1>2. QED
  BY <1>1, CountsHold, PTL

---------------------------------------------------------------------------
(* Server::stop sleeps in one of its two waits only, and with a reason.    *)
SleepInv == /\ napping => stage \in {"db wait", "work wait"}
            /\ SleeperHasReason

LEMMA CountsAreNatural ==
  ASSUME PoolInv, CountInv
  PROVE  work_count \in Nat /\ db_count \in Nat
<1>1. Working \in Nat /\ Pushing \in Nat /\ Len(workq) \in Nat
  BY WorkNumbers
<1>2. QED
  BY <1>1 DEF CountInv, WorkExact, PoolInv, DbTypes

(* A step that neither wakes stop nor moves it, nor lowers a count without *)
(* saying so.                                                              *)
LEMMA SleepKept ==
  ASSUME PoolInv, CountInv, SleepInv, UNCHANGED <<napping, stage>>,
         db_count' = db_count \/ db_count' = db_count + 1,
         \/ UNCHANGED <<work_count, refused>>
         \/ work_count' = work_count + 1 /\ UNCHANGED refused
         \/ refused' = TRUE
  PROVE  SleepInv'
<1>1. work_count \in Nat /\ db_count \in Nat
  BY CountsAreNatural
<1>2. napping' /\ stage' = "db wait" => db_count' > 0
  <2>1. SUFFICES ASSUME napping, stage = "db wait" PROVE db_count' > 0
    OBVIOUS
  <2>2. db_count > 0
    BY <2>1 DEF SleepInv, SleeperHasReason
  <2>3. QED
    BY <1>1, <2>2
<1>3. napping' /\ stage' = "work wait" => work_count' > 0 \/ refused'
  <2>1. SUFFICES ASSUME napping, stage = "work wait" PROVE work_count' > 0 \/ refused'
    OBVIOUS
  <2>2. work_count > 0 \/ refused
    BY <2>1 DEF SleepInv, SleeperHasReason
  <2>3. CASE refused' = TRUE
    BY <2>3
  <2>4. CASE UNCHANGED refused /\ refused
    BY <2>4
  <2>5. CASE UNCHANGED refused /\ work_count > 0 /\ work_count' \in {work_count, work_count + 1}
    BY <1>1, <2>5
  <2>6. QED
    BY <2>2, <2>3, <2>4, <2>5
<1>4. QED
  BY <1>2, <1>3 DEF SleepInv, SleeperHasReason

(* finish_task tells the sleeper of its own pool.                          *)
LEMMA SleepEnds ==
  ASSUME SleepInv, UNCHANGED <<stage, refused>>,
         \/ Wakes("db wait") /\ UNCHANGED work_count
         \/ Wakes("work wait") /\ UNCHANGED db_count
  PROVE  SleepInv'
<1>1. CASE ~napping'
  BY <1>1 DEF SleepInv, SleeperHasReason
<1>2. CASE napping'
  <2>1. napping
    BY <1>2 DEF Wakes
  <2>2. CASE Wakes("db wait") /\ UNCHANGED work_count
    <3>1. stage = "work wait"
      BY <1>2, <2>1, <2>2 DEF Wakes, SleepInv
    <3>2. QED
      BY <2>1, <2>2, <3>1 DEF SleepInv, SleeperHasReason
  <2>3. CASE Wakes("work wait") /\ UNCHANGED db_count
    <3>1. stage = "db wait"
      BY <1>2, <2>1, <2>3 DEF Wakes, SleepInv
    <3>2. QED
      BY <2>1, <2>3, <3>1 DEF SleepInv, SleeperHasReason
  <2>4. QED
    BY <2>2, <2>3
<1>3. QED
  BY <1>1, <1>2

LEMMA SleepStep == PoolInv /\ CountInv /\ SleepInv /\ [Next]_vars => SleepInv'
<1> SUFFICES ASSUME PoolInv, CountInv, SleepInv, [Next]_vars PROVE SleepInv'
  OBVIOUS
<1>1. CASE UNCHANGED vars
  BY <1>1, SleepKept DEF vars, workVars, dbVars, stopVars
<1>2. ASSUME NEW b \in Businesses, OnWork(b) PROVE SleepInv'
  BY <1>2, SleepKept DEF OnWork, AddTask, dbVars, stopVars
<1>3. ASSUME NEW t \in Threads, PushOk(t) \/ PushClosed(t) PROVE SleepInv'
  BY <1>3, SleepKept DEF PushOk, PushClosed, dbVars, stopVars
<1>4. ASSUME NEW t \in Workers, Work(t) PROVE SleepInv'
  <2>1. CASE SubmitClosed(t)
    BY <2>1, SleepEnds DEF SubmitClosed, workVars
  <2>2. CASE FinishTask(t)
    BY <2>2, SleepEnds DEF FinishTask, dbVars
  <2>3. CASE Submit(t)
    BY <2>3, SleepKept DEF Submit, workVars, stopVars
  <2>4. CASE OnEvent(t)
    BY <2>4, SleepKept DEF OnEvent, AddTask, dbVars, stopVars
  <2>5. CASE \/ WorkPop(t) \/ WorkExits(t) \/ AwaitSuspend(t) \/ AwaitReady(t) \/ SubmitOk(t)
             \/ Leave(t) \/ Ends(t) \/ OnEventTooLate(t)
    <3>1. UNCHANGED <<napping, stage, refused, work_count, db_count>>
      BY <2>5 DEF WorkPop, WorkExits, AwaitSuspend, AwaitReady, SubmitOk, Leave, Ends, OnEventTooLate,
                  workVars, dbVars, stopVars
    <3>2. QED
      BY <3>1, SleepKept
  <2>6. QED
    BY <1>4, <2>1, <2>2, <2>3, <2>4, <2>5 DEF Work
<1>5. ASSUME NEW t \in DbWorkers, Db(t) PROVE SleepInv'
  <2>1. CASE DbFinishTask(t)
    BY <2>1, SleepEnds DEF DbFinishTask, workVars
  <2>2. CASE GetNull(t) \/ WaitFinished(t)
    BY <2>2, SleepKept DEF GetNull, WaitFinished, AddTask, dbVars, stopVars
  <2>3. CASE DbPop(t) \/ DbExits(t) \/ Get(t) \/ Query(t)
    <3>1. UNCHANGED <<napping, stage, refused, work_count, db_count>>
      BY <2>3 DEF DbPop, DbExits, Get, Query, workVars, dbVars, stopVars
    <3>2. QED
      BY <3>1, SleepKept
  <2>4. QED
    BY <1>5, <2>1, <2>2, <2>3 DEF Db
<1>6. CASE Stop \/ TakeAll \/ CloseWork \/ CloseDb \/ ClosePool \/ ClearGlobals
  <2>1. napping' = napping /\ stage \notin {"db wait", "work wait"}
    BY <1>6 DEF Stop, TakeAll, CloseWork, CloseDb, ClosePool, ClearGlobals, Stage
  <2>2. QED
    BY <2>1 DEF SleepInv, SleeperHasReason
<1>7. ASSUME NEW k \in Keys, Settle(k) PROVE SleepInv'
  BY <1>7, SleepKept DEF Settle, AddTask, dbVars
<1>8. CASE WaitIdle
  <2>1. work_count \in Nat /\ db_count \in Nat
    BY CountsAreNatural
  <2>2. work_count' = work_count /\ db_count' = db_count
    BY <1>8 DEF WaitIdle, workVars, dbVars
  <2>3. CASE ~napping'
    BY <2>3 DEF SleepInv, SleeperHasReason
  <2>4. CASE napping'
    <3>1. ASSUME NEW here, NEW count, NEW to, Idle(here, count, to)
          PROVE  stage = here /\ stage' = here /\ count # 0
      BY <2>4, <3>1 DEF Idle
    <3>2. ASSUME NEW here, NEW to, GivesUp(here, to) PROVE FALSE
      BY <2>4, <3>2 DEF GivesUp
    <3>3. \/ stage = "db wait" /\ stage' = "db wait" /\ db_count # 0
          \/ stage = "work wait" /\ stage' = "work wait" /\ work_count # 0
      <4>1. \/ Idle("db wait", db_count, "settle") \/ GivesUp("db wait", "settle")
            \/ Idle("work wait", work_count, "db close") \/ GivesUp("work wait", "db close")
        BY <1>8 DEF WaitIdle
      <4>2. Idle("db wait", db_count, "settle") \/ Idle("work wait", work_count, "db close")
        BY <3>2, <4>1
      <4>3. CASE Idle("db wait", db_count, "settle")
        BY <3>1, <4>3
      <4>4. CASE Idle("work wait", work_count, "db close")
        BY <3>1, <4>4
      <4>5. QED
        BY <4>2, <4>3, <4>4
    <3>4. CASE stage' = "db wait" /\ db_count # 0
      <4>1. db_count' \in Nat /\ db_count' # 0
        BY <2>1, <2>2, <3>4
      <4>2. db_count' > 0
        BY <4>1
      <4>3. QED
        BY <3>4, <4>2 DEF SleepInv, SleeperHasReason
    <3>5. CASE stage' = "work wait" /\ work_count # 0
      <4>1. work_count' \in Nat /\ work_count' # 0
        BY <2>1, <2>2, <3>5
      <4>2. work_count' > 0
        BY <4>1
      <4>3. QED
        BY <3>5, <4>2 DEF SleepInv, SleeperHasReason
    <3>6. QED
      BY <3>3, <3>4, <3>5
  <2>5. QED
    BY <2>3, <2>4
<1>9. QED
  BY <1>1, <1>2, <1>3, <1>4, <1>5, <1>6, <1>7, <1>8 DEF Next, Stopping

(* stop() sleeps in a wait_idle only while that pool has something to      *)
(* finish, or after a refused push, which does not notify it               *)
(* (SleeperHasReason): no other wake-up is ever missed.                    *)
THEOREM SleeperIsTold == Spec => []SleeperHasReason
<1>1. Init => SleepInv
  BY DEF Init, SleepInv, SleeperHasReason
<1>2. SleepInv => SleeperHasReason
  BY DEF SleepInv
<1>3. QED
  BY <1>1, <1>2, SleepStep, CountsHold, PTL DEF Spec

---------------------------------------------------------------------------
(* One step of a thread, seen from all of them.                            *)
LEMMA StepAt ==
  ASSUME PoolInv, NEW t \in Threads, NEW from, NEW to, Step(t, from, to)
  PROVE  /\ pc[t] = from /\ pc'[t] = to
         /\ \A u \in Threads : u # t => pc'[u] = pc[u]
  BY DEF PoolInv, ThreadTypes, Step

LEMMA HoldsAt ==
  ASSUME PoolInv, NEW t \in Threads, NEW task, Holds(t, task)
  PROVE  /\ hand'[t] = task
         /\ \A u \in Threads : u # t => hand'[u] = hand[u]
  BY DEF PoolInv, ThreadTypes, Holds

LEMMA Roles ==
  /\ Workers \subseteq Threads /\ DbWorkers \subseteq Threads
  /\ "parse" \in Threads /\ "stop" \in Threads
  /\ \A t \in Workers : t \notin DbWorkers /\ t # "parse" /\ t # "stop"
  /\ \A t \in DbWorkers : t # "parse" /\ t # "stop"
  /\ "parse" # "stop"
  BY PoolAssumption DEF Threads

(* What the ends of a queue hold after a push and a pop.                   *)
LEMMA Appended ==
  ASSUME NEW S, NEW q \in Seq(S), NEW x \in S
  PROVE  /\ Append(q, x) \in Seq(S) /\ Len(Append(q, x)) = Len(q) + 1 /\ Len(q) \in Nat
         /\ \A i \in 1 .. Len(q) : Append(q, x)[i] = q[i]
         /\ Append(q, x)[Len(q) + 1] = x
         /\ \A i \in 1 .. Len(Append(q, x)) : i \in 1 .. Len(q) \/ i = Len(q) + 1
<1>1. Len(q) \in Nat
  BY LenProperties
<1>2. Append(q, x) \in Seq(S) /\ Len(Append(q, x)) = Len(q) + 1
      /\ \A i \in 1 .. Len(q) : Append(q, x)[i] = q[i]
      /\ Append(q, x)[Len(q) + 1] = x
  BY AppendProperties
<1>3. QED
  BY <1>1, <1>2

LEMMA Popped ==
  ASSUME NEW S, NEW q \in Seq(S), q # << >>
  PROVE  /\ Tail(q) \in Seq(S) /\ Head(q) \in S /\ Head(q) = q[1] /\ 1 \in 1 .. Len(q)
         /\ Len(Tail(q)) = Len(q) - 1 /\ Len(q) \in Nat
         /\ \A i \in 1 .. Len(Tail(q)) : i + 1 \in 1 .. Len(q) /\ i + 1 # 1 /\ Tail(q)[i] = q[i + 1]
<1>1. Len(q) \in Nat /\ Len(q) # 0
  BY LenProperties, EmptySeq
<1>2. /\ Tail(q) \in Seq(S) /\ Head(q) \in S /\ Len(Tail(q)) = Len(q) - 1
      /\ \A i \in 1 .. Len(Tail(q)) : Tail(q)[i] = q[i + 1]
  BY HeadTailProperties
<1>3. Head(q) = q[1]
  OBVIOUS
<1>4. QED
  BY <1>1, <1>2, <1>3

---------------------------------------------------------------------------
(* What a thread has in its hand where it is.                              *)
Fits(t) ==
  /\ t \in DbWorkers /\ pc[t] \in {"get", "query", "guard", "push"} => hand[t].kind = "event"
  /\ t \in Workers /\ pc[t] \in {"submit", "dbpush", "leave", "push"} => hand[t].kind = "resume"
  /\ t \in Workers /\ pc[t] = "event" => hand[t].kind = "event"
  /\ t \in Workers /\ pc[t] = "run" => hand[t].kind # "event"
  /\ t = "parse" /\ pc[t] = "push" => hand[t].kind = "start"
  /\ t = "stop" /\ pc[t] = "push" => hand[t].kind = "resume"
  /\ t \notin Workers => pc[t] # "event"
HandInv == \A t \in Threads : Fits(t)

LEMMA HandStep == PoolInv /\ HandInv /\ [Next]_vars => HandInv'
<1> SUFFICES ASSUME PoolInv, HandInv, [Next]_vars PROVE HandInv'
  OBVIOUS
<1>0. WorkTypes /\ DbTypes /\ ThreadTypes
  BY DEF PoolInv
<1>1. ASSUME NEW t \in Threads, Fits(t)',
             \A u \in Threads : u # t => pc'[u] = pc[u] /\ hand'[u] = hand[u]
      PROVE  HandInv'
  <2> SUFFICES ASSUME NEW u \in Threads PROVE Fits(u)'
    BY DEF HandInv
  <2>1. CASE u = t
    BY <1>1, <2>1
  <2>2. CASE u # t
    <3>1. pc'[u] = pc[u] /\ hand'[u] = hand[u] /\ Fits(u)
      BY <1>1, <2>2 DEF HandInv
    <3>2. QED
      BY <3>1 DEF Fits
  <2>3. QED
    BY <2>1, <2>2
\* A step that keeps the task at hand, or drops it.
<1>2. ASSUME NEW t \in Threads, NEW from, NEW to, Step(t, from, to), hand' = hand,
             \/ to \in {"finish", "idle", "exited"}
             \/ t \in Workers /\ from \in {"submit", "dbpush"} /\ to \in {"dbpush", "leave"}
             \/ t \in DbWorkers /\ from \in {"get", "query"} /\ to \in {"query", "guard"}
      PROVE  HandInv'
  <2>1. pc[t] = from /\ pc'[t] = to /\ \A u \in Threads : u # t => pc'[u] = pc[u]
    BY <1>2, StepAt
  <2>2. Fits(t)
    BY DEF HandInv
  <2>3. Fits(t)'
    BY <1>2, <2>1, <2>2, Roles DEF Fits
  <2>4. QED
    BY <1>1, <1>2, <2>1, <2>3
\* A step that takes another one.
<1>3. ASSUME NEW t \in Threads, NEW from, NEW to, NEW task, Step(t, from, to), Holds(t, task),
             \/ to \in {"finish", "idle"}
             \/ t \in Workers /\ to \in {"submit", "push"} /\ task.kind = "resume"
             \/ t \in Workers /\ to = "event" /\ task.kind = "event"
             \/ t \in Workers /\ to = "run" /\ task.kind # "event"
             \/ t \in DbWorkers /\ to \in {"get", "push"} /\ task.kind = "event"
             \/ t = "parse" /\ to = "push" /\ task.kind = "start"
             \/ t = "stop" /\ to = "push" /\ task.kind = "resume"
      PROVE  HandInv'
  <2>1. pc'[t] = to /\ \A u \in Threads : u # t => pc'[u] = pc[u]
    BY <1>3, StepAt
  <2>2. hand'[t] = task /\ \A u \in Threads : u # t => hand'[u] = hand[u]
    BY <1>3, HoldsAt
  <2>3. Fits(t)'
    BY <1>3, <2>1, <2>2, Roles DEF Fits
  <2>4. QED
    BY <1>1, <2>1, <2>2, <2>3
<1>4. ASSUME UNCHANGED <<pc, hand>> PROVE HandInv'
  BY <1>4 DEF HandInv, Fits
<1>5. ASSUME NEW b \in Businesses, OnWork(b) PROVE HandInv'
  BY <1>3, <1>5, Roles DEF OnWork, AddTask
<1>6. ASSUME NEW t \in Threads, PushOk(t) \/ PushClosed(t) PROVE HandInv'
  BY <1>3, <1>6 DEF PushOk, PushClosed, AfterPush
<1>7. ASSUME NEW t \in Workers, Work(t) PROVE HandInv'
  <2>0. t \in Threads
    BY Roles
  <2>1. CASE WorkPop(t)
    BY <1>3, <2>0, <2>1 DEF WorkPop
  <2>2. CASE AwaitSuspend(t)
    <3>1. \A k \in Keys : Task("resume", k).kind = "resume"
      BY DEF Task
    <3>2. QED
      BY <1>3, <2>0, <2>2, <3>1 DEF AwaitSuspend
  <2>3. CASE AwaitReady(t)
    BY <1>4, <2>3 DEF AwaitReady, runVars
  <2>4. CASE OnEvent(t)
    <3>1. Task("resume", Key(hand[t])).kind = "resume"
      BY DEF Task
    <3>2. QED
      BY <1>3, <2>0, <2>4, <3>1 DEF OnEvent, AddTask
  <2>5. CASE FinishTask(t)
    BY <1>3, <2>0, <2>5 DEF FinishTask
  <2>6. CASE WorkExits(t) \/ Submit(t) \/ SubmitOk(t) \/ SubmitClosed(t) \/ Leave(t) \/ Ends(t)
             \/ OnEventTooLate(t)
    BY <1>2, <2>0, <2>6 DEF WorkExits, Submit, SubmitOk, SubmitClosed, Leave, Ends, OnEventTooLate
  <2>7. QED
    BY <1>7, <2>1, <2>2, <2>3, <2>4, <2>5, <2>6 DEF Work
<1>8. ASSUME NEW t \in DbWorkers, Db(t) PROVE HandInv'
  <2>0. t \in Threads
    BY Roles
  <2>1. CASE DbPop(t)
    <3>1. Task("event", Head(dbq)).kind = "event"
      BY DEF Task
    <3>2. QED
      BY <1>3, <2>0, <2>1, <3>1 DEF DbPop
  <2>2. CASE GetNull(t) \/ WaitFinished(t)
    <3>1. hand[t].kind = "event"
      BY <2>0, <2>2, StepAt DEF GetNull, WaitFinished, AddTask, HandInv, Fits
    <3>2. QED
      BY <1>3, <2>0, <2>2, <3>1 DEF GetNull, WaitFinished, AddTask
  <2>3. CASE DbFinishTask(t)
    BY <1>3, <2>0, <2>3 DEF DbFinishTask
  <2>4. CASE DbExits(t) \/ Get(t) \/ Query(t)
    BY <1>2, <2>0, <2>4 DEF DbExits, Get, Query
  <2>5. QED
    BY <1>8, <2>1, <2>2, <2>3, <2>4 DEF Db
<1>9. ASSUME NEW k \in Keys, Settle(k) PROVE HandInv'
  <2>1. Task("resume", k).kind = "resume"
    BY DEF Task
  <2>2. QED
    BY <1>3, <1>9, <2>1, Roles DEF Settle, AddTask
<1>10. CASE \/ UNCHANGED vars \/ Stop \/ WaitIdle \/ TakeAll \/ CloseWork \/ CloseDb
            \/ ClosePool \/ ClearGlobals
  BY <1>4, <1>10 DEF vars, runVars, Stop, WaitIdle, TakeAll, CloseWork, CloseDb, ClosePool, ClearGlobals
<1>11. QED
  BY <1>5, <1>6, <1>7, <1>8, <1>9, <1>10 DEF Next, Stopping

LEMMA HandsHold == Spec => [](PoolInv /\ HandInv)
<1>1. Init => HandInv
  BY DEF Init, HandInv, Fits
<1>2. QED
  BY <1>1, TypesHold, HandStep, PTL DEF Spec

---------------------------------------------------------------------------
(* The query of a suspended coroutine goes from hand to queue to hand.     *)
LEMMA EventOfKey ==
  ASSUME NEW task \in GoodTasks, task.kind = "event"
  PROVE  task = Task("event", Key(task)) /\ Key(task) \in Keys
  BY DEF GoodTasks, Tasks, Task, Key

(* What a step does not touch of a query's way it leaves.                  *)
LEMMA UnderwayElsewhere ==
  ASSUME PoolInv, NEW k \in Keys, Underway(k), NEW t \in Threads,
         \A u \in Threads : u # t => pc'[u] = pc[u] /\ hand'[u] = hand[u],
         \A i \in 1 .. Len(dbq) : dbq[i] = k => \E j \in 1 .. Len(dbq)' : dbq'[j] = k,
         \A i \in 1 .. Len(workq) : workq[i] = Task("event", k)
           => \E j \in 1 .. Len(workq)' : workq'[j] = Task("event", k)
  PROVE  Underway(k)' \/ (Key(hand[t]) = k /\ \/ t \in Workers /\ pc[t] \in {"submit", "dbpush", "event"}
                                              \/ t \in DbWorkers /\ pc[t] \in {"get", "query", "guard", "push"})
<1>1. CASE (\E i \in 1 .. Len(dbq) : dbq[i] = k) \/ \E i \in 1 .. Len(workq) : workq[i] = Task("event", k)
  BY <1>1 DEF Underway
<1>2. ASSUME NEW u \in Workers, pc[u] \in {"submit", "dbpush", "event"}, Key(hand[u]) = k, u # t
      PROVE  Underway(k)'
  <2>1. pc'[u] = pc[u] /\ hand'[u] = hand[u]
    BY <1>2, Roles
  <2>2. QED
    BY <1>2, <2>1 DEF Underway, Key
<1>3. ASSUME NEW u \in DbWorkers, pc[u] \in {"get", "query", "guard", "push"}, Key(hand[u]) = k, u # t
      PROVE  Underway(k)'
  <2>1. pc'[u] = pc[u] /\ hand'[u] = hand[u]
    BY <1>3, Roles
  <2>2. QED
    BY <1>3, <2>1 DEF Underway, Key
<1>4. QED
  BY <1>1, <1>2, <1>3 DEF Underway

(* A pool that is closed stays closed.                                     *)
LEMMA StaysOpen == [Next]_vars => (work_closed => work_closed') /\ (db_closed => db_closed')
<1> SUFFICES ASSUME [Next]_vars PROVE (work_closed => work_closed') /\ (db_closed => db_closed')
  OBVIOUS
<1>1. ASSUME NEW b \in Businesses, OnWork(b) PROVE UNCHANGED <<work_closed, db_closed>>
  BY <1>1 DEF OnWork, dbVars
<1>2. ASSUME NEW t \in Threads, PushOk(t) \/ PushClosed(t) PROVE UNCHANGED <<work_closed, db_closed>>
  BY <1>2 DEF PushOk, PushClosed, dbVars
<1>3. ASSUME NEW t \in Workers, Work(t) PROVE UNCHANGED <<work_closed, db_closed>>
  <2>1. CASE WorkPop(t) \/ WorkExits(t) \/ AwaitSuspend(t) \/ AwaitReady(t)
    BY <2>1 DEF WorkPop, WorkExits, AwaitSuspend, AwaitReady, workVars, dbVars
  <2>2. CASE Submit(t) \/ SubmitOk(t) \/ SubmitClosed(t) \/ Leave(t)
    BY <2>2 DEF Submit, SubmitOk, SubmitClosed, Leave, workVars, dbVars
  <2>3. CASE Ends(t) \/ OnEvent(t) \/ OnEventTooLate(t) \/ FinishTask(t)
    BY <2>3 DEF Ends, OnEvent, OnEventTooLate, FinishTask, workVars, dbVars
  <2>4. QED
    BY <1>3, <2>1, <2>2, <2>3 DEF Work
<1>4. ASSUME NEW t \in DbWorkers, Db(t) PROVE UNCHANGED <<work_closed, db_closed>>
  <2>1. CASE DbPop(t) \/ DbExits(t) \/ Get(t) \/ GetNull(t)
    BY <2>1 DEF DbPop, DbExits, Get, GetNull, workVars, dbVars
  <2>2. CASE Query(t) \/ WaitFinished(t) \/ DbFinishTask(t)
    BY <2>2 DEF Query, WaitFinished, DbFinishTask, workVars, dbVars
  <2>3. QED
    BY <1>4, <2>1, <2>2 DEF Db
<1>5. ASSUME NEW k \in Keys, Settle(k) PROVE UNCHANGED <<work_closed, db_closed>>
  BY <1>5 DEF Settle, dbVars
<1>6. CASE CloseWork
  BY <1>6 DEF CloseWork, dbVars
<1>7. CASE CloseDb
  BY <1>7 DEF CloseDb, workVars
<1>8. CASE Stop \/ TakeAll \/ ClosePool \/ ClearGlobals
  <2>1. UNCHANGED <<work_closed, db_closed>>
    <3>1. CASE Stop
      BY <3>1 DEF Stop, workVars, dbVars
    <3>2. CASE TakeAll
      BY <3>2 DEF TakeAll, dbVars
    <3>3. CASE ClosePool
      BY <3>3 DEF ClosePool, workVars
    <3>4. CASE ClearGlobals
      BY <3>4 DEF ClearGlobals, workVars, dbVars
    <3>5. QED
      BY <1>8, <3>1, <3>2, <3>3, <3>4
  <2>2. QED
    BY <2>1
<1>9. CASE WaitIdle \/ UNCHANGED vars
  <2>1. UNCHANGED <<workVars, dbVars>>
    BY <1>9 DEF WaitIdle, vars
  <2>2. QED
    BY <2>1 DEF workVars, dbVars
<1>10. QED
  BY <1>1, <1>2, <1>3, <1>4, <1>5, <1>6, <1>7, <1>8, <1>9 DEF Next, Stopping

LEMMA UnderwayStep ==
  PoolInv /\ PoolInv' /\ HandInv /\ SuspendedIsAnswered /\ [Next]_vars => SuspendedIsAnswered'
<1> SUFFICES ASSUME PoolInv, PoolInv', HandInv, SuspendedIsAnswered, [Next]_vars,
                    ~work_closed', ~db_closed', NEW k \in Keys, k \in task_queue'
             PROVE  Underway(k)'
  BY DEF SuspendedIsAnswered, PoolInv, WorkTypes
<1>0. WorkTypes /\ DbTypes /\ ThreadTypes
  BY DEF PoolInv
<1>a. ~work_closed /\ ~db_closed
  BY StaysOpen DEF PoolInv, WorkTypes, DbTypes
<1>b. k \in task_queue => Underway(k)
  BY <1>a DEF SuspendedIsAnswered
\* Steps of one thread that leave both queues alone or only add to them.
<1>1. ASSUME NEW t \in Threads, \A u \in Threads : u # t => pc'[u] = pc[u] /\ hand'[u] = hand[u],
             UNCHANGED <<dbq, workq>>, k \in task_queue
      PROVE  Underway(k)' \/ (Key(hand[t]) = k /\ \/ t \in Workers /\ pc[t] \in {"submit", "dbpush", "event"}
                                                  \/ t \in DbWorkers /\ pc[t] \in {"get", "query", "guard", "push"})
  BY <1>b, <1>1, UnderwayElsewhere
<1>2. ASSUME NEW b \in Businesses, OnWork(b) PROVE Underway(k)'
  <2>1. UNCHANGED <<dbq, workq, task_queue>> /\ "parse" \in Threads
        /\ \A u \in Threads : u # "parse" => pc'[u] = pc[u] /\ hand'[u] = hand[u]
    BY <1>2, StepAt, HoldsAt, Roles DEF OnWork, AddTask, dbVars
  <2>2. QED
    BY <1>1, <2>1, Roles
<1>3. ASSUME NEW t \in Threads, PushOk(t) PROVE Underway(k)'
  <2>1. /\ UNCHANGED <<dbq, task_queue>> /\ pc[t] = "push" /\ workq' = Append(workq, hand[t])
        /\ \A u \in Threads : u # t => pc'[u] = pc[u] /\ hand'[u] = hand[u]
    BY <1>3, StepAt, HoldsAt DEF PushOk, dbVars
  <2>2. hand[t] \in GoodTasks
    BY <1>0, <2>1 DEF ThreadTypes, Holding
  <2>3. /\ Len(workq') = Len(workq) + 1 /\ Len(workq) \in Nat
        /\ \A i \in 1 .. Len(workq) : workq'[i] = workq[i]
        /\ workq'[Len(workq) + 1] = hand[t]
    BY <1>0, <2>1, <2>2, Appended DEF WorkTypes
  <2>4. \A i \in 1 .. Len(workq) : i \in 1 .. Len(workq)'
    BY <2>3
  <2>5. Underway(k)' \/ (Key(hand[t]) = k /\ t \in DbWorkers)
    BY <1>b, <2>1, <2>3, <2>4, UnderwayElsewhere
  <2>6. CASE Key(hand[t]) = k /\ t \in DbWorkers
    <3>1. hand[t] = Task("event", k)
      BY <2>1, <2>2, <2>6, EventOfKey DEF HandInv, Fits
    <3>2. Len(workq) + 1 \in 1 .. Len(workq)'
      BY <2>3
    <3>3. QED
      BY <2>3, <3>1, <3>2 DEF Underway
  <2>7. QED
    BY <2>5, <2>6
<1>4. ASSUME NEW t \in Threads, PushClosed(t) PROVE Underway(k)'
  BY <1>a, <1>4 DEF PushClosed
<1>5. ASSUME NEW t \in Workers, Work(t) PROVE Underway(k)'
  <2>0. t \in Threads /\ t \notin DbWorkers
    BY Roles
  <2>1. CASE WorkPop(t)
    <3>1. /\ UNCHANGED <<dbq, task_queue>> /\ pc[t] = "idle" /\ workq # << >> /\ workq' = Tail(workq)
          /\ hand'[t] = Head(workq)
          /\ pc'[t] = (IF Head(workq).kind = "event" THEN "event" ELSE "run")
          /\ \A u \in Threads : u # t => pc'[u] = pc[u] /\ hand'[u] = hand[u]
      BY <2>0, <2>1, StepAt, HoldsAt DEF WorkPop, dbVars
    <3>2. CASE Head(workq) = Task("event", k)
      <4>1. Head(workq).kind = "event" /\ Key(Head(workq)) = k
        BY <3>2, KeyedTask
      <4>2. QED
        BY <3>1, <4>1 DEF Underway, Key
    <3>3. CASE Head(workq) # Task("event", k)
      <4>1. \A i \in 1 .. Len(workq) : workq[i] = Task("event", k)
              => \E j \in 1 .. Len(workq)' : workq'[j] = Task("event", k)
        <5> SUFFICES ASSUME NEW i \in 1 .. Len(workq), workq[i] = Task("event", k)
                     PROVE  \E j \in 1 .. Len(workq)' : workq'[j] = Task("event", k)
          OBVIOUS
        <5>1. /\ Head(workq) = workq[1] /\ Len(Tail(workq)) = Len(workq) - 1 /\ Len(workq) \in Nat
              /\ \A j \in 1 .. Len(Tail(workq)) : Tail(workq)[j] = workq[j + 1]
          BY <1>0, <3>1, Popped DEF WorkTypes
        <5>2. i # 1
          BY <3>3, <5>1
        <5>3. i - 1 \in 1 .. Len(Tail(workq)) /\ i = (i - 1) + 1
          BY <5>1, <5>2
        <5>4. Tail(workq)[i - 1] = workq[i]
          BY <5>1, <5>3
        <5>5. QED
          BY <3>1, <5>3, <5>4
      <4>2. Underway(k)' \/ pc[t] \in {"submit", "dbpush", "event"}
        BY <1>b, <2>0, <3>1, <4>1, UnderwayElsewhere
      <4>3. QED
        BY <3>1, <4>2
    <3>4. QED
      BY <3>2, <3>3
  <2>2. CASE AwaitSuspend(t)
    <3> DEFINE m == <<hand[t].b, asked[hand[t].b] + 1>>
    <3>1. /\ UNCHANGED <<dbq, workq>> /\ pc[t] = "run" /\ pc'[t] = "submit" /\ m \in Keys
          /\ task_queue' = task_queue \union {m} /\ hand'[t] = Task("resume", m)
          /\ \A u \in Threads : u # t => pc'[u] = pc[u] /\ hand'[u] = hand[u]
      BY <2>0, <2>2, StepAt, HoldsAt DEF AwaitSuspend, dbVars
    <3> HIDE DEF m
    <3>2. CASE k = m
      <4>1. Key(hand'[t]) = k
        BY <3>1, <3>2, KeyedTask
      <4>2. QED
        BY <3>1, <4>1 DEF Underway, Key
    <3>3. CASE k # m
      BY <1>1, <2>0, <3>1, <3>3
    <3>4. QED
      BY <3>2, <3>3
  <2>3. CASE AwaitReady(t) \/ WorkExits(t) \/ Leave(t) \/ Ends(t) \/ FinishTask(t)
    <3>1. /\ UNCHANGED <<dbq, workq, task_queue>> /\ pc[t] \notin {"submit", "dbpush", "event"}
          /\ \A u \in Threads : u # t => pc'[u] = pc[u] /\ hand'[u] = hand[u]
      <4>1. CASE AwaitReady(t)
        BY <4>1 DEF AwaitReady, dbVars, workVars, runVars
      <4>2. CASE WorkExits(t) \/ Ends(t)
        BY <2>0, <4>2, StepAt DEF WorkExits, Ends, dbVars, workVars
      <4>3. CASE Leave(t)
        BY <2>0, <4>3, StepAt DEF Leave, dbVars, workVars
      <4>4. CASE FinishTask(t)
        <5>1. UNCHANGED <<dbq, workq, task_queue>> /\ Step(t, "finish", "idle") /\ Holds(t, None)
          BY <4>4 DEF FinishTask, dbVars
        <5>2. QED
          BY <2>0, <5>1, StepAt, HoldsAt
      <4>5. QED
        BY <2>3, <4>1, <4>2, <4>3, <4>4
    <3>2. QED
      BY <1>1, <2>0, <3>1
  <2>4. CASE Submit(t)
    <3>1. /\ UNCHANGED <<dbq, workq, task_queue, hand>> /\ pc'[t] = "dbpush"
          /\ \A u \in Threads : u # t => pc'[u] = pc[u] /\ hand'[u] = hand[u]
      BY <2>0, <2>4, StepAt DEF Submit, workVars
    <3>2. Key(hand[t]) = k => Underway(k)'
      BY <3>1 DEF Underway, Key
    <3>3. QED
      BY <1>1, <2>0, <3>1, <3>2
  <2>5. CASE SubmitOk(t)
    <3>1. /\ UNCHANGED <<workq, task_queue, hand>> /\ dbq' = Append(dbq, Key(hand[t])) /\ pc[t] = "dbpush"
          /\ \A u \in Threads : u # t => pc'[u] = pc[u] /\ hand'[u] = hand[u]
      BY <2>0, <2>5, StepAt DEF SubmitOk, workVars
    <3>2. Key(hand[t]) \in Keys
      BY <1>0, <2>0, <3>1, HasKey DEF ThreadTypes, Holding, Keyed
    <3>3. /\ Len(dbq') = Len(dbq) + 1 /\ Len(dbq) \in Nat
          /\ \A i \in 1 .. Len(dbq) : dbq'[i] = dbq[i]
          /\ dbq'[Len(dbq) + 1] = Key(hand[t])
      BY <1>0, <3>1, <3>2, Appended DEF DbTypes
    <3>4. (\A i \in 1 .. Len(dbq) : i \in 1 .. Len(dbq)') /\ Len(dbq) + 1 \in 1 .. Len(dbq)'
      BY <3>3
    <3>5. Underway(k)' \/ Key(hand[t]) = k
      BY <1>b, <2>0, <3>1, <3>3, <3>4, UnderwayElsewhere
    <3>6. Key(hand[t]) = k => Underway(k)'
      BY <3>3, <3>4 DEF Underway
    <3>7. QED
      BY <3>5, <3>6
  <2>6. CASE SubmitClosed(t)
    BY <1>a, <2>6 DEF SubmitClosed
  <2>7. CASE OnEvent(t)
    <3>1. /\ UNCHANGED <<dbq, workq>> /\ pc[t] = "event" /\ task_queue' = task_queue \ {Key(hand[t])}
          /\ \A u \in Threads : u # t => pc'[u] = pc[u] /\ hand'[u] = hand[u]
      BY <2>0, <2>7, StepAt, HoldsAt DEF OnEvent, AddTask, dbVars
    <3>2. QED
      BY <1>1, <2>0, <3>1
  <2>8. CASE OnEventTooLate(t)
    <3>1. /\ UNCHANGED <<dbq, workq, task_queue, hand>> /\ Key(hand[t]) \notin task_queue
          /\ \A u \in Threads : u # t => pc'[u] = pc[u] /\ hand'[u] = hand[u]
      BY <2>0, <2>8, StepAt DEF OnEventTooLate, workVars, dbVars
    <3>2. QED
      BY <1>1, <2>0, <3>1
  <2>9. QED
    BY <1>5, <2>1, <2>2, <2>3, <2>4, <2>5, <2>6, <2>7, <2>8 DEF Work
<1>6. ASSUME NEW t \in DbWorkers, Db(t) PROVE Underway(k)'
  <2>0. t \in Threads /\ t \notin Workers
    BY Roles
  <2>1. CASE DbPop(t)
    <3>1. /\ UNCHANGED <<workq, task_queue>> /\ pc[t] = "idle" /\ dbq # << >> /\ dbq' = Tail(dbq)
          /\ hand'[t] = Task("event", Head(dbq)) /\ pc'[t] = "get"
          /\ \A u \in Threads : u # t => pc'[u] = pc[u] /\ hand'[u] = hand[u]
      BY <2>0, <2>1, StepAt, HoldsAt DEF DbPop, workVars
    <3>2. CASE Head(dbq) = k
      <4>1. Key(hand'[t]) = k
        BY <3>1, <3>2, KeyedTask
      <4>2. QED
        BY <3>1, <4>1 DEF Underway, Key
    <3>3. CASE Head(dbq) # k
      <4>1. \A i \in 1 .. Len(dbq) : dbq[i] = k => \E j \in 1 .. Len(dbq)' : dbq'[j] = k
        <5> SUFFICES ASSUME NEW i \in 1 .. Len(dbq), dbq[i] = k
                     PROVE  \E j \in 1 .. Len(dbq)' : dbq'[j] = k
          OBVIOUS
        <5>1. /\ Head(dbq) = dbq[1] /\ Len(Tail(dbq)) = Len(dbq) - 1 /\ Len(dbq) \in Nat
              /\ \A j \in 1 .. Len(Tail(dbq)) : Tail(dbq)[j] = dbq[j + 1]
          BY <1>0, <3>1, Popped DEF DbTypes
        <5>2. i # 1
          BY <3>3, <5>1
        <5>3. i - 1 \in 1 .. Len(Tail(dbq)) /\ i = (i - 1) + 1
          BY <5>1, <5>2
        <5>4. Tail(dbq)[i - 1] = dbq[i]
          BY <5>1, <5>3
        <5>5. QED
          BY <3>1, <5>3, <5>4
      <4>2. Underway(k)' \/ pc[t] \in {"get", "query", "guard", "push"}
        BY <1>b, <2>0, <3>1, <4>1, UnderwayElsewhere
      <4>3. QED
        BY <3>1, <4>2
    <3>4. QED
      BY <3>2, <3>3
  <2>2. CASE GetNull(t) \/ WaitFinished(t) \/ Get(t) \/ Query(t)
    <3>1. /\ UNCHANGED <<dbq, workq, task_queue>> /\ pc'[t] \in {"query", "guard", "push"}
          /\ hand'[t] = hand[t]
          /\ \A u \in Threads : u # t => pc'[u] = pc[u] /\ hand'[u] = hand[u]
      BY <2>0, <2>2, StepAt, HoldsAt DEF GetNull, WaitFinished, Get, Query, AddTask, dbVars, workVars
    <3>2. Key(hand[t]) = k => Underway(k)'
      BY <3>1 DEF Underway, Key
    <3>3. QED
      BY <1>1, <2>0, <3>1, <3>2
  <2>3. CASE DbExits(t) \/ DbFinishTask(t)
    <3>1. /\ UNCHANGED <<dbq, workq, task_queue>> /\ pc[t] \notin {"get", "query", "guard", "push"}
          /\ \A u \in Threads : u # t => pc'[u] = pc[u] /\ hand'[u] = hand[u]
      <4>1. CASE DbExits(t)
        BY <2>0, <4>1, StepAt DEF DbExits, dbVars, workVars
      <4>2. CASE DbFinishTask(t)
        <5>1. UNCHANGED <<dbq, workq, task_queue>> /\ Step(t, "finish", "idle") /\ Holds(t, None)
          BY <4>2 DEF DbFinishTask, workVars
        <5>2. QED
          BY <2>0, <5>1, StepAt, HoldsAt
      <4>3. QED
        BY <2>3, <4>1, <4>2
    <3>2. QED
      BY <1>1, <2>0, <3>1
  <2>4. QED
    BY <1>6, <2>1, <2>2, <2>3 DEF Db
<1>7. ASSUME NEW m \in Keys, Settle(m) PROVE Underway(k)'
  <2>1. UNCHANGED <<dbq, workq, task_queue>> /\ "stop" \in Threads
        /\ \A u \in Threads : u # "stop" => pc'[u] = pc[u] /\ hand'[u] = hand[u]
    BY <1>7, StepAt, HoldsAt, Roles DEF Settle, AddTask, dbVars
  <2>2. QED
    BY <1>1, <2>1, Roles
<1>8. CASE TakeAll
  BY <1>8 DEF TakeAll
<1>9. CASE UNCHANGED vars \/ Stop \/ WaitIdle \/ CloseWork \/ CloseDb \/ ClosePool \/ ClearGlobals
  <2>1. UNCHANGED <<dbq, workq, task_queue, pc, hand>>
    BY <1>9 DEF vars, Stop, WaitIdle, CloseWork, CloseDb, ClosePool, ClearGlobals, dbVars, workVars, runVars
  <2>2. QED
    BY <1>b, <2>1 DEF Underway, Key
<1>10. QED
  BY <1>2, <1>3, <1>4, <1>5, <1>6, <1>7, <1>8, <1>9 DEF Next, Stopping

(* A suspended coroutine is never forgotten while the pools are open: from *)
(* await_suspend to on_event its query is always in exactly the hands or   *)
(* queues that lead to its resume, for any number of queries and threads.  *)
THEOREM SuspendedIsNotForgotten == Spec => []SuspendedIsAnswered
<1>1. Init => SuspendedIsAnswered
  BY DEF Init, SuspendedIsAnswered
<1>2. QED
  BY <1>1, HandsHold, UnderwayStep, PTL DEF Spec

---------------------------------------------------------------------------
(* What the steps do to the businesses, the coroutines waiting and the     *)
(* work queue.  Most steps only move one thread (Quiet); the others have a *)
(* lemma each.                                                             *)
keyVars == <<started, asked, resumed, workq, task_queue, held, settling, unguarded>>

Alone(t) == \A u \in Threads : u # t => pc'[u] = pc[u] /\ hand'[u] = hand[u]

AtWork == {"run", "submit", "dbpush", "leave"}

\* A query enters the database queue at most.
Quiet(t) ==
  /\ UNCHANGED keyVars /\ Alone(t)
  /\ dbq' = dbq \/ (t \in Workers /\ pc[t] = "dbpush" /\ dbq' = Append(dbq, Key(hand[t])))
  /\ pc'[t] \in Holding => pc[t] \in Holding /\ hand'[t] = hand[t]
  /\ pc'[t] = "push" => t \in DbWorkers /\ hand[t].kind = "event" /\ Key(hand[t]) \notin held
  /\ pc'[t] \in AtWork => pc[t] \in AtWork
  /\ pc'[t] # "event"

LEMMA WorkQuietly ==
  ASSUME PoolInv, HandInv, NEW t \in Workers,
         \/ WorkExits(t) \/ Submit(t) \/ SubmitOk(t) \/ SubmitClosed(t) \/ Ends(t)
         \/ OnEventTooLate(t) \/ FinishTask(t)
  PROVE  Quiet(t)
<1>0. t \in Threads
  BY Roles
<1>1. CASE WorkExits(t)
  <2>1. UNCHANGED <<keyVars, dbq, hand>> /\ Step(t, "idle", "exited")
    BY <1>1 DEF WorkExits, keyVars, bizVars, workVars, boxVars, dbVars, stopVars
  <2>2. QED
    BY <1>0, <2>1, StepAt DEF Quiet, Alone, Holding, Keyed, AtWork
<1>2. CASE Submit(t)
  <2>1. UNCHANGED <<keyVars, dbq, hand>> /\ Step(t, "submit", "dbpush")
    BY <1>2 DEF Submit, keyVars, bizVars, workVars, boxVars, stopVars
  <2>2. QED
    BY <1>0, <2>1, StepAt DEF Quiet, Alone, Holding, Keyed, AtWork
<1>3. CASE SubmitOk(t)
  <2>1. UNCHANGED <<keyVars, hand>> /\ Step(t, "dbpush", "leave") /\ dbq' = Append(dbq, Key(hand[t]))
    BY <1>3 DEF SubmitOk, keyVars, bizVars, workVars, boxVars, stopVars
  <2>2. QED
    BY <1>0, <2>1, StepAt DEF Quiet, Alone, Holding, Keyed, AtWork
<1>4. CASE SubmitClosed(t)
  <2>1. UNCHANGED <<keyVars, dbq, hand>> /\ Step(t, "dbpush", "leave")
    BY <1>4 DEF SubmitClosed, keyVars, bizVars, workVars, boxVars
  <2>2. QED
    BY <1>0, <2>1, StepAt DEF Quiet, Alone, Holding, Keyed, AtWork
<1>5. CASE Ends(t)
  <2>1. UNCHANGED <<keyVars, dbq, hand>> /\ Step(t, "run", "finish")
    BY <1>5 DEF Ends, keyVars, workVars, boxVars, dbVars, stopVars
  <2>2. QED
    BY <1>0, <2>1, StepAt DEF Quiet, Alone, Holding, Keyed, AtWork
<1>6. CASE OnEventTooLate(t)
  <2>1. UNCHANGED <<keyVars, dbq, hand>> /\ Step(t, "event", "finish")
    BY <1>6 DEF OnEventTooLate, keyVars, bizVars, workVars, boxVars, dbVars, stopVars
  <2>2. QED
    BY <1>0, <2>1, StepAt DEF Quiet, Alone, Holding, Keyed, AtWork
<1>7. CASE FinishTask(t)
  <2>1. UNCHANGED <<keyVars, dbq>> /\ Step(t, "finish", "idle") /\ Holds(t, None)
    BY <1>7 DEF FinishTask, keyVars, bizVars, boxVars, dbVars
  <2>2. QED
    BY <1>0, <2>1, StepAt, HoldsAt DEF Quiet, Alone, Holding, Keyed, AtWork
<1>8. QED
  BY <1>1, <1>2, <1>3, <1>4, <1>5, <1>6, <1>7

LEMMA DbQuietly ==
  ASSUME PoolInv, HandInv, NEW t \in DbWorkers,
         DbExits(t) \/ Get(t) \/ Query(t) \/ WaitFinished(t) \/ DbFinishTask(t)
  PROVE  Quiet(t)
<1>0. t \in Threads
  BY Roles
<1>1. CASE DbExits(t)
  <2>1. UNCHANGED <<keyVars, dbq, hand>> /\ Step(t, "idle", "exited")
    BY <1>1 DEF DbExits, keyVars, bizVars, workVars, boxVars, dbVars, stopVars
  <2>2. QED
    BY <1>0, <2>1, StepAt DEF Quiet, Alone, Holding, Keyed, AtWork
<1>2. CASE Get(t)
  <2>1. UNCHANGED <<keyVars, dbq, hand>> /\ Step(t, "get", "query")
    BY <1>2 DEF Get, keyVars, bizVars, workVars, boxVars, stopVars
  <2>2. QED
    BY <1>0, <2>1, StepAt DEF Quiet, Alone, Holding, Keyed, AtWork
<1>3. CASE Query(t)
  <2>1. UNCHANGED <<keyVars, dbq, hand>> /\ Step(t, "query", "guard")
    BY <1>3 DEF Query, keyVars, bizVars, workVars, stopVars
  <2>2. QED
    BY <1>0, <2>1, StepAt DEF Quiet, Alone, Holding, Keyed, AtWork
<1>4. CASE WaitFinished(t)
  <2>1. UNCHANGED <<keyVars, dbq>> /\ Step(t, "guard", "push") /\ Holds(t, hand[t])
        /\ Key(hand[t]) \notin held
    BY <1>4 DEF WaitFinished, AddTask, keyVars, bizVars, boxVars, dbVars, stopVars
  <2>2. pc[t] = "guard" /\ pc'[t] = "push" /\ hand'[t] = hand[t] /\ Alone(t)
    BY <1>0, <2>1, StepAt, HoldsAt DEF Alone
  <2>3. hand[t].kind = "event"
    BY <1>0, <2>2 DEF HandInv, Fits
  <2>4. QED
    BY <2>1, <2>2, <2>3 DEF Quiet, Holding, Keyed, AtWork
<1>5. CASE DbFinishTask(t)
  <2>1. UNCHANGED <<keyVars, dbq>> /\ Step(t, "finish", "idle") /\ Holds(t, None)
    BY <1>5 DEF DbFinishTask, keyVars, bizVars, workVars, boxVars
  <2>2. QED
    BY <1>0, <2>1, StepAt, HoldsAt DEF Quiet, Alone, Holding, Keyed, AtWork
<1>6. QED
  BY <1>1, <1>2, <1>3, <1>4, <1>5

LEMMA RefusedQuietly ==
  ASSUME PoolInv, NEW t \in Threads, PushClosed(t)
  PROVE  Quiet(t)
<1>1. UNCHANGED <<keyVars, dbq>> /\ Step(t, "push", AfterPush(t)) /\ Holds(t, None)
  BY DEF PushClosed, keyVars, bizVars, boxVars, dbVars
<1>2. AfterPush(t) \in {"idle", "finish"}
  BY DEF AfterPush
<1>3. pc'[t] = AfterPush(t) /\ Alone(t)
  BY <1>1, StepAt, HoldsAt DEF Alone
<1>4. QED
  BY <1>1, <1>2, <1>3 DEF Quiet, Holding, Keyed, AtWork

LEMMA StepKinds ==
  ASSUME PoolInv, HandInv, [Next]_vars
  PROVE  \/ \E b \in Businesses : OnWork(b)
         \/ \E t \in Threads : PushOk(t) \/ Quiet(t)
         \/ \E t \in Workers : WorkPop(t) \/ AwaitSuspend(t) \/ AwaitReady(t) \/ Leave(t) \/ OnEvent(t)
         \/ \E t \in DbWorkers : DbPop(t) \/ GetNull(t)
         \/ TakeAll \/ \E k \in Keys : Settle(k)
         \/ UNCHANGED <<keyVars, pc, hand, dbq>>
<1>1. ASSUME NEW t \in Workers, Work(t)
      PROVE  WorkPop(t) \/ AwaitSuspend(t) \/ AwaitReady(t) \/ Leave(t) \/ OnEvent(t) \/ Quiet(t)
  BY <1>1, WorkQuietly DEF Work
<1>2. ASSUME NEW t \in DbWorkers, Db(t) PROVE DbPop(t) \/ GetNull(t) \/ Quiet(t)
  BY <1>2, DbQuietly DEF Db
<1>3. ASSUME NEW t \in Threads, PushOk(t) \/ PushClosed(t) PROVE PushOk(t) \/ Quiet(t)
  BY <1>3, RefusedQuietly
<1>4. ASSUME Stop \/ CloseWork \/ CloseDb \/ ClosePool \/ ClearGlobals
      PROVE  UNCHANGED <<keyVars, pc, hand, dbq>>
  <2>1. CASE Stop
    BY <2>1 DEF Stop, keyVars, bizVars, workVars, boxVars, dbVars, runVars
  <2>2. CASE CloseWork
    BY <2>2 DEF CloseWork, keyVars, bizVars, boxVars, dbVars, runVars
  <2>3. CASE CloseDb
    BY <2>3 DEF CloseDb, keyVars, bizVars, workVars, boxVars, runVars
  <2>4. CASE ClosePool
    BY <2>4 DEF ClosePool, keyVars, bizVars, workVars, boxVars, runVars
  <2>5. CASE ClearGlobals
    BY <2>5 DEF ClearGlobals, keyVars, bizVars, workVars, boxVars, dbVars, runVars
  <2>6. QED
    BY <1>4, <2>1, <2>2, <2>3, <2>4, <2>5
<1>5. ASSUME WaitIdle \/ UNCHANGED vars PROVE UNCHANGED <<keyVars, pc, hand, dbq>>
  <2>1. UNCHANGED <<bizVars, workVars, boxVars, dbVars, runVars, settling, unguarded>>
    <3>1. CASE WaitIdle
      BY <3>1 DEF WaitIdle
    <3>2. CASE UNCHANGED vars
      BY <3>2 DEF vars, stopVars
    <3>3. QED
      BY <1>5, <3>1, <3>2
  <2>2. QED
    BY <2>1 DEF keyVars, bizVars, workVars, boxVars, dbVars, runVars
<1>6. Workers \subseteq Threads /\ DbWorkers \subseteq Threads
  BY Roles
<1>7. QED
  BY <1>1, <1>2, <1>3, <1>4, <1>5, <1>6 DEF Next, Stopping

LEMMA OnWorkDoes ==
  ASSUME PoolInv, NEW b \in Businesses, OnWork(b)
  PROVE  /\ b \notin started /\ started' = started \union {b}
         /\ UNCHANGED <<asked, resumed, workq, task_queue, held, settling, unguarded, dbq>>
         /\ "parse" \in Threads /\ Alone("parse") /\ pc["parse"] = "idle" /\ pc'["parse"] = "push"
         /\ hand'["parse"] = [kind |-> "start", b |-> b, n |-> 0]
  BY StepAt, HoldsAt, Roles DEF OnWork, AddTask, Alone, boxVars, dbVars, stopVars

LEMMA PushOkDoes ==
  ASSUME PoolInv, NEW t \in Threads, PushOk(t)
  PROVE  /\ UNCHANGED <<started, asked, resumed, task_queue, held, settling, unguarded, dbq>>
         /\ Alone(t) /\ pc[t] = "push" /\ pc'[t] \in {"idle", "finish"}
         /\ hand[t] \in GoodTasks /\ workq' = Append(workq, hand[t])
<1>1. /\ UNCHANGED <<started, asked, resumed, task_queue, held, settling, unguarded, dbq>>
      /\ workq' = Append(workq, hand[t])
  BY DEF PushOk, bizVars, boxVars, dbVars, stopVars
<1>2. Alone(t) /\ pc[t] = "push" /\ pc'[t] = AfterPush(t)
  BY StepAt, HoldsAt DEF PushOk, Alone
<1>3. hand[t] \in GoodTasks
  BY <1>2 DEF PoolInv, ThreadTypes, Holding
<1>4. QED
  BY <1>1, <1>2, <1>3 DEF AfterPush

LEMMA WorkPopDoes ==
  ASSUME PoolInv, NEW t \in Workers, WorkPop(t)
  PROVE  /\ UNCHANGED <<started, asked, task_queue, held, settling, unguarded, dbq>>
         /\ t \in Threads /\ Alone(t) /\ pc[t] = "idle" /\ hand'[t] = Head(workq)
         /\ pc'[t] = (IF Head(workq).kind = "event" THEN "event" ELSE "run")
         /\ workq # << >> /\ workq' = Tail(workq) /\ Head(workq) \in GoodTasks
         /\ resumed' = IF Head(workq).kind = "resume"
                       THEN [resumed EXCEPT ![Key(Head(workq))] = @ + 1] ELSE resumed
<1>1. /\ UNCHANGED <<started, asked, task_queue, held, settling, unguarded, dbq>>
      /\ workq # << >> /\ workq' = Tail(workq)
      /\ resumed' = IF Head(workq).kind = "resume"
                    THEN [resumed EXCEPT ![Key(Head(workq))] = @ + 1] ELSE resumed
  BY DEF WorkPop, boxVars, dbVars, stopVars
<1>2. /\ t \in Threads /\ Alone(t) /\ pc[t] = "idle" /\ hand'[t] = Head(workq)
      /\ pc'[t] = (IF Head(workq).kind = "event" THEN "event" ELSE "run")
  BY StepAt, HoldsAt, Roles DEF WorkPop, Alone
<1>3. Head(workq) \in GoodTasks
  BY <1>1, Popped DEF PoolInv, WorkTypes
<1>4. QED
  BY <1>1, <1>2, <1>3

LEMMA AwaitSuspendDoes ==
  ASSUME PoolInv, NEW t \in Workers, AwaitSuspend(t), NEW m, m = <<hand[t].b, asked[hand[t].b] + 1>>
  PROVE  /\ UNCHANGED <<started, resumed, workq, settling, unguarded, dbq>>
         /\ t \in Threads /\ Alone(t) /\ pc[t] = "run" /\ pc'[t] = "submit"
         /\ hand[t].b \in Businesses /\ m \in Keys /\ hand'[t] = Task("resume", m)
         /\ asked' = [asked EXCEPT ![hand[t].b] = @ + 1]
         /\ task_queue' = task_queue \union {m} /\ held' = held \union {m}
<1>1. /\ UNCHANGED <<started, resumed, workq, settling, unguarded, dbq>>
      /\ m \in Keys /\ asked' = [asked EXCEPT ![hand[t].b] = @ + 1]
      /\ task_queue' = task_queue \union {m} /\ held' = held \union {m}
  BY DEF AwaitSuspend, dbVars, stopVars
<1>2. /\ t \in Threads /\ Alone(t) /\ pc[t] = "run" /\ pc'[t] = "submit" /\ hand'[t] = Task("resume", m)
  BY StepAt, HoldsAt, Roles DEF AwaitSuspend, Alone
<1>3. hand[t].b \in Businesses
  BY <1>2 DEF PoolInv, ThreadTypes, Holding, GoodTasks, Tasks
<1>4. QED
  BY <1>1, <1>2, <1>3

LEMMA AwaitReadyDoes ==
  ASSUME PoolInv, NEW t \in Workers, AwaitReady(t)
  PROVE  /\ UNCHANGED <<started, resumed, workq, task_queue, held, settling, unguarded, dbq, pc, hand>>
         /\ hand[t].b \in Businesses /\ asked' = [asked EXCEPT ![hand[t].b] = @ + 1]
<1>1. pc[t] = "run" /\ t \in Threads
  BY Roles DEF AwaitReady
<1>2. hand[t].b \in Businesses
  BY <1>1 DEF PoolInv, ThreadTypes, Holding, GoodTasks, Tasks
<1>3. QED
  BY <1>2 DEF AwaitReady, workVars, dbVars, runVars, stopVars

LEMMA LeaveDoes ==
  ASSUME PoolInv, NEW t \in Workers, Leave(t)
  PROVE  /\ UNCHANGED <<started, asked, resumed, workq, task_queue, settling, unguarded, dbq>>
         /\ t \in Threads /\ Alone(t) /\ pc[t] = "leave" /\ pc'[t] = "finish"
         /\ hand[t] \in GoodTasks /\ Key(hand[t]) \in Keys
         /\ held' = held \ {Key(hand[t])}
<1>1. /\ UNCHANGED <<started, asked, resumed, workq, task_queue, settling, unguarded, dbq, hand>>
      /\ held' = held \ {Key(hand[t])} /\ Step(t, "leave", "finish")
  BY DEF Leave, bizVars, workVars, dbVars, stopVars
<1>2. t \in Threads /\ Alone(t) /\ pc[t] = "leave" /\ pc'[t] = "finish"
  BY <1>1, StepAt, Roles DEF Alone
<1>3. hand[t] \in GoodTasks /\ hand[t].kind # "start"
  BY <1>2 DEF PoolInv, ThreadTypes, Holding, Keyed
<1>4. QED
  BY <1>1, <1>2, <1>3, HasKey

LEMMA OnEventDoes ==
  ASSUME PoolInv, HandInv, NEW t \in Workers, OnEvent(t)
  PROVE  /\ UNCHANGED <<started, asked, resumed, workq, held, settling, unguarded, dbq>>
         /\ t \in Threads /\ Alone(t) /\ pc[t] = "event" /\ pc'[t] = "push"
         /\ hand[t].kind = "event" /\ Key(hand[t]) \in task_queue /\ Key(hand[t]) \in Keys
         /\ hand'[t] = Task("resume", Key(hand[t]))
         /\ task_queue' = task_queue \ {Key(hand[t])}
<1>1. /\ UNCHANGED <<started, asked, resumed, workq, held, settling, unguarded, dbq>>
      /\ Key(hand[t]) \in task_queue /\ task_queue' = task_queue \ {Key(hand[t])}
  BY DEF OnEvent, bizVars, boxVars, dbVars, stopVars
<1>2. /\ t \in Threads /\ Alone(t) /\ pc[t] = "event" /\ pc'[t] = "push"
      /\ hand'[t] = Task("resume", Key(hand[t]))
  BY StepAt, HoldsAt, Roles DEF OnEvent, AddTask, Alone
<1>3. hand[t].kind = "event"
  BY <1>2 DEF HandInv, Fits
<1>4. QED
  BY <1>1, <1>2, <1>3 DEF PoolInv, WorkTypes

LEMMA DbPopDoes ==
  ASSUME PoolInv, NEW t \in DbWorkers, DbPop(t)
  PROVE  /\ UNCHANGED <<started, asked, resumed, workq, task_queue, held, settling, unguarded>>
         /\ t \in Threads /\ Alone(t) /\ pc[t] = "idle" /\ pc'[t] = "get"
         /\ dbq # << >> /\ dbq' = Tail(dbq) /\ Head(dbq) \in Keys /\ hand'[t] = Task("event", Head(dbq))
<1>1. /\ UNCHANGED <<started, asked, resumed, workq, task_queue, held, settling, unguarded>>
      /\ dbq # << >> /\ dbq' = Tail(dbq)
  BY DEF DbPop, bizVars, workVars, boxVars, stopVars
<1>2. t \in Threads /\ Alone(t) /\ pc[t] = "idle" /\ pc'[t] = "get" /\ hand'[t] = Task("event", Head(dbq))
  BY StepAt, HoldsAt, Roles DEF DbPop, Alone
<1>3. Head(dbq) \in Keys
  BY <1>1, Popped DEF PoolInv, DbTypes
<1>4. QED
  BY <1>1, <1>2, <1>3

LEMMA GetNullDoes ==
  ASSUME PoolInv, HandInv, NEW t \in DbWorkers, GetNull(t)
  PROVE  /\ UNCHANGED <<started, asked, resumed, workq, task_queue, held, settling, dbq>>
         /\ t \in Threads /\ Alone(t) /\ pc[t] = "get" /\ pc'[t] = "push" /\ hand'[t] = hand[t]
         /\ hand[t].kind = "event" /\ hand[t] \in GoodTasks
         /\ unguarded' = unguarded \union ({Key(hand[t])} \intersect held)
<1>1. /\ UNCHANGED <<started, asked, resumed, workq, task_queue, held, settling, dbq>>
      /\ unguarded' = unguarded \union ({Key(hand[t])} \intersect held)
  BY DEF GetNull, bizVars, dbVars
<1>2. t \in Threads /\ Alone(t) /\ pc[t] = "get" /\ pc'[t] = "push" /\ hand'[t] = hand[t]
  BY StepAt, HoldsAt, Roles DEF GetNull, AddTask, Alone
<1>3. hand[t].kind = "event" /\ hand[t] \in GoodTasks
  BY <1>2 DEF HandInv, Fits, PoolInv, ThreadTypes, Holding, Keyed
<1>4. QED
  BY <1>1, <1>2, <1>3

LEMMA TakeAllDoes ==
  ASSUME PoolInv, TakeAll
  PROVE  /\ UNCHANGED <<started, asked, resumed, workq, held, dbq, pc, hand>>
         /\ settling' = task_queue /\ task_queue' = {}
         /\ unguarded' = unguarded \union (task_queue \intersect held)
  BY DEF TakeAll, bizVars, boxVars, dbVars, runVars

LEMMA SettleDoes ==
  ASSUME PoolInv, NEW k \in Keys, Settle(k)
  PROVE  /\ UNCHANGED <<started, asked, resumed, workq, task_queue, held, unguarded, dbq>>
         /\ k \in settling /\ settling' = settling \ {k}
         /\ "stop" \in Threads /\ Alone("stop") /\ pc["stop"] = "idle" /\ pc'["stop"] = "push"
         /\ hand'["stop"] = Task("resume", k)
<1>1. /\ UNCHANGED <<started, asked, resumed, workq, task_queue, held, unguarded, dbq>>
      /\ k \in settling /\ settling' = settling \ {k}
  BY DEF Settle, bizVars, dbVars
<1>2. /\ "stop" \in Threads /\ Alone("stop") /\ pc["stop"] = "idle" /\ pc'["stop"] = "push"
      /\ hand'["stop"] = Task("resume", k)
  BY StepAt, HoldsAt, Roles DEF Settle, AddTask, Alone
<1>3. QED
  BY <1>1, <1>2

---------------------------------------------------------------------------
(* Every task and key anywhere is of a started business and of a query it  *)
(* has made: the next query's key is new everywhere.                       *)
Known(k) == k[1] \in started /\ k[2] <= asked[k[1]]
KnownTask(task) == task.b \in started /\ (task.kind # "start" => Known(Key(task)))
WillKnow(k)     == k[1] \in started' /\ k[2] <= asked'[k[1]]
WillKnowTask(task) == task.b \in started' /\ (task.kind # "start" => WillKnow(Key(task)))
KnownInv ==
  /\ \A i \in 1 .. Len(workq) : KnownTask(workq[i])
  /\ \A t \in Threads : pc[t] \in Holding => KnownTask(hand[t])
  /\ \A i \in 1 .. Len(dbq) : Known(dbq[i])
  /\ \A k \in task_queue \union settling \union held : Known(k)
  /\ \A k \in Keys : resumed[k] # 0 => Known(k)

LEMMA KeyParts ==
  ASSUME NEW k \in Keys
  PROVE  k = <<k[1], k[2]>> /\ k[1] \in Businesses /\ k[2] \in Nat \ {0}
  BY PoolAssumption DEF Keys

LEMMA TaskKnown ==
  ASSUME NEW kind \in {"resume", "event"}, NEW k \in Keys
  PROVE  (KnownTask(Task(kind, k)) <=> Known(k)) /\ (WillKnowTask(Task(kind, k)) <=> WillKnow(k))
<1>1. Task(kind, k).b = k[1] /\ Task(kind, k).kind # "start" /\ Key(Task(kind, k)) = k
  BY KeyedTask DEF Task
<1>2. QED
  BY <1>1 DEF KnownTask, Known, WillKnowTask, WillKnow

\* What a step keeps known when businesses start and ask.
LEMMA StaysKnown ==
  ASSUME PoolInv, started \subseteq started',
         asked' = asked \/ \E b \in Businesses : asked' = [asked EXCEPT ![b] = @ + 1]
  PROVE  /\ \A k \in Keys : Known(k) => WillKnow(k)
         /\ \A task \in GoodTasks : KnownTask(task) => WillKnowTask(task)
<1>1. \A b \in Businesses : asked[b] \in Nat /\ asked'[b] \in Nat /\ asked[b] <= asked'[b]
  BY DEF PoolInv, BizTypes
<1>2. ASSUME NEW k \in Keys, Known(k) PROVE WillKnow(k)
  BY <1>1, <1>2, KeyParts DEF Known, WillKnow
<1>3. ASSUME NEW task \in GoodTasks, KnownTask(task) PROVE WillKnowTask(task)
  <2>1. task.b \in started'
    BY <1>3 DEF KnownTask
  <2>2. task.kind # "start" => WillKnow(Key(task))
    BY <1>2, <1>3, HasKey DEF KnownTask
  <2>3. QED
    BY <2>1, <2>2 DEF WillKnowTask
<1>4. QED
  BY <1>2, <1>3

\* Only what is known already, or the thread that steps knows, gets anywhere.
LEMMA KnownAfter ==
  ASSUME PoolInv, KnownInv, NEW t \in Threads, Alone(t),
         \A k \in Keys : Known(k) => WillKnow(k),
         \A task \in GoodTasks : KnownTask(task) => WillKnowTask(task),
         pc'[t] \in Holding => WillKnowTask(hand'[t]),
         \A i \in 1 .. Len(workq)' : WillKnowTask(workq'[i]) \/ \E j \in 1 .. Len(workq) : workq'[i] = workq[j],
         \A i \in 1 .. Len(dbq)' : WillKnow(dbq'[i]) \/ \E j \in 1 .. Len(dbq) : dbq'[i] = dbq[j],
         \A k \in (task_queue \union settling \union held)' :
           WillKnow(k) \/ k \in task_queue \union settling \union held,
         \A k \in Keys : resumed'[k] # 0 => WillKnow(k) \/ resumed[k] # 0
  PROVE  KnownInv'
<1>0. WorkTypes /\ DbTypes /\ BoxTypes /\ StopTypes /\ ThreadTypes
  BY DEF PoolInv
<1>1. ASSUME NEW i \in 1 .. Len(workq)' PROVE WillKnowTask(workq'[i])
  <2>1. ASSUME NEW j \in 1 .. Len(workq), workq'[i] = workq[j] PROVE WillKnowTask(workq'[i])
    <3>1. workq[j] \in GoodTasks /\ KnownTask(workq[j])
      BY <1>0, ElementOfSeq DEF KnownInv, WorkTypes
    <3>2. QED
      BY <2>1, <3>1
  <2>2. QED
    BY <2>1
<1>2. ASSUME NEW u \in Threads, pc'[u] \in Holding PROVE WillKnowTask(hand'[u])
  <2>1. CASE u = t
    BY <1>2, <2>1
  <2>2. CASE u # t
    <3>1. pc[u] \in Holding /\ hand'[u] = hand[u]
      BY <1>2, <2>2 DEF Alone
    <3>2. hand[u] \in GoodTasks /\ KnownTask(hand[u])
      BY <1>0, <3>1 DEF KnownInv, ThreadTypes
    <3>3. QED
      BY <3>1, <3>2
  <2>3. QED
    BY <2>1, <2>2
<1>3. ASSUME NEW i \in 1 .. Len(dbq)' PROVE WillKnow(dbq'[i])
  <2>1. ASSUME NEW j \in 1 .. Len(dbq), dbq'[i] = dbq[j] PROVE WillKnow(dbq'[i])
    <3>1. dbq[j] \in Keys /\ Known(dbq[j])
      BY <1>0, ElementOfSeq DEF KnownInv, DbTypes
    <3>2. QED
      BY <2>1, <3>1
  <2>2. QED
    BY <2>1
<1>4. ASSUME NEW k \in (task_queue \union settling \union held)' PROVE WillKnow(k)
  <2>1. task_queue \union settling \union held \subseteq Keys
    BY <1>0 DEF WorkTypes, BoxTypes, StopTypes
  <2>2. QED
    BY <1>4, <2>1 DEF KnownInv
<1>5. ASSUME NEW k \in Keys, resumed'[k] # 0 PROVE WillKnow(k)
  BY <1>5 DEF KnownInv
<1>6. QED
  BY <1>1, <1>2, <1>3, <1>4, <1>5 DEF KnownInv, KnownTask, Known, WillKnowTask, WillKnow

LEMMA KnownStep == PoolInv /\ HandInv /\ KnownInv /\ [Next]_vars => KnownInv'
<1> SUFFICES ASSUME PoolInv, HandInv, KnownInv, [Next]_vars PROVE KnownInv'
  OBVIOUS
<1>0. WorkTypes /\ DbTypes /\ ThreadTypes
  BY DEF PoolInv
<1>a. \A t \in Threads : pc[t] \in Holding => KnownTask(hand[t])
  BY DEF KnownInv
\* Nothing asked.
<1>s. ASSUME UNCHANGED <<started, asked>>
      PROVE  /\ \A k \in Keys : Known(k) => WillKnow(k)
             /\ \A task \in GoodTasks : KnownTask(task) => WillKnowTask(task)
  BY <1>s, StaysKnown
<1>1. ASSUME NEW b \in Businesses, OnWork(b) PROVE KnownInv'
  <2>1. /\ \A k \in Keys : Known(k) => WillKnow(k)
        /\ \A task \in GoodTasks : KnownTask(task) => WillKnowTask(task)
    BY <1>1, OnWorkDoes, StaysKnown
  <2>2. WillKnowTask(hand'["parse"])
    <3>1. b \in started' /\ hand'["parse"] = [kind |-> "start", b |-> b, n |-> 0]
      BY <1>1, OnWorkDoes
    <3>2. hand'["parse"].b = b /\ hand'["parse"].kind = "start"
      BY <3>1
    <3>3. QED
      BY <3>1, <3>2 DEF WillKnowTask
  <2>3. /\ "parse" \in Threads /\ Alone("parse")
        /\ UNCHANGED <<resumed, workq, task_queue, held, settling, dbq>>
    BY <1>1, OnWorkDoes
  <2>4. QED
    BY <2>1, <2>2, <2>3, KnownAfter
<1>2. ASSUME NEW t \in Threads, PushOk(t) PROVE KnownInv'
  <2>1. /\ UNCHANGED <<started, asked, resumed, task_queue, held, settling, dbq>>
        /\ Alone(t) /\ pc[t] = "push" /\ pc'[t] \notin Holding
        /\ hand[t] \in GoodTasks /\ workq' = Append(workq, hand[t])
    BY <1>2, PushOkDoes DEF Holding, Keyed
  <2>2. WillKnowTask(hand[t])
    BY <1>a, <1>s, <2>1 DEF Holding
  <2>3. ASSUME NEW i \in 1 .. Len(workq)'
        PROVE  WillKnowTask(workq'[i]) \/ \E j \in 1 .. Len(workq) : workq'[i] = workq[j]
    <3>1. /\ workq'[Len(workq) + 1] = hand[t] /\ \A j \in 1 .. Len(workq) : workq'[j] = workq[j]
          /\ i \in 1 .. Len(workq) \/ i = Len(workq) + 1
      BY <1>0, <2>1, Appended DEF WorkTypes
    <3>2. QED
      BY <2>2, <3>1
  <2>4. QED
    BY <1>s, <2>1, <2>3, KnownAfter
<1>3. ASSUME NEW t \in Threads, Quiet(t) PROVE KnownInv'
  <2>1. /\ UNCHANGED <<started, asked, resumed, workq, task_queue, held, settling>> /\ Alone(t)
        /\ dbq' = dbq \/ (t \in Workers /\ pc[t] = "dbpush" /\ dbq' = Append(dbq, Key(hand[t])))
        /\ pc'[t] \in Holding => pc[t] \in Holding /\ hand'[t] = hand[t]
    BY <1>3 DEF Quiet, keyVars
  <2>2. pc'[t] \in Holding => WillKnowTask(hand'[t])
    <3>1. SUFFICES ASSUME pc'[t] \in Holding PROVE WillKnowTask(hand'[t])
      OBVIOUS
    <3>2. hand'[t] = hand[t] /\ KnownTask(hand[t]) /\ hand[t] \in GoodTasks
      BY <1>0, <1>a, <2>1, <3>1 DEF ThreadTypes
    <3>3. QED
      BY <1>s, <2>1, <3>2
  <2>3. ASSUME NEW i \in 1 .. Len(dbq)'
        PROVE  WillKnow(dbq'[i]) \/ \E j \in 1 .. Len(dbq) : dbq'[i] = dbq[j]
    <3>1. CASE dbq' = dbq
      BY <3>1
    <3>2. CASE pc[t] = "dbpush" /\ dbq' = Append(dbq, Key(hand[t]))
      <4>1. hand[t] \in GoodTasks /\ hand[t].kind # "start" /\ Key(hand[t]) \in Keys /\ KnownTask(hand[t])
        BY <1>0, <1>a, <3>2, HasKey DEF ThreadTypes, Holding, Keyed
      <4>2. WillKnow(Key(hand[t]))
        BY <1>s, <2>1, <4>1 DEF KnownTask
      <4>3. /\ dbq'[Len(dbq) + 1] = Key(hand[t]) /\ \A j \in 1 .. Len(dbq) : dbq'[j] = dbq[j]
            /\ i \in 1 .. Len(dbq) \/ i = Len(dbq) + 1
        BY <1>0, <3>2, <4>1, Appended DEF DbTypes
      <4>4. QED
        BY <4>2, <4>3
    <3>3. QED
      BY <2>1, <3>1, <3>2
  <2>4. QED
    BY <1>s, <2>1, <2>2, <2>3, KnownAfter
<1>4. ASSUME NEW t \in Workers, WorkPop(t) PROVE KnownInv'
  <2>1. /\ UNCHANGED <<started, asked, task_queue, held, settling, dbq>>
        /\ t \in Threads /\ Alone(t) /\ hand'[t] = Head(workq)
        /\ workq # << >> /\ workq' = Tail(workq) /\ Head(workq) \in GoodTasks
        /\ resumed' = IF Head(workq).kind = "resume"
                      THEN [resumed EXCEPT ![Key(Head(workq))] = @ + 1] ELSE resumed
    BY <1>4, WorkPopDoes
  <2>2. /\ Head(workq) = workq[1] /\ 1 \in 1 .. Len(workq)
        /\ \A i \in 1 .. Len(workq)' : i + 1 \in 1 .. Len(workq) /\ workq'[i] = workq[i + 1]
    BY <1>0, <2>1, Popped DEF WorkTypes
  <2>3. KnownTask(Head(workq)) /\ WillKnowTask(Head(workq))
    BY <1>s, <2>1, <2>2 DEF KnownInv
  <2>4. WillKnowTask(hand'[t])
    BY <2>1, <2>3
  <2>5. \A i \in 1 .. Len(workq)' : \E j \in 1 .. Len(workq) : workq'[i] = workq[j]
    BY <2>2
  <2>6. ASSUME NEW k \in Keys, resumed'[k] # 0 PROVE WillKnow(k) \/ resumed[k] # 0
    <3>1. CASE Head(workq).kind = "resume" /\ k = Key(Head(workq))
      BY <2>3, <3>1 DEF WillKnowTask
    <3>2. CASE ~(Head(workq).kind = "resume" /\ k = Key(Head(workq)))
      BY <2>1, <2>6, <3>2 DEF PoolInv, BizTypes
    <3>3. QED
      BY <3>1, <3>2
  <2>7. QED
    BY <1>s, <2>1, <2>4, <2>5, <2>6, KnownAfter
<1>5. ASSUME NEW t \in Workers, AwaitSuspend(t) PROVE KnownInv'
  <2> DEFINE m == <<hand[t].b, asked[hand[t].b] + 1>>
  <2>1. /\ UNCHANGED <<started, resumed, workq, settling, dbq>>
        /\ t \in Threads /\ Alone(t) /\ pc[t] = "run"
        /\ hand[t].b \in Businesses /\ m \in Keys /\ hand'[t] = Task("resume", m)
        /\ asked' = [asked EXCEPT ![hand[t].b] = @ + 1]
        /\ task_queue' = task_queue \union {m} /\ held' = held \union {m}
    BY <1>5, AwaitSuspendDoes
  <2>2. /\ \A k \in Keys : Known(k) => WillKnow(k)
        /\ \A task \in GoodTasks : KnownTask(task) => WillKnowTask(task)
    BY <2>1, StaysKnown
  <2>3. WillKnow(m)
    <3>1. hand[t].b \in started
      BY <1>a, <2>1 DEF KnownTask, Holding
    <3>2. asked[hand[t].b] \in Nat /\ asked'[hand[t].b] = asked[hand[t].b] + 1
      BY <2>1 DEF PoolInv, BizTypes
    <3>3. QED
      BY <2>1, <3>1, <3>2 DEF WillKnow
  <2> HIDE DEF m
  <2>4. WillKnowTask(hand'[t])
    BY <2>1, <2>3, TaskKnown
  <2>5. \A k \in (task_queue \union settling \union held)' :
          WillKnow(k) \/ k \in task_queue \union settling \union held
    BY <2>1, <2>3
  <2>6. UNCHANGED <<resumed, workq, dbq>> /\ t \in Threads /\ Alone(t)
    BY <2>1
  <2>7. QED
    BY <2>2, <2>4, <2>5, <2>6, KnownAfter
<1>6. ASSUME NEW t \in Workers, AwaitReady(t) PROVE KnownInv'
  <2>1. /\ UNCHANGED <<started, resumed, workq, task_queue, held, settling, dbq, pc, hand>>
        /\ hand[t].b \in Businesses /\ asked' = [asked EXCEPT ![hand[t].b] = @ + 1]
        /\ pc[t] = "run" /\ t \in Threads
    BY <1>6, AwaitReadyDoes, Roles DEF AwaitReady
  <2>2. /\ \A k \in Keys : Known(k) => WillKnow(k)
        /\ \A task \in GoodTasks : KnownTask(task) => WillKnowTask(task)
    BY <2>1, StaysKnown
  <2>3. hand[t] \in GoodTasks /\ KnownTask(hand[t])
    BY <1>0, <1>a, <2>1 DEF ThreadTypes, Holding
  <2>4. WillKnowTask(hand'[t]) /\ Alone(t)
    BY <2>1, <2>2, <2>3 DEF Alone
  <2>5. QED
    BY <2>1, <2>2, <2>4, KnownAfter
<1>7. ASSUME NEW t \in Workers, Leave(t) PROVE KnownInv'
  <2>1. /\ UNCHANGED <<started, asked, resumed, workq, task_queue, settling, dbq>>
        /\ t \in Threads /\ Alone(t) /\ pc'[t] \notin Holding /\ held' = held \ {Key(hand[t])}
    BY <1>7, LeaveDoes DEF Holding, Keyed
  <2>2. QED
    BY <1>s, <2>1, KnownAfter
<1>8. ASSUME NEW t \in Workers, OnEvent(t) PROVE KnownInv'
  <2>1. /\ UNCHANGED <<started, asked, resumed, workq, held, settling, dbq>>
        /\ t \in Threads /\ Alone(t) /\ Key(hand[t]) \in task_queue /\ Key(hand[t]) \in Keys
        /\ hand'[t] = Task("resume", Key(hand[t])) /\ task_queue' = task_queue \ {Key(hand[t])}
    BY <1>8, OnEventDoes
  <2>2. Known(Key(hand[t])) /\ WillKnow(Key(hand[t]))
    BY <1>s, <2>1 DEF KnownInv
  <2>3. WillKnowTask(hand'[t])
    BY <2>1, <2>2, TaskKnown
  <2>4. QED
    BY <1>s, <2>1, <2>3, KnownAfter
<1>9. ASSUME NEW t \in DbWorkers, DbPop(t) PROVE KnownInv'
  <2>1. /\ UNCHANGED <<started, asked, resumed, workq, task_queue, held, settling>>
        /\ t \in Threads /\ Alone(t) /\ Head(dbq) \in Keys
        /\ dbq # << >> /\ dbq' = Tail(dbq) /\ hand'[t] = Task("event", Head(dbq))
    BY <1>9, DbPopDoes
  <2>2. /\ Head(dbq) = dbq[1] /\ 1 \in 1 .. Len(dbq)
        /\ \A i \in 1 .. Len(dbq)' : i + 1 \in 1 .. Len(dbq) /\ dbq'[i] = dbq[i + 1]
    BY <1>0, <2>1, Popped DEF DbTypes
  <2>3. Known(Head(dbq)) /\ WillKnow(Head(dbq))
    BY <1>s, <2>1, <2>2 DEF KnownInv
  <2>4. WillKnowTask(hand'[t])
    BY <2>1, <2>3, TaskKnown
  <2>5. \A i \in 1 .. Len(dbq)' : \E j \in 1 .. Len(dbq) : dbq'[i] = dbq[j]
    BY <2>2
  <2>6. QED
    BY <1>s, <2>1, <2>4, <2>5, KnownAfter
<1>10. ASSUME NEW t \in DbWorkers, GetNull(t) PROVE KnownInv'
  <2>1. /\ UNCHANGED <<started, asked, resumed, workq, task_queue, held, settling, dbq>>
        /\ t \in Threads /\ Alone(t) /\ pc[t] = "get" /\ hand'[t] = hand[t] /\ hand[t] \in GoodTasks
    BY <1>10, GetNullDoes
  <2>2. WillKnowTask(hand'[t])
    BY <1>a, <1>s, <2>1 DEF Holding, Keyed
  <2>3. QED
    BY <1>s, <2>1, <2>2, KnownAfter
<1>11. ASSUME NEW k \in Keys, Settle(k) PROVE KnownInv'
  <2>1. /\ UNCHANGED <<started, asked, resumed, workq, task_queue, held, dbq>>
        /\ k \in settling /\ settling' = settling \ {k}
        /\ "stop" \in Threads /\ Alone("stop") /\ hand'["stop"] = Task("resume", k)
    BY <1>11, SettleDoes
  <2>2. Known(k) /\ WillKnow(k)
    BY <1>s, <2>1 DEF KnownInv
  <2>3. WillKnowTask(hand'["stop"])
    BY <2>1, <2>2, TaskKnown
  <2>4. QED
    BY <1>s, <2>1, <2>3, KnownAfter
<1>12. CASE TakeAll
  <2>1. /\ UNCHANGED <<started, asked, resumed, workq, held, dbq, pc, hand>>
        /\ settling' = task_queue /\ task_queue' = {}
    BY <1>12, TakeAllDoes
  <2>2. QED
    BY <2>1 DEF KnownInv, KnownTask, Known, Key
<1>13. CASE UNCHANGED <<keyVars, pc, hand, dbq>>
  BY <1>13 DEF keyVars, KnownInv, KnownTask, Known, Key
<1>14. QED
  BY <1>1, <1>2, <1>3, <1>4, <1>5, <1>6, <1>7, <1>8, <1>9, <1>10, <1>11, <1>12, <1>13, StepKinds

LEMMA KnownHold == Spec => [](PoolInv /\ HandInv /\ KnownInv)
<1>1. Init => KnownInv
  BY DEF Init, KnownInv, Holding, Keyed
<1>2. QED
  BY <1>1, HandsHold, KnownStep, PTL DEF Spec

---------------------------------------------------------------------------
(* At most one thing: a position of q with a task of M, or an element of S.*)
Single(q, M, S) ==
  /\ \A i, j \in 1 .. Len(q) : q[i] \in M /\ q[j] \in M => i = j
  /\ \A y, z \in S : y = z
  /\ (\E i \in 1 .. Len(q) : q[i] \in M) => S = {}

LEMMA SingleFewer ==
  ASSUME NEW q, NEW M, NEW S, NEW S1, Single(q, M, S), S1 \subseteq S
  PROVE  Single(q, M, S1)
  BY DEF Single

\* The one thing of S goes elsewhere.
LEMMA SingleMoves ==
  ASSUME NEW q, NEW M, NEW S, NEW S1, NEW y, NEW z, Single(q, M, S), y \in S, S1 \subseteq {z}
  PROVE  Single(q, M, S1)
  BY DEF Single

\* It comes into being, where nothing was.
LEMMA SingleComes ==
  ASSUME NEW q, NEW M, NEW S1, NEW z, \A i \in 1 .. Len(q) : q[i] \notin M, S1 \subseteq {z}
  PROVE  Single(q, M, S1)
  BY DEF Single

LEMMA SinglePushed ==
  ASSUME NEW T, NEW q \in Seq(T), NEW x \in T, NEW M, NEW S, NEW S1, Single(q, M, S),
         \/ x \notin M /\ S1 \subseteq S
         \/ x \in M /\ S1 = {} /\ S # {}
  PROVE  Single(Append(q, x), M, S1)
<1>1. /\ Len(Append(q, x)) = Len(q) + 1 /\ Len(q) \in Nat
      /\ \A i \in 1 .. Len(q) : Append(q, x)[i] = q[i]
      /\ Append(q, x)[Len(q) + 1] = x
      /\ \A i \in 1 .. Len(Append(q, x)) : i \in 1 .. Len(q) \/ i = Len(q) + 1
  BY Appended
<1>2. CASE x \notin M /\ S1 \subseteq S
  <2>1. \A i \in 1 .. Len(Append(q, x)) : Append(q, x)[i] \in M => i \in 1 .. Len(q) /\ q[i] \in M
    BY <1>1, <1>2
  <2>2. QED
    BY <1>2, <2>1 DEF Single
<1>3. CASE x \in M /\ S1 = {} /\ S # {}
  <2>1. \A i \in 1 .. Len(q) : q[i] \notin M
    BY <1>3 DEF Single
  <2>2. \A i \in 1 .. Len(Append(q, x)) : Append(q, x)[i] \in M => i = Len(q) + 1
    BY <1>1, <2>1
  <2>3. QED
    BY <1>3, <2>2 DEF Single
<1>4. QED
  BY <1>2, <1>3

LEMMA SinglePopped ==
  ASSUME NEW T, NEW q \in Seq(T), q # << >>, NEW M, NEW S, NEW S1, NEW z, Single(q, M, S),
         \/ Head(q) \notin M /\ S1 \subseteq S
         \/ Head(q) \in M /\ (S = {} => S1 \subseteq {z})
  PROVE  Single(Tail(q), M, S1)
<1>1. /\ Head(q) = q[1] /\ 1 \in 1 .. Len(q) /\ Len(Tail(q)) \in Nat
      /\ \A i \in 1 .. Len(Tail(q)) : i + 1 \in 1 .. Len(q) /\ i + 1 # 1 /\ Tail(q)[i] = q[i + 1]
  BY Popped, LenProperties
<1>2. CASE Head(q) \notin M /\ S1 \subseteq S
  <2>1. ASSUME NEW i \in 1 .. Len(Tail(q)), NEW j \in 1 .. Len(Tail(q)),
               Tail(q)[i] \in M, Tail(q)[j] \in M
        PROVE  i = j
    <3>1. i + 1 = j + 1
      BY <1>1, <2>1 DEF Single
    <3>2. i \in Int /\ j \in Int
      OBVIOUS
    <3>3. QED
      BY <3>1, <3>2
  <2>2. (\E i \in 1 .. Len(Tail(q)) : Tail(q)[i] \in M) => \E i \in 1 .. Len(q) : q[i] \in M
    BY <1>1
  <2>3. \A y, w \in S1 : y = w
    BY <1>2 DEF Single
  <2>4. (\E i \in 1 .. Len(Tail(q)) : Tail(q)[i] \in M) => S1 = {}
    BY <1>2, <2>2 DEF Single
  <2>5. QED
    BY <2>1, <2>3, <2>4 DEF Single
<1>3. CASE Head(q) \in M /\ (S = {} => S1 \subseteq {z})
  <2>1. \A i \in 1 .. Len(Tail(q)) : Tail(q)[i] \notin M
    BY <1>1, <1>3 DEF Single
  <2>2. S = {}
    BY <1>1, <1>3 DEF Single
  <2>3. S1 \subseteq {z}
    BY <1>3, <2>2
  <2>4. QED
    BY <2>1, <2>3, SingleComes
<1>4. QED
  BY <1>2, <1>3

---------------------------------------------------------------------------
(* Where the coroutine is that query k suspended: to be pushed by a        *)
(* thread, in the guard queue, taken by settle_pending, resumed.           *)
Out(k) ==
  {<<"thread", t>> : t \in {u \in Threads : pc[u] = "push" /\ hand[u] = Task("resume", k)}}
    \union {<<"suspended", z>> : z \in task_queue \intersect {k}}
    \union {<<"settling", z>> : z \in settling \intersect {k}}
    \union {<<"resumed", n>> : n \in 1 .. resumed[k]}
OneResume == \A k \in Keys : Single(workq, {Task("resume", k)}, Out(k))

LEMMA ResumesDiffer ==
  ASSUME NEW k \in Keys, NEW m \in Keys, Task("resume", k) = Task("resume", m)
  PROVE  k = m
  BY KeyedTask

LEMMA ResumeOnly ==
  ASSUME NEW task \in GoodTasks, task.kind = "resume"
  PROVE  task = Task("resume", Key(task)) /\ Key(task) \in Keys
  BY DEF GoodTasks, Tasks, Task, Key

\* A step of one thread that does not start to push k's resume or take k.
LEMMA OutFewer ==
  ASSUME NEW k, NEW t \in Threads, Alone(t),
         pc'[t] = "push" /\ hand'[t] = Task("resume", k) => pc[t] = "push" /\ hand[t] = Task("resume", k),
         k \in task_queue' => k \in task_queue, k \in settling' => k \in settling,
         resumed'[k] = resumed[k]
  PROVE  Out(k)' \subseteq Out(k)
<1>1. ASSUME NEW u \in Threads, pc'[u] = "push", hand'[u] = Task("resume", k)
      PROVE  pc[u] = "push" /\ hand[u] = Task("resume", k)
  BY <1>1 DEF Alone
<1>2. QED
  BY <1>1 DEF Out

LEMMA OneResumeStep ==
  PoolInv /\ HandInv /\ KnownInv /\ OneResume /\ [Next]_vars => OneResume'
<1> SUFFICES ASSUME PoolInv, HandInv, KnownInv, OneResume, [Next]_vars, NEW k \in Keys
             PROVE  Single(workq, {Task("resume", k)}, Out(k))'
  BY DEF OneResume
<1> DEFINE task == Task("resume", k)
<1>0. /\ Single(workq, {task}, Out(k)) /\ workq \in Seq(GoodTasks)
      /\ task \in GoodTasks /\ task.kind = "resume" /\ Key(task) = k
  BY KeyedTask DEF OneResume, PoolInv, WorkTypes
<1> SUFFICES Single(workq', {task}, Out(k)')
  BY DEF Single
<1> HIDE DEF task
\* A step of one thread that leaves k alone.
<1>f. ASSUME NEW t \in Threads, Alone(t), UNCHANGED <<resumed, workq>>,
             pc'[t] = "push" => hand'[t] # task,
             k \in task_queue' => k \in task_queue, k \in settling' => k \in settling
      PROVE  Single(workq', {task}, Out(k)')
  <2>1. Out(k)' \subseteq Out(k)
    BY <1>f, OutFewer DEF task
  <2>2. QED
    BY <1>0, <1>f, <2>1, SingleFewer
<1>1. ASSUME NEW b \in Businesses, OnWork(b) PROVE Single(workq', {task}, Out(k)')
  <2>1. /\ UNCHANGED <<resumed, workq, task_queue, settling>> /\ "parse" \in Threads /\ Alone("parse")
        /\ hand'["parse"] = [kind |-> "start", b |-> b, n |-> 0]
    BY <1>1, OnWorkDoes
  <2>2. hand'["parse"].kind = "start"
    BY <2>1
  <2>3. QED
    BY <1>0, <1>f, <2>1, <2>2
<1>2. ASSUME NEW t \in Threads, PushOk(t) PROVE Single(workq', {task}, Out(k)')
  <2>1. /\ UNCHANGED <<resumed, task_queue, settling>>
        /\ Alone(t) /\ pc[t] = "push" /\ pc'[t] # "push"
        /\ hand[t] \in GoodTasks /\ workq' = Append(workq, hand[t])
    BY <1>2, PushOkDoes
  <2>2. Out(k)' \subseteq Out(k)
    BY <2>1, OutFewer
  <2>3. CASE hand[t] # task
    BY <1>0, <2>1, <2>2, <2>3, SinglePushed
  <2>4. CASE hand[t] = task
    <3>1. <<"thread", t>> \in Out(k)
      BY <2>1, <2>4 DEF Out, task
    <3>2. <<"thread", t>> \notin Out(k)'
      BY <2>1 DEF Out
    <3>3. \A y \in Out(k) : y = <<"thread", t>>
      BY <1>0, <3>1 DEF Single
    <3>4. Out(k)' = {} /\ Out(k) # {}
      BY <2>2, <3>1, <3>2, <3>3
    <3>5. QED
      BY <1>0, <2>1, <2>4, <3>4, SinglePushed
  <2>5. QED
    BY <2>3, <2>4
<1>3. ASSUME NEW t \in Threads, Quiet(t) PROVE Single(workq', {task}, Out(k)')
  <2>1. /\ UNCHANGED <<resumed, workq, task_queue, settling>> /\ Alone(t)
        /\ pc'[t] \in Holding => hand'[t] = hand[t]
        /\ pc'[t] = "push" => hand[t].kind = "event"
    BY <1>3 DEF Quiet, keyVars
  <2>2. pc'[t] = "push" => hand'[t] # task
    BY <1>0, <2>1 DEF Holding
  <2>3. QED
    BY <1>f, <2>1, <2>2
<1>4. ASSUME NEW t \in Workers, WorkPop(t) PROVE Single(workq', {task}, Out(k)')
  <2>1. /\ UNCHANGED <<task_queue, settling>> /\ t \in Threads /\ Alone(t)
        /\ pc'[t] # "push" /\ workq # << >> /\ workq' = Tail(workq) /\ Head(workq) \in GoodTasks
        /\ resumed' = IF Head(workq).kind = "resume"
                      THEN [resumed EXCEPT ![Key(Head(workq))] = @ + 1] ELSE resumed
    BY <1>4, WorkPopDoes
  <2>2. resumed \in [Keys -> Nat]
    BY DEF PoolInv, BizTypes
  <2>3. CASE Head(workq) = task
    <3>1. resumed'[k] = resumed[k] + 1
      BY <1>0, <2>1, <2>2, <2>3
    <3>2. ASSUME Out(k) = {} PROVE Out(k)' \subseteq {<<"resumed", 1>>}
      <4>1. resumed[k] = 0
        <5>1. SUFFICES ASSUME resumed[k] # 0 PROVE FALSE
          OBVIOUS
        <5>2. 1 \in 1 .. resumed[k]
          BY <2>2, <5>1
        <5>3. <<"resumed", 1>> \in Out(k)
          BY <5>2 DEF Out
        <5>4. QED
          BY <3>2, <5>3
      <4>2. 1 .. resumed'[k] = {1}
        BY <3>1, <4>1
      <4>3. k \notin task_queue' /\ k \notin settling'
        BY <2>1, <3>2 DEF Out
      <4>4. \A u \in Threads : ~(pc'[u] = "push" /\ hand'[u] = Task("resume", k))
        <5>1. ASSUME NEW u \in Threads, pc'[u] = "push", hand'[u] = Task("resume", k) PROVE FALSE
          <6>1. pc[u] = "push" /\ hand[u] = Task("resume", k)
            BY <2>1, <5>1 DEF Alone
          <6>2. <<"thread", u>> \in Out(k)
            BY <6>1 DEF Out
          <6>3. QED
            BY <3>2, <6>2
        <5>2. QED
          BY <5>1
      <4>5. QED
        BY <4>2, <4>3, <4>4 DEF Out
    <3>3. QED
      BY <1>0, <2>1, <2>3, <3>2, SinglePopped
  <2>4. CASE Head(workq) # task
    <3>1. resumed'[k] = resumed[k]
      <4>1. CASE Head(workq).kind = "resume"
        <5>1. Head(workq) = Task("resume", Key(Head(workq)))
          BY <2>1, <4>1, ResumeOnly
        <5>2. Key(Head(workq)) # k
          BY <2>4, <5>1 DEF task
        <5>3. QED
          BY <2>1, <2>2, <4>1, <5>2
      <4>2. CASE Head(workq).kind # "resume"
        BY <2>1, <4>2
      <4>3. QED
        BY <4>1, <4>2
    <3>2. Out(k)' \subseteq Out(k)
      BY <2>1, <3>1, OutFewer
    <3>3. QED
      BY <1>0, <2>1, <2>4, <3>2, SinglePopped
  <2>5. QED
    BY <2>3, <2>4
<1>5. ASSUME NEW t \in Workers, AwaitSuspend(t) PROVE Single(workq', {task}, Out(k)')
  <2> DEFINE m == <<hand[t].b, asked[hand[t].b] + 1>>
  <2>1. /\ UNCHANGED <<resumed, workq, settling>>
        /\ t \in Threads /\ Alone(t) /\ pc'[t] = "submit" /\ m \in Keys
        /\ task_queue' = task_queue \union {m}
        /\ hand[t].b \in Businesses
    BY <1>5, AwaitSuspendDoes
  <2>2. ~Known(m)
    <3>1. asked[hand[t].b] \in Nat
      BY <2>1 DEF PoolInv, BizTypes
    <3>2. ~(asked[hand[t].b] + 1 <= asked[hand[t].b])
      BY <3>1
    <3>3. QED
      BY <3>2 DEF Known
  <2> HIDE DEF m
  <2>3. CASE k # m
    BY <1>f, <2>1, <2>3
  <2>4. CASE k = m
    <3>1. ~Known(k) /\ ~KnownTask(task)
      BY <2>2, <2>4, TaskKnown DEF task
    <3>2. \A i \in 1 .. Len(workq) : workq[i] # task
      BY <3>1 DEF KnownInv
    <3>3. \A u \in Threads : pc[u] = "push" => hand[u] # task
      BY <3>1 DEF KnownInv, Holding
    <3>4. k \notin settling /\ resumed[k] = 0
      BY <3>1 DEF KnownInv
    <3>5. \A u \in Threads : ~(pc'[u] = "push" /\ hand'[u] = Task("resume", k))
      BY <2>1, <3>3 DEF Alone, task
    <3>6. 1 .. resumed'[k] = {} /\ k \notin settling'
      BY <2>1, <3>4
    <3>7. Out(k)' \subseteq {<<"suspended", k>>}
      BY <3>5, <3>6 DEF Out
    <3>8. workq' = workq
      BY <2>1
    <3>9. QED
      BY <3>2, <3>7, <3>8, SingleComes
  <2>5. QED
    BY <2>3, <2>4
<1>6. ASSUME NEW t \in Workers, AwaitReady(t) PROVE Single(workq', {task}, Out(k)')
  <2>1. UNCHANGED <<resumed, workq, task_queue, settling, pc, hand>>
    BY <1>6, AwaitReadyDoes
  <2>2. Out(k)' = Out(k)
    BY <2>1 DEF Out
  <2>3. QED
    BY <1>0, <2>1, <2>2
<1>7. ASSUME NEW t \in Workers, Leave(t) PROVE Single(workq', {task}, Out(k)')
  <2>1. /\ UNCHANGED <<resumed, workq, task_queue, settling>>
        /\ t \in Threads /\ Alone(t) /\ pc'[t] = "finish"
    BY <1>7, LeaveDoes
  <2>2. QED
    BY <1>f, <2>1
<1>8. ASSUME NEW t \in Workers, OnEvent(t) PROVE Single(workq', {task}, Out(k)')
  <2> DEFINE m == Key(hand[t])
  <2>1. /\ UNCHANGED <<resumed, workq, settling>>
        /\ t \in Threads /\ Alone(t) /\ pc'[t] = "push" /\ m \in task_queue /\ m \in Keys
        /\ hand'[t] = Task("resume", m) /\ task_queue' = task_queue \ {m}
    BY <1>8, OnEventDoes
  <2> HIDE DEF m
  <2>2. CASE k # m
    <3>1. hand'[t] # task
      BY <2>1, <2>2, ResumesDiffer DEF task
    <3>2. QED
      BY <1>f, <2>1, <3>1
  <2>3. CASE k = m
    <3>1. <<"suspended", k>> \in Out(k)
      BY <2>1, <2>3 DEF Out
    <3>2. \A y \in Out(k) : y = <<"suspended", k>>
      BY <1>0, <3>1 DEF Single
    <3>3. /\ \A u \in Threads : ~(pc[u] = "push" /\ hand[u] = Task("resume", k))
          /\ k \notin settling /\ 1 .. resumed[k] = {}
      <4>1. ASSUME NEW u \in Threads, pc[u] = "push", hand[u] = Task("resume", k) PROVE FALSE
        <5>1. <<"thread", u>> \in Out(k)
          BY <4>1 DEF Out
        <5>2. QED
          BY <3>2, <5>1
      <4>2. ASSUME k \in settling PROVE FALSE
        <5>1. <<"settling", k>> \in Out(k)
          BY <4>2 DEF Out
        <5>2. QED
          BY <3>2, <5>1
      <4>3. ASSUME NEW n \in 1 .. resumed[k] PROVE FALSE
        <5>1. <<"resumed", n>> \in Out(k)
          BY DEF Out
        <5>2. QED
          BY <3>2, <5>1
      <4>4. QED
        BY <4>1, <4>2, <4>3
    <3>4. /\ \A u \in Threads : pc'[u] = "push" /\ hand'[u] = Task("resume", k) => u = t
          /\ k \notin settling' /\ k \notin task_queue' /\ 1 .. resumed'[k] = {}
      BY <2>1, <2>3, <3>3 DEF Alone
    <3>5. Out(k)' \subseteq {<<"thread", t>>}
      BY <3>4 DEF Out
    <3>6. workq' = workq
      BY <2>1
    <3>7. QED
      BY <1>0, <3>1, <3>5, <3>6, SingleMoves
  <2>4. QED
    BY <2>2, <2>3
<1>9. ASSUME NEW t \in DbWorkers, DbPop(t) PROVE Single(workq', {task}, Out(k)')
  <2>1. /\ UNCHANGED <<resumed, workq, task_queue, settling>>
        /\ t \in Threads /\ Alone(t) /\ pc'[t] = "get"
    BY <1>9, DbPopDoes
  <2>2. QED
    BY <1>f, <2>1
<1>10. ASSUME NEW t \in DbWorkers, GetNull(t) PROVE Single(workq', {task}, Out(k)')
  <2>1. /\ UNCHANGED <<resumed, workq, task_queue, settling>>
        /\ t \in Threads /\ Alone(t) /\ hand'[t] = hand[t] /\ hand[t].kind = "event"
    BY <1>10, GetNullDoes
  <2>2. QED
    BY <1>0, <1>f, <2>1
<1>11. ASSUME NEW m \in Keys, Settle(m) PROVE Single(workq', {task}, Out(k)')
  <2>1. /\ UNCHANGED <<resumed, workq, task_queue>>
        /\ m \in settling /\ settling' = settling \ {m}
        /\ "stop" \in Threads /\ Alone("stop") /\ pc'["stop"] = "push"
        /\ hand'["stop"] = Task("resume", m)
    BY <1>11, SettleDoes
  <2>2. CASE k # m
    <3>1. hand'["stop"] # task
      BY <2>1, <2>2, ResumesDiffer DEF task
    <3>2. QED
      BY <1>f, <2>1, <3>1
  <2>3. CASE k = m
    <3>1. <<"settling", k>> \in Out(k)
      BY <2>1, <2>3 DEF Out
    <3>2. \A y \in Out(k) : y = <<"settling", k>>
      BY <1>0, <3>1 DEF Single
    <3>3. /\ \A u \in Threads : ~(pc[u] = "push" /\ hand[u] = Task("resume", k))
          /\ k \notin task_queue /\ 1 .. resumed[k] = {}
      <4>1. ASSUME NEW u \in Threads, pc[u] = "push", hand[u] = Task("resume", k) PROVE FALSE
        <5>1. <<"thread", u>> \in Out(k)
          BY <4>1 DEF Out
        <5>2. QED
          BY <3>2, <5>1
      <4>2. ASSUME k \in task_queue PROVE FALSE
        <5>1. <<"suspended", k>> \in Out(k)
          BY <4>2 DEF Out
        <5>2. QED
          BY <3>2, <5>1
      <4>3. ASSUME NEW n \in 1 .. resumed[k] PROVE FALSE
        <5>1. <<"resumed", n>> \in Out(k)
          BY DEF Out
        <5>2. QED
          BY <3>2, <5>1
      <4>4. QED
        BY <4>1, <4>2, <4>3
    <3>4. /\ \A u \in Threads : pc'[u] = "push" /\ hand'[u] = Task("resume", k) => u = "stop"
          /\ k \notin settling' /\ k \notin task_queue' /\ 1 .. resumed'[k] = {}
      BY <2>1, <2>3, <3>3 DEF Alone
    <3>5. Out(k)' \subseteq {<<"thread", "stop">>}
      BY <3>4 DEF Out
    <3>6. workq' = workq
      BY <2>1
    <3>7. QED
      BY <1>0, <3>1, <3>5, <3>6, SingleMoves
  <2>4. QED
    BY <2>2, <2>3
<1>12. CASE TakeAll
  <2>1. UNCHANGED <<resumed, workq, pc, hand>> /\ settling' = task_queue /\ task_queue' = {}
    BY <1>12, TakeAllDoes
  <2>2. CASE k \notin task_queue
    <3>1. Out(k)' \subseteq Out(k)
      BY <2>1, <2>2 DEF Out
    <3>2. QED
      BY <1>0, <2>1, <3>1, SingleFewer
  <2>3. CASE k \in task_queue
    <3>1. <<"suspended", k>> \in Out(k)
      BY <2>3 DEF Out
    <3>2. \A y \in Out(k) : y = <<"suspended", k>>
      BY <1>0, <3>1 DEF Single
    <3>3. ASSUME NEW u \in Threads, pc[u] = "push", hand[u] = Task("resume", k) PROVE FALSE
      <4>1. <<"thread", u>> \in Out(k)
        BY <3>3 DEF Out
      <4>2. QED
        BY <3>2, <4>1
    <3>4. ASSUME NEW n \in 1 .. resumed[k] PROVE FALSE
      <4>1. <<"resumed", n>> \in Out(k)
        BY DEF Out
      <4>2. QED
        BY <3>2, <4>1
    <3>5. /\ \A u \in Threads : ~(pc'[u] = "push" /\ hand'[u] = Task("resume", k))
          /\ k \notin task_queue' /\ 1 .. resumed'[k] = {}
      BY <2>1, <3>3, <3>4
    <3>6. Out(k)' \subseteq {<<"settling", k>>}
      BY <3>5 DEF Out
    <3>7. QED
      BY <1>0, <2>1, <3>1, <3>6, SingleMoves
  <2>4. QED
    BY <2>2, <2>3
<1>13. CASE UNCHANGED <<keyVars, pc, hand, dbq>>
  <2>1. UNCHANGED <<resumed, workq, task_queue, settling, pc, hand>>
    BY <1>13 DEF keyVars
  <2>2. Out(k)' = Out(k)
    BY <2>1 DEF Out
  <2>3. QED
    BY <1>0, <2>1, <2>2
<1>14. QED
  BY <1>1, <1>2, <1>3, <1>4, <1>5, <1>6, <1>7, <1>8, <1>9, <1>10, <1>11, <1>12, <1>13, StepKinds

(* From places to numbers.                                                 *)
LEMMA AtMostOne ==
  ASSUME NEW S, \A y, z \in S : y = z
  PROVE  /\ S = {} => Cardinality(S) = 0
         /\ S # {} => Cardinality(S) = 1
<1>1. ASSUME S # {} PROVE Cardinality(S) = 1
  <2>1. PICK y \in S : TRUE
    BY <1>1
  <2>2. S = {y}
    BY <2>1
  <2>3. QED
    BY <2>2, FS_Singleton
<1>2. QED
  BY <1>1, FS_EmptySet

LEMMA OneResumeCounts == PoolInv /\ OneResume => ResumedOnce
<1> SUFFICES ASSUME PoolInv, OneResume, NEW k \in Keys PROVE resumed[k] + Resuming(k) <= 1
  BY DEF ResumedOnce
<1> DEFINE Q == {i \in 1 .. Len(workq) : workq[i] = Task("resume", k)}
           T == {t \in Threads : pc[t] = "push" /\ hand[t] = Task("resume", k)}
           S == IF k \in task_queue THEN 1 ELSE 0
           W == IF k \in settling THEN 1 ELSE 0
<1>1. resumed[k] \in Nat
  BY DEF PoolInv, BizTypes
<1>2. Resuming(k) = Cardinality(Q) + Cardinality(T) + S + W
  BY DEF Resuming
<1>3. /\ \A y, z \in Out(k) : y = z
      /\ \A i, j \in Q : i = j
      /\ Q # {} => Out(k) = {}
  BY DEF OneResume, Single
<1>4. /\ \A t \in T : <<"thread", t>> \in Out(k)
      /\ k \in task_queue => <<"suspended", k>> \in Out(k)
      /\ k \in settling => <<"settling", k>> \in Out(k)
      /\ \A n \in 1 .. resumed[k] : <<"resumed", n>> \in Out(k)
  BY DEF Out
<1>5. \A t, u \in T : t = u
  <2>1. SUFFICES ASSUME NEW t \in T, NEW u \in T PROVE t = u
    OBVIOUS
  <2>2. <<"thread", t>> = <<"thread", u>>
    BY <1>3, <1>4
  <2>3. QED
    BY <2>2
<1> HIDE DEF Q, T
<1>6. /\ Q = {} => Cardinality(Q) = 0
      /\ Q # {} => Cardinality(Q) = 1
      /\ T = {} => Cardinality(T) = 0
      /\ T # {} => Cardinality(T) = 1
  BY <1>3, <1>5, AtMostOne
<1>7. resumed[k] = 0 \/ resumed[k] = 1
  <2>1. SUFFICES ASSUME resumed[k] # 0, resumed[k] # 1 PROVE FALSE
    OBVIOUS
  <2>2. 1 \in 1 .. resumed[k] /\ 2 \in 1 .. resumed[k]
    BY <1>1, <2>1
  <2>3. <<"resumed", 1>> = <<"resumed", 2>>
    BY <1>3, <1>4, <2>2
  <2>4. QED
    BY <2>3
<1>8. resumed[k] = 1 => <<"resumed", 1>> \in Out(k)
  BY <1>4
<1>9. /\ Q # {} => T = {} /\ S = 0 /\ W = 0 /\ resumed[k] = 0
      /\ T # {} => S = 0 /\ W = 0 /\ resumed[k] = 0
      /\ S # 0 => W = 0 /\ resumed[k] = 0
      /\ W # 0 => resumed[k] = 0
  <2>1. Q # {} => T = {} /\ S = 0 /\ W = 0 /\ resumed[k] = 0
    BY <1>3, <1>4, <1>7, <1>8
  <2>2. ASSUME NEW t \in T PROVE S = 0 /\ W = 0 /\ resumed[k] = 0
    <3>1. \A y \in Out(k) : y = <<"thread", t>>
      BY <1>3, <1>4
    <3>2. <<"suspended", k>> # <<"thread", t>> /\ <<"settling", k>> # <<"thread", t>>
          /\ <<"resumed", 1>> # <<"thread", t>>
      OBVIOUS
    <3>3. QED
      BY <1>4, <1>7, <1>8, <3>1, <3>2
  <2>3. ASSUME k \in task_queue PROVE W = 0 /\ resumed[k] = 0
    <3>1. \A y \in Out(k) : y = <<"suspended", k>>
      BY <1>3, <1>4, <2>3
    <3>2. <<"settling", k>> # <<"suspended", k>> /\ <<"resumed", 1>> # <<"suspended", k>>
      OBVIOUS
    <3>3. QED
      BY <1>4, <1>7, <1>8, <3>1, <3>2
  <2>4. ASSUME k \in settling PROVE resumed[k] = 0
    <3>1. \A y \in Out(k) : y = <<"settling", k>>
      BY <1>3, <1>4, <2>4
    <3>2. <<"resumed", 1>> # <<"settling", k>>
      OBVIOUS
    <3>3. QED
      BY <1>7, <1>8, <3>1, <3>2
  <2>5. QED
    BY <2>1, <2>2, <2>3, <2>4
<1>10. S \in {0, 1} /\ W \in {0, 1}
  OBVIOUS
<1> HIDE DEF S, W
<1>11. QED
  BY <1>2, <1>6, <1>7, <1>9, <1>10

LEMMA OneResumeHolds == Spec => [](PoolInv /\ HandInv /\ KnownInv /\ OneResume)
<1>1. Init => OneResume
  <2> SUFFICES ASSUME Init, NEW k \in Keys PROVE Single(workq, {Task("resume", k)}, Out(k))
    BY DEF OneResume
  <2>1. workq = << >> /\ task_queue = {} /\ settling = {} /\ resumed[k] = 0
        /\ \A t \in Threads : pc[t] = "idle"
    BY DEF Init
  <2>2. 1 .. resumed[k] = {} /\ 1 .. Len(workq) = {}
    BY <2>1
  <2>3. Out(k) = {}
    BY <2>1, <2>2 DEF Out
  <2>4. QED
    BY <2>2, <2>3 DEF Single
<1>2. QED
  BY <1>1, KnownHold, OneResumeStep, PTL DEF Spec

(* A coroutine suspended for a query is resumed at most once for it,       *)
(* whoever takes it, an answer's on_event or settle_pending, and however   *)
(* many queries, answers and threads there are (thread_pool.cpp).          *)
THEOREM NoQueryResumesTwice == Spec => []ResumedOnce
<1>1. PoolInv /\ OneResume => ResumedOnce
  BY OneResumeCounts
<1>2. QED
  BY <1>1, OneResumeHolds, PTL

---------------------------------------------------------------------------
(* A query whose guard is still held has no event yet and is not being     *)
(* settled, unless somebody passed the guard by (unguarded).               *)
Excused(k) == k \in held => k \in unguarded
GuardInv ==
  /\ \A k \in settling : Excused(k)
  /\ \A i \in 1 .. Len(workq) : workq[i].kind = "event" => Excused(Key(workq[i]))
  /\ \A t \in Threads : pc[t] = "event" \/ (pc[t] = "push" /\ hand[t].kind = "event")
                          => Excused(Key(hand[t]))

\* The same after a step; guards are dropped and keys become unguarded.
WillExcuse(k) == k \in held' => k \in unguarded'

LEMMA GuardAfter ==
  ASSUME PoolInv, GuardInv, NEW t \in Threads, Alone(t),
         held' \subseteq held, unguarded \subseteq unguarded', settling' \subseteq settling,
         pc'[t] = "event" \/ (pc'[t] = "push" /\ hand'[t].kind = "event") => WillExcuse(Key(hand'[t])),
         \A i \in 1 .. Len(workq)' : \/ \E j \in 1 .. Len(workq) : workq'[i] = workq[j]
                                     \/ workq'[i].kind = "event" => WillExcuse(Key(workq'[i]))
  PROVE  GuardInv'
<1>1. \A k \in settling' : WillExcuse(k)
  BY DEF GuardInv, Excused, WillExcuse
<1>2. ASSUME NEW i \in 1 .. Len(workq)', workq'[i].kind = "event" PROVE WillExcuse(Key(workq'[i]))
  BY <1>2 DEF GuardInv, Excused, WillExcuse
<1>3. ASSUME NEW u \in Threads, pc'[u] = "event" \/ (pc'[u] = "push" /\ hand'[u].kind = "event")
      PROVE  WillExcuse(Key(hand'[u]))
  <2>1. CASE u = t
    BY <1>3, <2>1
  <2>2. CASE u # t
    <3>1. pc'[u] = pc[u] /\ hand'[u] = hand[u]
      BY <2>2 DEF Alone
    <3>2. Excused(Key(hand[u]))
      BY <1>3, <3>1 DEF GuardInv
    <3>3. QED
      BY <3>1, <3>2 DEF Excused, WillExcuse
  <2>3. QED
    BY <2>1, <2>2
<1>4. QED
  BY <1>1, <1>2, <1>3 DEF GuardInv, Excused, WillExcuse, Key

LEMMA GuardStep == PoolInv /\ HandInv /\ KnownInv /\ GuardInv /\ [Next]_vars => GuardInv'
<1> SUFFICES ASSUME PoolInv, HandInv, KnownInv, GuardInv, [Next]_vars PROVE GuardInv'
  OBVIOUS
<1>0. WorkTypes /\ ThreadTypes
  BY DEF PoolInv
<1>1. ASSUME NEW b \in Businesses, OnWork(b) PROVE GuardInv'
  <2>1. /\ UNCHANGED <<workq, held, settling, unguarded>> /\ "parse" \in Threads /\ Alone("parse")
        /\ pc'["parse"] = "push" /\ hand'["parse"] = [kind |-> "start", b |-> b, n |-> 0]
    BY <1>1, OnWorkDoes
  <2>2. hand'["parse"].kind = "start"
    BY <2>1
  <2>3. QED
    BY <2>1, <2>2, GuardAfter
<1>2. ASSUME NEW t \in Threads, PushOk(t) PROVE GuardInv'
  <2>1. /\ UNCHANGED <<held, settling, unguarded>>
        /\ Alone(t) /\ pc[t] = "push" /\ pc'[t] \in {"idle", "finish"}
        /\ hand[t] \in GoodTasks /\ workq' = Append(workq, hand[t])
    BY <1>2, PushOkDoes
  <2>2. hand[t].kind = "event" => WillExcuse(Key(hand[t]))
    BY <2>1 DEF GuardInv, Excused, WillExcuse
  <2>3. ASSUME NEW i \in 1 .. Len(workq)'
        PROVE  \/ \E j \in 1 .. Len(workq) : workq'[i] = workq[j]
               \/ workq'[i].kind = "event" => WillExcuse(Key(workq'[i]))
    <3>1. /\ workq'[Len(workq) + 1] = hand[t] /\ \A j \in 1 .. Len(workq) : workq'[j] = workq[j]
          /\ i \in 1 .. Len(workq) \/ i = Len(workq) + 1
      BY <1>0, <2>1, Appended DEF WorkTypes
    <3>2. QED
      BY <2>2, <3>1
  <2>4. QED
    BY <2>1, <2>3, GuardAfter
<1>3. ASSUME NEW t \in Threads, Quiet(t) PROVE GuardInv'
  <2>1. /\ UNCHANGED <<workq, held, settling, unguarded>> /\ Alone(t)
        /\ pc'[t] \in Holding => hand'[t] = hand[t]
        /\ pc'[t] = "push" => Key(hand[t]) \notin held
        /\ pc'[t] # "event"
    BY <1>3 DEF Quiet, keyVars
  <2>2. pc'[t] = "push" => WillExcuse(Key(hand'[t]))
    BY <2>1 DEF Holding, WillExcuse
  <2>3. QED
    BY <2>1, <2>2, GuardAfter
<1>4. ASSUME NEW t \in Workers, WorkPop(t) PROVE GuardInv'
  <2>1. /\ UNCHANGED <<held, settling, unguarded>>
        /\ t \in Threads /\ Alone(t) /\ hand'[t] = Head(workq)
        /\ pc'[t] = (IF Head(workq).kind = "event" THEN "event" ELSE "run")
        /\ workq # << >> /\ workq' = Tail(workq)
    BY <1>4, WorkPopDoes
  <2>2. /\ Head(workq) = workq[1] /\ 1 \in 1 .. Len(workq)
        /\ \A i \in 1 .. Len(workq)' : i + 1 \in 1 .. Len(workq) /\ workq'[i] = workq[i + 1]
    BY <1>0, <2>1, Popped DEF WorkTypes
  <2>3. Head(workq).kind = "event" => Excused(Key(Head(workq)))
    BY <2>2 DEF GuardInv
  <2>4. pc'[t] # "push" /\ (pc'[t] = "event" => WillExcuse(Key(hand'[t])))
    BY <2>1, <2>3 DEF Excused, WillExcuse
  <2>5. \A i \in 1 .. Len(workq)' : \E j \in 1 .. Len(workq) : workq'[i] = workq[j]
    BY <2>2
  <2>6. QED
    BY <2>1, <2>4, <2>5, GuardAfter
<1>5. ASSUME NEW t \in Workers, AwaitSuspend(t) PROVE GuardInv'
  <2> DEFINE m == <<hand[t].b, asked[hand[t].b] + 1>>
  <2>1. /\ UNCHANGED <<workq, settling, unguarded>>
        /\ t \in Threads /\ Alone(t) /\ pc'[t] = "submit" /\ m \in Keys
        /\ held' = held \union {m} /\ hand[t].b \in Businesses
    BY <1>5, AwaitSuspendDoes
  <2>2. ~Known(m)
    <3>1. asked[hand[t].b] \in Nat
      BY <2>1 DEF PoolInv, BizTypes
    <3>2. ~(asked[hand[t].b] + 1 <= asked[hand[t].b])
      BY <3>1
    <3>3. QED
      BY <3>2 DEF Known
  <2> HIDE DEF m
  <2>3. \A k \in settling' : WillExcuse(k)
    BY <2>1, <2>2 DEF GuardInv, KnownInv, Excused, WillExcuse
  <2>4. ASSUME NEW i \in 1 .. Len(workq), workq[i].kind = "event" PROVE WillExcuse(Key(workq[i]))
    <3>1. Known(Key(workq[i])) /\ Excused(Key(workq[i]))
      BY <2>4 DEF KnownInv, KnownTask, GuardInv
    <3>2. QED
      BY <2>1, <2>2, <3>1 DEF Excused, WillExcuse
  <2>5. ASSUME NEW u \in Threads, pc'[u] = "event" \/ (pc'[u] = "push" /\ hand'[u].kind = "event")
        PROVE  WillExcuse(Key(hand'[u]))
    <3>1. u # t /\ pc'[u] = pc[u] /\ hand'[u] = hand[u]
      BY <2>1, <2>5 DEF Alone
    <3>2. pc[u] \in Holding /\ hand[u].kind # "start" /\ Excused(Key(hand[u]))
      <4>1. pc[u] = "event" => hand[u].kind # "start"
        BY <1>0 DEF ThreadTypes, Keyed
      <4>2. QED
        BY <2>5, <3>1, <4>1 DEF GuardInv, Holding, Keyed
    <3>3. Known(Key(hand[u]))
      BY <3>2 DEF KnownInv, KnownTask
    <3>4. QED
      BY <2>1, <2>2, <3>1, <3>2, <3>3 DEF Excused, WillExcuse
  <2>6. workq' = workq
    BY <2>1
  <2>7. QED
    BY <2>3, <2>4, <2>5, <2>6 DEF GuardInv, Excused, WillExcuse, Key
<1>6. ASSUME NEW t \in Workers, AwaitReady(t) PROVE GuardInv'
  <2>1. UNCHANGED <<workq, held, settling, unguarded, pc, hand>>
    BY <1>6, AwaitReadyDoes
  <2>2. QED
    BY <2>1 DEF GuardInv, Excused, Key
<1>7. ASSUME NEW t \in Workers, Leave(t) PROVE GuardInv'
  <2>1. /\ UNCHANGED <<workq, settling, unguarded>>
        /\ t \in Threads /\ Alone(t) /\ pc'[t] = "finish" /\ held' \subseteq held
    BY <1>7, LeaveDoes
  <2>2. QED
    BY <2>1, GuardAfter
<1>8. ASSUME NEW t \in Workers, OnEvent(t) PROVE GuardInv'
  <2>1. /\ UNCHANGED <<workq, held, settling, unguarded>>
        /\ t \in Threads /\ Alone(t) /\ pc'[t] = "push" /\ Key(hand[t]) \in Keys
        /\ hand'[t] = Task("resume", Key(hand[t]))
    BY <1>8, OnEventDoes
  <2>2. hand'[t].kind = "resume"
    BY <2>1, KeyedTask
  <2>3. QED
    BY <2>1, <2>2, GuardAfter
<1>9. ASSUME NEW t \in DbWorkers, DbPop(t) PROVE GuardInv'
  <2>1. /\ UNCHANGED <<workq, held, settling, unguarded>> /\ t \in Threads /\ Alone(t) /\ pc'[t] = "get"
    BY <1>9, DbPopDoes
  <2>2. QED
    BY <2>1, GuardAfter
<1>10. ASSUME NEW t \in DbWorkers, GetNull(t) PROVE GuardInv'
  <2>1. /\ UNCHANGED <<workq, held, settling>>
        /\ t \in Threads /\ Alone(t) /\ pc'[t] = "push" /\ hand'[t] = hand[t]
        /\ unguarded' = unguarded \union ({Key(hand[t])} \intersect held)
    BY <1>10, GetNullDoes
  <2>2. WillExcuse(Key(hand'[t]))
    BY <2>1 DEF WillExcuse
  <2>3. QED
    BY <2>1, <2>2, GuardAfter
<1>11. ASSUME NEW k \in Keys, Settle(k) PROVE GuardInv'
  <2>1. /\ UNCHANGED <<workq, held, unguarded>> /\ settling' = settling \ {k}
        /\ "stop" \in Threads /\ Alone("stop") /\ pc'["stop"] = "push"
        /\ hand'["stop"] = Task("resume", k)
    BY <1>11, SettleDoes
  <2>2. hand'["stop"].kind = "resume"
    BY <2>1, KeyedTask
  <2>3. QED
    BY <2>1, <2>2, GuardAfter
<1>12. CASE TakeAll
  <2>1. /\ UNCHANGED <<workq, held, pc, hand>> /\ settling' = task_queue
        /\ unguarded' = unguarded \union (task_queue \intersect held)
    BY <1>12, TakeAllDoes
  <2>2. QED
    BY <2>1 DEF GuardInv, Excused, Key
<1>13. CASE UNCHANGED <<keyVars, pc, hand, dbq>>
  BY <1>13 DEF keyVars, GuardInv, Excused, Key
<1>14. QED
  BY <1>1, <1>2, <1>3, <1>4, <1>5, <1>6, <1>7, <1>8, <1>9, <1>10, <1>11, <1>12, <1>13, StepKinds

---------------------------------------------------------------------------
(* Business b's turn is with one thread, in one task of the work queue, or *)
(* with one query that suspended it and whose guard is finished.           *)
Of(b) == {task \in Tasks : task.b = b /\ task.kind # "event"}
HasTurn(t, b) == \/ pc[t] = "push" /\ hand[t] \in Of(b)
                 \/ t \in Workers /\ Inside(t, b)
Turns(b) ==
  {<<"thread", t>> : t \in {u \in Threads : HasTurn(u, b)}}
    \union {<<"key", k>> : k \in {z \in (task_queue \union settling) \ held : z[1] = b}}
Guarded(b) == \A k \in unguarded : k[1] # b
OneTurn == \A b \in Businesses : Guarded(b) => Single(workq, Of(b), Turns(b))

\* The turn of a thread after a step.
GetsTurn(t, b) == \/ pc'[t] = "push" /\ hand'[t] \in Of(b)
                  \/ t \in Workers /\ pc'[t] \in AtWork /\ hand'[t].b = b

LEMMA ResumeOf ==
  ASSUME NEW k \in Keys, NEW b
  PROVE  /\ Task("resume", k) \in Of(b) <=> k[1] = b
         /\ Task("resume", k).b = k[1]
<1>1. Task("resume", k).b = k[1] /\ Task("resume", k).kind = "resume" /\ Task("resume", k) \in Tasks
  BY KeyedTask DEF Task, GoodTasks
<1>2. QED
  BY <1>1 DEF Of

\* Threads and queries that have a turn after a step.
LEMMA TurnsAfter ==
  ASSUME NEW b
  PROVE  /\ \A t \in Threads : <<"thread", t>> \in Turns(b)' <=> GetsTurn(t, b)
         /\ \A y \in Turns(b)' :
              \/ \E t \in Threads : y = <<"thread", t>> /\ GetsTurn(t, b)
              \/ \E k \in (task_queue' \union settling') \ held' : y = <<"key", k>> /\ k[1] = b
<1>1. \A t \in Threads : HasTurn(t, b)' <=> GetsTurn(t, b)
  BY DEF HasTurn, GetsTurn, Inside, AtWork, Of
<1>2. QED
  BY <1>1 DEF Turns

LEMMA TurnsFewer ==
  ASSUME NEW b, NEW t \in Threads, Alone(t), GetsTurn(t, b) => HasTurn(t, b),
         \A k \in (task_queue' \union settling') \ held' :
           k[1] = b => k \in (task_queue \union settling) \ held
  PROVE  Turns(b)' \subseteq Turns(b)
<1>1. ASSUME NEW u \in Threads, GetsTurn(u, b) PROVE HasTurn(u, b)
  <2>1. CASE u = t
    BY <1>1, <2>1
  <2>2. CASE u # t
    <3>1. pc'[u] = pc[u] /\ hand'[u] = hand[u]
      BY <2>2 DEF Alone
    <3>2. QED
      BY <1>1, <3>1 DEF GetsTurn, HasTurn, Inside, AtWork
  <2>3. QED
    BY <2>1, <2>2
<1>2. \A u \in Threads : HasTurn(u, b) => <<"thread", u>> \in Turns(b)
  BY DEF Turns
<1>3. \A k \in (task_queue \union settling) \ held : k[1] = b => <<"key", k>> \in Turns(b)
  BY DEF Turns
<1>4. QED
  BY <1>1, <1>2, <1>3, TurnsAfter

\* Nothing of a business that has not started is anywhere.
LEMMA NotStarted ==
  ASSUME KnownInv, PoolInv, NEW b \in Businesses, b \notin started
  PROVE  /\ \A i \in 1 .. Len(workq) : workq[i] \notin Of(b)
         /\ \A t \in Threads : ~HasTurn(t, b)
         /\ \A k \in task_queue \union settling : k[1] # b
<1>1. \A i \in 1 .. Len(workq) : workq[i] \notin Of(b)
  BY DEF KnownInv, KnownTask, Of
<1>2. ASSUME NEW t \in Threads, HasTurn(t, b) PROVE FALSE
  <2>1. pc[t] \in Holding /\ hand[t].b = b
    BY <1>2 DEF HasTurn, Of, Inside, Holding, Keyed
  <2>2. QED
    BY <2>1 DEF KnownInv, KnownTask
<1>3. \A k \in task_queue \union settling : k[1] # b
  BY DEF KnownInv, Known
<1>4. QED
  BY <1>1, <1>2, <1>3

\* A query is not both waiting and being settled.
LEMMA NotTwice ==
  ASSUME OneResume, NEW k \in Keys
  PROVE  ~(k \in task_queue /\ k \in settling)
<1>1. SUFFICES ASSUME k \in task_queue, k \in settling PROVE FALSE
  OBVIOUS
<1>2. <<"suspended", k>> \in Out(k) /\ <<"settling", k>> \in Out(k)
  BY <1>1 DEF Out
<1>3. <<"suspended", k>> = <<"settling", k>>
  BY <1>2 DEF OneResume, Single
<1>4. QED
  BY <1>3

LEMMA OneTurnStep ==
  PoolInv /\ HandInv /\ KnownInv /\ OneResume /\ GuardInv /\ OneTurn /\ [Next]_vars => OneTurn'
<1> SUFFICES ASSUME PoolInv, HandInv, KnownInv, OneResume, GuardInv, OneTurn, [Next]_vars,
                    NEW b \in Businesses, Guarded(b)'
             PROVE  Single(workq', Of(b), Turns(b)')
  BY DEF OneTurn, Single, Of
<1>0. WorkTypes /\ workq \in Seq(GoodTasks)
  BY DEF PoolInv, WorkTypes
\* A key once unguarded stays so.
<1>g. ASSUME unguarded \subseteq unguarded' PROVE Single(workq, Of(b), Turns(b))
  BY <1>g DEF OneTurn, Guarded
\* A step of one thread that gives b's turn to nobody.
<1>f. ASSUME NEW t \in Threads, Alone(t), workq' = workq, unguarded \subseteq unguarded',
             GetsTurn(t, b) => HasTurn(t, b),
             \A k \in (task_queue' \union settling') \ held' :
               k[1] = b => k \in (task_queue \union settling) \ held
      PROVE  Single(workq', Of(b), Turns(b)')
  <2>1. Turns(b)' \subseteq Turns(b)
    BY <1>f, TurnsFewer
  <2>2. QED
    BY <1>f, <1>g, <2>1, SingleFewer
\* The turn of a query that suspended b goes to the thread that pushes its resume.
<1>h. ASSUME NEW t \in Threads, Alone(t), UNCHANGED <<workq, held, unguarded>>, NEW m \in Keys, m[1] = b,
             m \in task_queue \union settling, Excused(m),
             task_queue' \union settling' \subseteq (task_queue \union settling) \ {m}
      PROVE  Single(workq', Of(b), Turns(b)')
  <2>1. Single(workq, Of(b), Turns(b))
    BY <1>g, <1>h
  <2>2. m \notin held
    BY <1>h DEF Excused, Guarded
  <2>3. <<"key", m>> \in Turns(b)
    BY <1>h, <2>2 DEF Turns
  <2>4. \A y \in Turns(b) : y = <<"key", m>>
    BY <2>1, <2>3 DEF Single
  <2>5. ASSUME NEW u \in Threads, GetsTurn(u, b) PROVE u = t
    <3>1. SUFFICES ASSUME u # t PROVE FALSE
      OBVIOUS
    <3>2. pc'[u] = pc[u] /\ hand'[u] = hand[u]
      BY <1>h, <3>1 DEF Alone
    <3>3. HasTurn(u, b)
      BY <2>5, <3>2 DEF GetsTurn, HasTurn, Inside, AtWork
    <3>4. <<"thread", u>> \in Turns(b)
      BY <3>3 DEF Turns
    <3>5. <<"thread", u>> = <<"key", m>>
      BY <2>4, <3>4
    <3>6. QED
      BY <3>5
  <2>6. ASSUME NEW k \in (task_queue' \union settling') \ held', k[1] = b PROVE FALSE
    <3>1. k \in (task_queue \union settling) \ held /\ k # m
      BY <1>h
    <3>2. <<"key", k>> \in Turns(b)
      BY <2>6, <3>1 DEF Turns
    <3>3. <<"key", k>> = <<"key", m>>
      BY <2>4, <3>2
    <3>4. QED
      BY <3>1, <3>3
  <2>7. Turns(b)' \subseteq {<<"thread", t>>}
    BY <2>5, <2>6, TurnsAfter
  <2>8. workq' = workq
    BY <1>h
  <2>9. QED
    BY <2>1, <2>3, <2>7, <2>8, SingleMoves
<1>1. ASSUME NEW c \in Businesses, OnWork(c) PROVE Single(workq', Of(b), Turns(b)')
  <2>1. /\ UNCHANGED <<workq, task_queue, held, settling, unguarded>>
        /\ c \notin started /\ "parse" \in Threads /\ Alone("parse") /\ pc'["parse"] = "push"
        /\ hand'["parse"] = [kind |-> "start", b |-> c, n |-> 0]
    BY <1>1, OnWorkDoes
  <2>2. CASE b # c
    <3>1. hand'["parse"].b = c
      BY <2>1
    <3>2. ~GetsTurn("parse", b)
      BY <2>1, <2>2, <3>1 DEF GetsTurn, Of, AtWork
    <3>3. QED
      BY <1>f, <2>1, <3>2
  <2>3. CASE b = c
    <3>1. /\ \A i \in 1 .. Len(workq) : workq[i] \notin Of(b)
          /\ \A t \in Threads : ~HasTurn(t, b)
          /\ \A k \in task_queue \union settling : k[1] # b
      BY <2>1, <2>3, NotStarted
    <3>2. ASSUME NEW t \in Threads, t # "parse" PROVE ~GetsTurn(t, b)
      <4>1. pc'[t] = pc[t] /\ hand'[t] = hand[t]
        BY <2>1, <3>2 DEF Alone
      <4>2. QED
        BY <3>1, <4>1 DEF GetsTurn, HasTurn, Inside, AtWork
    <3>3. Turns(b)' \subseteq {<<"thread", "parse">>}
      BY <2>1, <3>1, <3>2, TurnsAfter
    <3>4. workq' = workq
      BY <2>1
    <3>5. QED
      BY <3>1, <3>3, <3>4, SingleComes
  <2>4. QED
    BY <2>2, <2>3
<1>2. ASSUME NEW t \in Threads, PushOk(t) PROVE Single(workq', Of(b), Turns(b)')
  <2>1. /\ UNCHANGED <<task_queue, held, settling, unguarded>>
        /\ Alone(t) /\ pc[t] = "push" /\ pc'[t] \in {"idle", "finish"}
        /\ hand[t] \in GoodTasks /\ workq' = Append(workq, hand[t])
    BY <1>2, PushOkDoes
  <2>2. ~GetsTurn(t, b)
    BY <2>1 DEF GetsTurn, AtWork
  <2>3. Turns(b)' \subseteq Turns(b)
    BY <2>1, <2>2, TurnsFewer
  <2>4. Single(workq, Of(b), Turns(b))
    BY <1>g, <2>1
  <2>5. CASE hand[t] \notin Of(b)
    BY <1>0, <2>1, <2>3, <2>4, <2>5, SinglePushed
  <2>6. CASE hand[t] \in Of(b)
    <3>1. <<"thread", t>> \in Turns(b)
      BY <2>1, <2>6 DEF Turns, HasTurn
    <3>2. <<"thread", t>> \notin Turns(b)'
      BY <2>2, TurnsAfter
    <3>3. \A y \in Turns(b) : y = <<"thread", t>>
      BY <2>4, <3>1 DEF Single
    <3>4. Turns(b)' = {} /\ Turns(b) # {}
      BY <2>3, <3>1, <3>2, <3>3
    <3>5. QED
      BY <1>0, <2>1, <2>4, <2>6, <3>4, SinglePushed
  <2>7. QED
    BY <2>5, <2>6
<1>3. ASSUME NEW t \in Threads, Quiet(t) PROVE Single(workq', Of(b), Turns(b)')
  <2>1. /\ UNCHANGED <<workq, task_queue, held, settling, unguarded>> /\ Alone(t)
        /\ pc'[t] \in Holding => hand'[t] = hand[t]
        /\ pc'[t] = "push" => hand[t].kind = "event"
        /\ pc'[t] \in AtWork => pc[t] \in AtWork
    BY <1>3 DEF Quiet, keyVars
  <2>2. GetsTurn(t, b) => HasTurn(t, b)
    <3>1. CASE pc'[t] = "push"
      BY <2>1, <3>1 DEF GetsTurn, AtWork, Of, Holding
    <3>2. CASE pc'[t] \in AtWork
      BY <2>1, <3>2 DEF GetsTurn, HasTurn, Inside, AtWork, Holding, Keyed
    <3>3. QED
      BY <3>1, <3>2 DEF GetsTurn
  <2>3. QED
    BY <1>f, <2>1, <2>2
<1>4. ASSUME NEW t \in Workers, WorkPop(t) PROVE Single(workq', Of(b), Turns(b)')
  <2>1. /\ UNCHANGED <<task_queue, held, settling, unguarded>>
        /\ t \in Threads /\ Alone(t) /\ hand'[t] = Head(workq)
        /\ pc'[t] = (IF Head(workq).kind = "event" THEN "event" ELSE "run")
        /\ workq # << >> /\ workq' = Tail(workq) /\ Head(workq) \in GoodTasks
    BY <1>4, WorkPopDoes
  <2>2. Single(workq, Of(b), Turns(b))
    BY <1>g, <2>1
  <2>3. CASE Head(workq) \notin Of(b)
    <3>1. ~GetsTurn(t, b)
      BY <2>1, <2>3 DEF GetsTurn, AtWork, Of, GoodTasks
    <3>2. Turns(b)' \subseteq Turns(b)
      BY <2>1, <3>1, TurnsFewer
    <3>3. QED
      BY <1>0, <2>1, <2>2, <2>3, <3>2, SinglePopped
  <2>4. CASE Head(workq) \in Of(b)
    <3>1. ASSUME Turns(b) = {} PROVE Turns(b)' \subseteq {<<"thread", t>>}
      <4>1. /\ \A u \in Threads : ~HasTurn(u, b)
            /\ \A k \in (task_queue \union settling) \ held : k[1] # b
        BY <3>1 DEF Turns
      <4>2. ASSUME NEW u \in Threads, u # t PROVE ~GetsTurn(u, b)
        <5>1. pc'[u] = pc[u] /\ hand'[u] = hand[u]
          BY <2>1, <4>2 DEF Alone
        <5>2. QED
          BY <4>1, <5>1 DEF GetsTurn, HasTurn, Inside, AtWork
      <4>3. \A k \in (task_queue' \union settling') \ held' : k[1] # b
        BY <2>1, <4>1
      <4>4. QED
        BY <4>2, <4>3, TurnsAfter
    <3>2. QED
      BY <1>0, <2>1, <2>2, <2>4, <3>1, SinglePopped
  <2>5. QED
    BY <2>3, <2>4
<1>5. ASSUME NEW t \in Workers, AwaitSuspend(t) PROVE Single(workq', Of(b), Turns(b)')
  <2> DEFINE m == <<hand[t].b, asked[hand[t].b] + 1>>
  <2>1. /\ UNCHANGED <<workq, settling, unguarded>>
        /\ t \in Threads /\ Alone(t) /\ pc[t] = "run" /\ pc'[t] = "submit" /\ m \in Keys
        /\ hand'[t] = Task("resume", m)
        /\ task_queue' = task_queue \union {m} /\ held' = held \union {m}
    BY <1>5, AwaitSuspendDoes
  <2>2. hand'[t].b = hand[t].b
    <3>1. Task("resume", m).b = m[1]
      BY <2>1, ResumeOf
    <3>2. QED
      BY <2>1, <3>1
  <2> HIDE DEF m
  <2>3. GetsTurn(t, b) => HasTurn(t, b)
    BY <2>1, <2>2 DEF GetsTurn, HasTurn, Inside
  <2>4. \A k \in (task_queue' \union settling') \ held' : k \in (task_queue \union settling) \ held
    BY <2>1
  <2>5. QED
    BY <1>f, <2>1, <2>3, <2>4
<1>6. ASSUME NEW t \in Workers, AwaitReady(t) PROVE Single(workq', Of(b), Turns(b)')
  <2>1. UNCHANGED <<workq, task_queue, held, settling, unguarded, pc, hand>> /\ t \in Threads
    BY <1>6, AwaitReadyDoes, Roles
  <2>2. Alone(t) /\ (GetsTurn(t, b) => HasTurn(t, b))
    BY <2>1 DEF Alone, GetsTurn, HasTurn, Inside, AtWork
  <2>3. QED
    BY <1>f, <2>1, <2>2
<1>7. ASSUME NEW t \in Workers, Leave(t) PROVE Single(workq', Of(b), Turns(b)')
  <2> DEFINE m == Key(hand[t])
  <2>1. /\ UNCHANGED <<workq, task_queue, settling, unguarded>>
        /\ t \in Threads /\ Alone(t) /\ pc[t] = "leave" /\ pc'[t] = "finish"
        /\ m \in Keys /\ m[1] = hand[t].b /\ held' = held \ {m}
    BY <1>7, LeaveDoes DEF Key
  <2> HIDE DEF m
  <2>2. ~GetsTurn(t, b)
    BY <2>1 DEF GetsTurn, AtWork
  <2>3. CASE m[1] # b
    <3>1. \A k \in (task_queue' \union settling') \ held' :
            k[1] = b => k \in (task_queue \union settling) \ held
      BY <2>1, <2>3
    <3>2. QED
      BY <1>f, <2>1, <2>2, <3>1
  <2>4. CASE m[1] = b
    <3>1. Single(workq, Of(b), Turns(b))
      BY <1>g, <2>1
    <3>2. <<"thread", t>> \in Turns(b)
      BY <2>1, <2>4 DEF Turns, HasTurn, Inside
    <3>3. \A y \in Turns(b) : y = <<"thread", t>>
      BY <3>1, <3>2 DEF Single
    <3>4. ASSUME NEW u \in Threads PROVE ~GetsTurn(u, b)
      <4>1. CASE u = t
        BY <2>2, <4>1
      <4>2. CASE u # t
        <5>1. ~HasTurn(u, b)
          <6>1. SUFFICES ASSUME HasTurn(u, b) PROVE FALSE
            OBVIOUS
          <6>2. <<"thread", u>> \in Turns(b)
            BY <6>1 DEF Turns
          <6>3. <<"thread", u>> = <<"thread", t>>
            BY <3>3, <6>2
          <6>4. QED
            BY <4>2, <6>3
        <5>2. pc'[u] = pc[u] /\ hand'[u] = hand[u]
          BY <2>1, <4>2 DEF Alone
        <5>3. QED
          BY <5>1, <5>2 DEF GetsTurn, HasTurn, Inside, AtWork
      <4>3. QED
        BY <4>1, <4>2
    <3>5. ASSUME NEW k \in (task_queue' \union settling') \ held', k[1] = b PROVE k = m
      <4>1. SUFFICES ASSUME k # m PROVE FALSE
        OBVIOUS
      <4>2. k \in (task_queue \union settling) \ held
        BY <2>1, <3>5, <4>1
      <4>3. <<"key", k>> \in Turns(b)
        BY <3>5, <4>2 DEF Turns
      <4>4. <<"key", k>> = <<"thread", t>>
        BY <3>3, <4>3
      <4>5. QED
        BY <4>4
    <3>6. Turns(b)' \subseteq {<<"key", m>>}
      BY <3>4, <3>5, TurnsAfter
    <3>7. workq' = workq
      BY <2>1
    <3>8. QED
      BY <3>1, <3>2, <3>6, <3>7, SingleMoves
  <2>5. QED
    BY <2>3, <2>4
<1>8. ASSUME NEW t \in Workers, OnEvent(t) PROVE Single(workq', Of(b), Turns(b)')
  <2> DEFINE m == Key(hand[t])
  <2>1. /\ UNCHANGED <<workq, held, settling, unguarded>>
        /\ t \in Threads /\ Alone(t) /\ pc[t] = "event" /\ pc'[t] = "push"
        /\ m \in task_queue /\ m \in Keys
        /\ hand'[t] = Task("resume", m) /\ task_queue' = task_queue \ {m}
    BY <1>8, OnEventDoes
  <2>2. Excused(m)
    BY <2>1 DEF GuardInv
  <2> HIDE DEF m
  <2>3. m \notin settling
    BY <2>1, NotTwice
  <2>4. CASE m[1] # b
    <3>1. ~GetsTurn(t, b)
      BY <2>1, <2>4, ResumeOf DEF GetsTurn, AtWork
    <3>2. QED
      BY <1>f, <2>1, <3>1
  <2>5. CASE m[1] = b
    BY <1>h, <2>1, <2>2, <2>3, <2>5
  <2>6. QED
    BY <2>4, <2>5
<1>9. ASSUME NEW t \in DbWorkers, DbPop(t) PROVE Single(workq', Of(b), Turns(b)')
  <2>1. /\ UNCHANGED <<workq, task_queue, held, settling, unguarded>>
        /\ t \in Threads /\ Alone(t) /\ pc'[t] = "get"
    BY <1>9, DbPopDoes
  <2>2. ~GetsTurn(t, b)
    BY <2>1 DEF GetsTurn, AtWork
  <2>3. QED
    BY <1>f, <2>1, <2>2
<1>10. ASSUME NEW t \in DbWorkers, GetNull(t) PROVE Single(workq', Of(b), Turns(b)')
  <2>1. /\ UNCHANGED <<workq, task_queue, held, settling>> /\ unguarded \subseteq unguarded'
        /\ t \in Threads /\ Alone(t) /\ pc'[t] = "push" /\ hand'[t] = hand[t] /\ hand[t].kind = "event"
    BY <1>10, GetNullDoes
  <2>2. ~GetsTurn(t, b)
    BY <2>1 DEF GetsTurn, AtWork, Of
  <2>3. QED
    BY <1>f, <2>1, <2>2
<1>11. ASSUME NEW m \in Keys, Settle(m) PROVE Single(workq', Of(b), Turns(b)')
  <2>1. /\ UNCHANGED <<workq, task_queue, held, unguarded>>
        /\ m \in settling /\ settling' = settling \ {m}
        /\ "stop" \in Threads /\ Alone("stop") /\ pc'["stop"] = "push"
        /\ hand'["stop"] = Task("resume", m)
    BY <1>11, SettleDoes
  <2>2. Excused(m)
    BY <2>1 DEF GuardInv
  <2>3. m \notin task_queue
    BY <2>1, NotTwice
  <2>4. CASE m[1] # b
    <3>1. ~GetsTurn("stop", b)
      BY <2>1, <2>4, ResumeOf DEF GetsTurn, AtWork
    <3>2. QED
      BY <1>f, <2>1, <3>1
  <2>5. CASE m[1] = b
    BY <1>h, <2>1, <2>2, <2>3, <2>5
  <2>6. QED
    BY <2>4, <2>5
<1>12. CASE TakeAll
  <2>1. /\ UNCHANGED <<workq, held, pc, hand>> /\ settling' = task_queue /\ task_queue' = {}
        /\ unguarded \subseteq unguarded' /\ "stop" \in Threads
    BY <1>12, TakeAllDoes, Roles
  <2>2. Alone("stop") /\ (GetsTurn("stop", b) => HasTurn("stop", b))
    BY <2>1 DEF Alone, GetsTurn, HasTurn, Inside, AtWork
  <2>3. QED
    BY <1>f, <2>1, <2>2
<1>13. CASE UNCHANGED <<keyVars, pc, hand, dbq>>
  <2>1. UNCHANGED <<workq, task_queue, held, settling, unguarded, pc, hand>> /\ "stop" \in Threads
    BY <1>13, Roles DEF keyVars
  <2>2. Alone("stop") /\ (GetsTurn("stop", b) => HasTurn("stop", b))
    BY <2>1 DEF Alone, GetsTurn, HasTurn, Inside, AtWork
  <2>3. QED
    BY <1>f, <2>1, <2>2
<1>14. QED
  BY <1>1, <1>2, <1>3, <1>4, <1>5, <1>6, <1>7, <1>8, <1>9, <1>10, <1>11, <1>12, <1>13, StepKinds

LEMMA OneTurnHolds ==
  Spec => [](PoolInv /\ HandInv /\ KnownInv /\ OneResume /\ GuardInv /\ OneTurn)
<1>1. Init => GuardInv /\ OneTurn
  <2> SUFFICES ASSUME Init PROVE GuardInv /\ OneTurn
    OBVIOUS
  <2>1. /\ workq = << >> /\ task_queue = {} /\ settling = {}
        /\ \A t \in Threads : pc[t] = "idle"
    BY DEF Init
  <2>2. 1 .. Len(workq) = {}
    BY <2>1
  <2>3. GuardInv
    BY <2>1, <2>2 DEF GuardInv
  <2>4. ASSUME NEW b \in Businesses PROVE Single(workq, Of(b), Turns(b))
    <3>1. \A t \in Threads : ~HasTurn(t, b)
      BY <2>1, Roles DEF HasTurn, Inside
    <3>2. Turns(b) = {}
      BY <2>1, <3>1 DEF Turns
    <3>3. QED
      BY <2>2, <3>2 DEF Single
  <2>5. QED
    BY <2>3, <2>4 DEF OneTurn
<1>2. QED
  BY <1>1, OneResumeHolds, GuardStep, OneTurnStep, PTL DEF Spec

(* No two threads are ever in the same coroutine, for any number of        *)
(* businesses, queries and threads, as long as nobody resumes it past the  *)
(* guard of the query it is suspended for (EventAwaiter.cpp's              *)
(* suspend_guard and DB_pool.cpp's wait_finished).                         *)
THEOREM CoroutinesAreNotShared == Spec => []OneThreadUnlessUnguarded
<1>1. OneTurn => OneThreadUnlessUnguarded
  <2> SUFFICES ASSUME OneTurn, NEW b \in Businesses, \A k \in unguarded : k[1] # b,
                      NEW t \in Workers, NEW u \in Workers, Inside(t, b), Inside(u, b)
               PROVE  t = u
    BY DEF OneThreadUnlessUnguarded
  <2>1. Single(workq, Of(b), Turns(b))
    BY DEF OneTurn, Guarded
  <2>2. <<"thread", t>> \in Turns(b) /\ <<"thread", u>> \in Turns(b)
    BY Roles DEF Turns, HasTurn
  <2>3. <<"thread", t>> = <<"thread", u>>
    BY <2>1, <2>2 DEF Single
  <2>4. QED
    BY <2>3
<1>2. QED
  BY <1>1, OneTurnHolds, PTL
=============================================================================
