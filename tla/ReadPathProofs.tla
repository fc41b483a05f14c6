--------------------------- MODULE ReadPathProofs ---------------------------
(***************************************************************************)
(* For every number of connections and threads and every capacity: the     *)
(* window of a connection is sound, the state keeps its type and every     *)
(* thread that works on a message has one in its hands, the Reactor never  *)
(* goes to sleep on a bucket that nobody announced, whatever pauses a      *)
(* connection leaves somebody on the way to end the pause, and every slot  *)
(* of a window and every credit of the database is accounted for by a      *)
(* message that is somewhere.                                              *)
(***************************************************************************)
EXTENDS ReadPath, FiniteSetTheorems, TLAPS

---------------------------------------------------------------------------
(* ConnectionFlow: its four operations, each one critical section, keep    *)
(* the three fields consistent.                                            *)

(* try_take, called when its guard holds.                                  *)
LEMMA TryTakeSound ==
  ASSUME NEW f \in Flows, Sound(f), CanTake(f)
  PROVE  TryTake(f) \in Flows /\ Sound(TryTake(f))
<1> DEFINE n == f.in_flight + 1
           last == n >= Window
<1>1. n \in Nat /\ n <= Window /\ last \in BOOLEAN /\ (last <=> n = Window)
  BY SizeAssumption DEF Flows, CanTake
<1> HIDE DEF n, last
<1>2. [f EXCEPT !.in_flight = n, !.full = last] \in Flows
      /\ Sound([f EXCEPT !.in_flight = n, !.full = last])
  BY <1>1 DEF Flows, Sound, CanTake
<1>3. TryTake(f) = [f EXCEPT !.in_flight = n, !.full = last]
  BY DEF TryTake, n, last
<1>4. QED
  BY <1>2, <1>3

(* finish_one: when it requests a resume, it clears full_ with it.         *)
LEMMA FinishOneSound ==
  ASSUME NEW f \in Flows, Sound(f)
  PROVE  FinishOne(f) \in Flows /\ Sound(FinishOne(f))
<1>1. Less(f.in_flight) \in Nat /\ Less(f.in_flight) <= Window
      /\ (Less(f.in_flight) = Window <=> FALSE)
  BY SizeAssumption DEF Flows, Sound, Less
<1>2. FinishOne(f) \in Flows
  BY <1>1 DEF Flows, FinishOne, NeedsResume
<1>3. QED
  BY <1>1, <1>2, SizeAssumption DEF Flows, Sound, FinishOne, NeedsResume

(* release_slot.                                                           *)
LEMMA ReleaseSlotSound ==
  ASSUME NEW f \in Flows, Sound(f)
  PROVE  ReleaseSlot(f) \in Flows /\ Sound(ReleaseSlot(f))
<1> DEFINE n == Less(f.in_flight)
           still == f.full /\ n >= Window
<1>1. n \in Nat /\ n <= Window /\ n # Window /\ still = FALSE
  BY SizeAssumption DEF Flows, Sound, Less
<1> HIDE DEF n, still
<1>2. [f EXCEPT !.in_flight = n, !.full = still] \in Flows
      /\ Sound([f EXCEPT !.in_flight = n, !.full = still])
  BY <1>1 DEF Flows, Sound
<1>3. ReleaseSlot(f) = [f EXCEPT !.in_flight = n, !.full = still]
  BY DEF ReleaseSlot, n, still
<1>4. QED
  BY <1>2, <1>3

(* consume_resume.                                                         *)
LEMMA ConsumeSound ==
  ASSUME NEW f \in Flows, Sound(f)
  PROVE  [f EXCEPT !.resume_pending = FALSE] \in Flows
         /\ Sound([f EXCEPT !.resume_pending = FALSE])
BY DEF Flows, Sound

WindowInv == flow \in [Conns -> Flows] /\ WindowSound

(* One connection's window is replaced by a sound one.                     *)
LEMMA WindowStep ==
  ASSUME WindowInv, NEW c, NEW g,
         flow' = [flow EXCEPT ![c] = g],
         c \in Conns => g \in Flows /\ Sound(g)
  PROVE  WindowInv'
<1>1. ASSUME NEW x \in Conns PROVE flow'[x] \in Flows /\ Sound(flow'[x])
  <2>1. CASE x = c
    BY <2>1 DEF WindowInv
  <2>2. CASE x # c
    BY <2>2 DEF WindowInv, WindowSound
  <2>3. QED
    BY <2>1, <2>2
<1>2. flow' \in [Conns -> Flows]
  BY <1>1 DEF WindowInv
<1>3. WindowSound'
  BY <1>1 DEF WindowSound, Sound
<1>4. QED
  BY <1>2, <1>3 DEF WindowInv

LEMMA WindowHolds == Spec => []WindowInv
<1>1. Init => WindowInv
  BY SizeAssumption DEF Init, WindowInv, WindowSound, Sound, Flows
<1>2. WindowInv /\ [Next]_vars => WindowInv'
  <2> SUFFICES ASSUME WindowInv, [Next]_vars PROVE WindowInv'
    OBVIOUS
  <2>1. CASE UNCHANGED flow
    BY <2>1 DEF WindowInv, WindowSound
  <2>2. ASSUME NEW c \in Conns, ResumeConsume(c) \/ RetryConsume(c)
        PROVE  WindowInv'
    <3>1. flow' = [flow EXCEPT ![c] = [flow[c] EXCEPT !.resume_pending = FALSE]]
      BY <2>2 DEF ResumeConsume, RetryConsume
    <3>2. flow[c] \in Flows /\ Sound(flow[c])
      BY DEF WindowInv, WindowSound
    <3>3. QED
      BY <3>1, <3>2, ConsumeSound, WindowStep
  <2>3. CASE ReadTakes
    <3>1. flow' = [flow EXCEPT ![cur] = TryTake(flow[cur])] /\ CanTake(flow[cur])
      BY <2>3 DEF ReadTakes, Stops
    <3>2. cur \in Conns => flow[cur] \in Flows /\ Sound(flow[cur])
      BY DEF WindowInv, WindowSound
    <3>3. QED
      BY <3>1, <3>2, TryTakeSound, WindowStep
  <2>4. CASE GiveSlotBack
    <3>1. flow' = [flow EXCEPT ![cur] = ReleaseSlot(flow[cur])]
      BY <2>4 DEF GiveSlotBack
    <3>2. cur \in Conns => flow[cur] \in Flows /\ Sound(flow[cur])
      BY DEF WindowInv, WindowSound
    <3>3. QED
      BY <3>1, <3>2, ReleaseSlotSound, WindowStep
  <2>5. ASSUME NEW w \in WorkWorkers, WorkFinish(w) PROVE WindowInv'
    <3> DEFINE c == hand[w].conn
    <3>1. flow' = [flow EXCEPT ![c] = FinishOne(flow[c])]
      BY <2>5 DEF WorkFinish
    <3>2. c \in Conns => flow[c] \in Flows /\ Sound(flow[c])
      BY DEF WindowInv, WindowSound
    <3>3. QED
      BY <3>1, <3>2, FinishOneSound, WindowStep
  <2>6. ASSUME NEW c \in Conns, Arrive(c) \/ CloseClient(c) \/ ReadEvent(c)
        PROVE  UNCHANGED flow
    BY <2>6 DEF Arrive, CloseClient, ReadEvent, sharedVars
  <2>7. CASE \/ WakeEvent \/ ResumeSwap \/ ResumeUnpause \/ ResumesDone \/ RetryUnpause \/ RetriesDone
             \/ ReadStops \/ ReadBytes \/ Admit \/ Park \/ Pause \/ Dispatch
             \/ GiveCreditBack \/ Defer \/ Drain
    BY <2>7, <2>1 DEF WakeEvent, ResumeSwap, ResumeUnpause, ResumesDone, RetryUnpause, RetriesDone,
         ReadStops, ReadBytes, Admit, Park, Pause, Dispatch, GiveCreditBack, Defer,
         Drain, DrainTake, DrainAcquire, DrainDispatch, DrainNotify, Wakeup, sharedVars
  <2>8. ASSUME NEW d \in DivideWorkers, Divide(d) PROVE UNCHANGED flow
    BY <2>8 DEF Divide, DividePop, LowWater, DivideWork, DivideThrows, sharedVars
  <2>9. ASSUME NEW w \in WorkWorkers, Work(w), ~WorkFinish(w) PROVE UNCHANGED flow
    BY <2>9 DEF Work, WorkPop, WorkAwaits, WorkSuspends, WorkEnds, WorkCheck, WorkNotify,
         Wakeup, WorkEvent, sharedVars
  <2>10. ASSUME NEW b \in DbWorkers, Db(b) PROVE UNCHANGED flow
    BY <2>10 DEF Db, DbPop, DbAnswers, sharedVars
  <2>11. CASE UNCHANGED vars
    BY <2>11, <2>1 DEF vars, sharedVars
  <2>12. CASE Reactor
    BY <2>12, <2>1, <2>2, <2>3, <2>4, <2>6, <2>7 DEF Reactor
  <2>13. QED
    BY <2>1, <2>5, <2>6, <2>7, <2>8, <2>9, <2>10, <2>11, <2>12, ScriptAssumption DEF Next
<1>3. QED
  BY <1>1, <1>2, PTL DEF Spec

(* full_ says exactly that the window is used up, and a requested resume   *)
(* always finds room: Reactor and work workers may interleave try_take,    *)
(* finish_one, release_slot and consume_resume in any way.                 *)
THEOREM WindowIsSound == Spec => []WindowSound
<1>1. WindowInv => WindowSound
  BY DEF WindowInv
<1>2. QED
  BY <1>1, WindowHolds, PTL

---------------------------------------------------------------------------
(* The eventfd and the two buckets.  pending_resume_ is filled before       *)
(* wake_fd_ is written and swapped out after it has been read; what lies   *)
(* in pending_divide_retry_ at a wake-up is covered by the pass that wakes *)
(* up, which swaps that bucket out later.                                  *)
Announced == woken \/ \E t \in Threads \ {"reactor"} : pc[t] = "wakeup"

BucketInv ==
  /\ pc = [t \in Threads |-> pc[t]]
  /\ woken \in BOOLEAN
  /\ phase \in {"event", "resume", "retry"}
  /\ pc["reactor"] = "swap" => phase = "resume"
  /\ pc["reactor"] = "retry" => phase = "retry"
  /\ resumes # {} => Announced \/ pc["reactor"] = "swap"
  /\ retries # {} => woken \/ (pc["reactor"] # "idle" /\ phase = "resume")

LEMMA WorkersAreNotTheReactor ==
  /\ "reactor" \in Threads /\ "drain" \in Threads
  /\ \A t \in DivideWorkers \union WorkWorkers \union DbWorkers :
       t \in Threads /\ t # "reactor"
BY ThreadAssumption DEF Threads

(* A thread other than the Reactor moves: it may add to the resumes when   *)
(* it goes on to wake the Reactor, and wakes it when it leaves "wakeup".   *)
LEMMA OtherThreadStep ==
  ASSUME BucketInv, NEW t \in Threads \ {"reactor"}, NEW there,
         Goto(t, there), UNCHANGED <<phase, retries>>,
         woken' \in BOOLEAN, woken => woken', pc[t] = "wakeup" => woken',
         resumes' = resumes \/ there = "wakeup"
  PROVE  BucketInv'
<1>1. /\ pc' = [u \in Threads |-> pc'[u]] /\ pc'["reactor"] = pc["reactor"]
      /\ pc'[t] = there /\ \A u \in Threads \ {t} : pc'[u] = pc[u]
  BY WorkersAreNotTheReactor DEF BucketInv, Goto
<1>2. Announced => Announced'
  BY <1>1 DEF Announced
<1>3. there = "wakeup" => Announced'
  BY <1>1 DEF Announced
<1>4. QED
  BY <1>1, <1>2, <1>3 DEF BucketInv

(* The Reactor moves; what the other threads have announced stays so.      *)
LEMMA ReactorStep ==
  ASSUME BucketInv, NEW there, Goto("reactor", there)
  PROVE  /\ pc' = [u \in Threads |-> pc'[u]] /\ pc'["reactor"] = there
         /\ (woken => woken') => (Announced => Announced')
<1>1. /\ pc' = [u \in Threads |-> pc'[u]] /\ pc'["reactor"] = there
      /\ \A u \in Threads \ {"reactor"} : pc'[u] = pc[u]
  BY WorkersAreNotTheReactor DEF BucketInv, Goto
<1>2. QED
  BY <1>1 DEF Announced

(* The Reactor moves without touching the buckets.                         *)
LEMMA ReactorQuietStep ==
  ASSUME BucketInv, NEW there, Goto("reactor", there),
         UNCHANGED <<phase, retries, resumes, woken>>,
         pc["reactor"] # "swap", there # "swap",
         there = "retry" => phase = "retry",
         there = "idle" => phase # "resume" \/ pc["reactor"] = "idle"
  PROVE  BucketInv'
BY ReactorStep DEF BucketInv

(* Whenever the Reactor is back in epoll_wait with a connection left in    *)
(* pending_resume_ or pending_divide_retry_, wake_fd_ is readable or about *)
(* to be: no schedule_resume and no Full is slept on.                      *)
THEOREM NoBucketSleptOn == Spec => []BucketsAreAnnounced
<1>1. Init => BucketInv
  BY WorkersAreNotTheReactor DEF Init, BucketInv
<1>2. BucketInv /\ [Next]_vars => BucketInv'
  <2> SUFFICES ASSUME BucketInv, [Next]_vars PROVE BucketInv'
    OBVIOUS
  <2>1. CASE UNCHANGED <<pc, phase, retries, resumes, woken>>
    BY <2>1 DEF BucketInv, Announced
  <2>2. ASSUME NEW c \in Conns, Arrive(c) \/ CloseClient(c)
        PROVE  UNCHANGED <<pc, phase, retries, resumes, woken>>
    BY <2>2 DEF Arrive, CloseClient, sharedVars, reactorVars
  <2>3. CASE Reactor
    <3>1. ASSUME NEW c \in Conns, ReadEvent(c) PROVE BucketInv'
      BY <3>1, ReactorStep DEF ReadEvent, BucketInv, sharedVars
    <3>2. ASSUME NEW c \in Conns, ResumeConsume(c) \/ RetryConsume(c) PROVE BucketInv'
      BY <3>2, ReactorQuietStep DEF ResumeConsume, RetryConsume
    <3>3. CASE WakeEvent \/ ResumeSwap
      <4>1. CASE WakeEvent
        <5>1. /\ pc' = [u \in Threads |-> pc'[u]] /\ pc'["reactor"] = "swap"
              /\ phase' = "resume" /\ woken' = FALSE
          BY <4>1, ReactorStep DEF WakeEvent
        <5>2. QED
          BY <5>1 DEF BucketInv
      <4>2. CASE ResumeSwap
        <5>1. /\ pc' = [u \in Threads |-> pc'[u]] /\ pc'["reactor"] = "resume"
              /\ phase' = "resume" /\ woken' = woken /\ resumes' = {}
          BY <4>2, ReactorStep DEF ResumeSwap, BucketInv
        <5>2. QED
          BY <5>1 DEF BucketInv
      <4>3. QED
        BY <3>3, <4>1, <4>2
    <3>4. CASE ResumesDone
      BY <3>4, ReactorStep DEF ResumesDone, BucketInv, sharedVars
    <3>5. CASE RetriesDone
      BY <3>5, ReactorQuietStep DEF RetriesDone, BucketInv, sharedVars, reactorVars
    <3>6. CASE ResumeUnpause \/ RetryUnpause
      BY <3>6, ReactorQuietStep DEF ResumeUnpause, RetryUnpause, reactorVars
    <3>7. CASE ReadStops
      BY <3>7, ReactorQuietStep DEF ReadStops, Caller, BucketInv, sharedVars, reactorVars
    <3>8. CASE ReadBytes
      BY <3>8, <2>1 DEF ReadBytes, sharedVars, reactorVars
    <3>9. CASE ReadTakes \/ Admit \/ Park \/ Pause \/ Dispatch \/ GiveCreditBack \/ GiveSlotBack
      BY <3>9, ReactorQuietStep DEF ReadTakes, Admit, Park, Pause, Dispatch, GiveCreditBack,
           GiveSlotBack, sharedVars, reactorVars
    <3>10. CASE Defer
      BY <3>10, ReactorStep DEF Defer, Caller, BucketInv
    <3>11. QED
      BY <2>3, <3>1, <3>2, <3>3, <3>4, <3>5, <3>6, <3>7, <3>8, <3>9, <3>10 DEF Reactor
  <2>4. CASE Drain
    BY <2>4, WorkersAreNotTheReactor, OtherThreadStep
       DEF Drain, DrainTake, DrainAcquire, DrainDispatch, DrainNotify, ScheduleResume,
           Wakeup, BucketInv, sharedVars, reactorVars
  <2>5. ASSUME NEW d \in DivideWorkers, Divide(d) PROVE BucketInv'
    <3>1. CASE DividePop(d) \/ LowWater(d)
      BY <3>1, WorkersAreNotTheReactor, OtherThreadStep
         DEF DividePop, LowWater, BucketInv, sharedVars, reactorVars
    <3>2. CASE DivideWork(d) \/ DivideThrows(d)
      BY <3>2, WorkersAreNotTheReactor, OtherThreadStep
         DEF DivideWork, DivideThrows, BucketInv, sharedVars, reactorVars
    <3>3. QED
      BY <2>5, <3>1, <3>2 DEF Divide
  <2>6. ASSUME NEW w \in WorkWorkers, Work(w) PROVE BucketInv'
    BY <2>6, WorkersAreNotTheReactor, OtherThreadStep
       DEF Work, WorkPop, WorkAwaits, WorkSuspends, WorkEnds, WorkFinish, WorkCheck,
           WorkNotify, Wakeup, WorkEvent, ScheduleResume, BucketInv, sharedVars, reactorVars
  <2>7. ASSUME NEW b \in DbWorkers, Db(b) PROVE BucketInv'
    BY <2>7, WorkersAreNotTheReactor, OtherThreadStep
       DEF Db, DbPop, DbAnswers, BucketInv, sharedVars, reactorVars
  <2>8. CASE UNCHANGED vars
    BY <2>8, <2>1 DEF vars, sharedVars, reactorVars
  <2>9. QED
    BY <2>1, <2>2, <2>3, <2>4, <2>5, <2>6, <2>7, <2>8, ScriptAssumption DEF Next
<1>3. BucketInv => BucketsAreAnnounced
  BY DEF BucketInv, BucketsAreAnnounced, Announced
<1>4. QED
  BY <1>1, <1>2, <1>3, PTL DEF Spec

---------------------------------------------------------------------------
(* Types.  A thread at one of these steps has a message in its hands.      *)
Carrying == {"admit", "park", "dispatch", "uncredit", "unslot", "acquire", "notify", "low_water",
             "divide", "task", "submit", "event", "finish", "check", "query"}
PCs == ReactorPCs \union WorkerPCs

ConnTypes ==
  /\ sent \in [Conns -> Nat] /\ received \in [Conns -> Nat] /\ taken \in [Conns -> Nat]
  /\ \A c \in Conns : taken[c] <= received[c] /\ received[c] <= sent[c]
                       /\ sent[c] <= Len(Script[c])
  /\ interest \in [Conns -> BOOLEAN] /\ edge \in [Conns -> BOOLEAN]
  /\ connected \in [Conns -> BOOLEAN]
SharedTypes ==
  /\ paused \in [Conns -> BOOLEAN]
  /\ resumes \subseteq Conns /\ retries \subseteq Conns /\ bucket \subseteq Conns
  /\ woken \in BOOLEAN /\ signal \in BOOLEAN
  /\ cur \in Conns /\ phase \in {"event", "resume", "retry"}
QueueTypes ==
  /\ available \in 0 .. CreditLimit
  /\ waiting \in Seq(Messages) /\ divideq \in Seq(Messages)
  /\ workq \in Seq(Messages) /\ dbq \in Seq(Messages)
  /\ Len(divideq) <= DivideHigh /\ Len(workq) <= WorkHigh /\ Len(dbq) <= DbHigh
ThreadTypes ==
  /\ hand \in [Threads -> Messages \union {None}]
  /\ pc \in [Threads -> PCs]
  /\ \A t \in Threads : pc[t] \in Carrying => hand[t] \in Messages
  /\ \A t \in Threads : pc[t] = "submit" => hand[t].queries > 0
\* The message in the Reactor's hands counts as taken.
TakenInv == pc["reactor"] \in {"admit", "dispatch", "uncredit", "unslot"} => taken[cur] > 0

TypeInv == ConnTypes /\ SharedTypes /\ QueueTypes /\ ThreadTypes /\ TakenInv

(* A thread goes on with what it has in its hands ...                      *)
LEMMA ThreadGoesOn ==
  ASSUME ThreadTypes, NEW t \in Threads, NEW there \in PCs, Goto(t, there), UNCHANGED hand,
         there \in Carrying => pc[t] \in Carrying,
         there = "submit" => hand[t].queries > 0
  PROVE  ThreadTypes'
BY DEF ThreadTypes, Goto

(* ... with nothing ...                                                    *)
LEMMA ThreadPuts ==
  ASSUME ThreadTypes, NEW t \in Threads, NEW there \in PCs \ Carrying, Goto(t, there),
         Holds(t, None)
  PROVE  ThreadTypes'
BY DEF ThreadTypes, Goto, Holds, Carrying

(* ... or with a message it has just got.                                  *)
LEMMA ThreadGets ==
  ASSUME ThreadTypes, NEW t \in Threads, NEW there \in PCs \ {"submit"}, Goto(t, there),
         NEW m \in Messages, Holds(t, m)
  PROVE  ThreadTypes'
BY DEF ThreadTypes, Goto, Holds

LEMMA PopsOne ==
  ASSUME NEW q \in Seq(Messages), q # << >>
  PROVE  /\ Head(q) \in Messages /\ Tail(q) \in Seq(Messages)
         /\ \A high \in Nat : Len(q) <= high => Len(Tail(q)) <= high
<1>1. Len(q) \in Nat /\ Len(Tail(q)) \in Nat /\ Len(Tail(q)) <= Len(q)
  OBVIOUS
<1>2. QED
  BY <1>1

LEMMA PushesOne ==
  ASSUME NEW q \in Seq(Messages), NEW m \in Messages
  PROVE  /\ Append(q, m) \in Seq(Messages)
         /\ \A high \in Nat : Len(q) < high => Len(Append(q, m)) <= high
<1>1. Len(q) \in Nat /\ Len(Append(q, m)) = Len(q) + 1
  OBVIOUS
<1>2. QED
  BY <1>1

\* Only the Reactor changes what TakenInv speaks of.
LEMMA OthersTakeNothing ==
  ASSUME ThreadTypes, TakenInv, NEW t \in Threads \ {"reactor"}, NEW there, Goto(t, there),
         UNCHANGED <<cur, taken>>
  PROVE  TakenInv'
BY WorkersAreNotTheReactor DEF TakenInv, ThreadTypes, Goto

LEMMA ReactorTypeStep ==
  ASSUME TypeInv, WindowInv, Reactor
  PROVE  TypeInv'
<1> USE WorkersAreNotTheReactor
<1>1. ASSUME NEW c \in Conns, ReadEvent(c) PROVE TypeInv'
  <2>1. ConnTypes'
    BY <1>1
       DEF ReadEvent, TypeInv, ConnTypes, sharedVars
  <2>2. SharedTypes'
    BY <1>1
       DEF ReadEvent, TypeInv, SharedTypes, sharedVars, reactorVars
  <2>3. QueueTypes'
    BY <1>1
       DEF ReadEvent, TypeInv, QueueTypes, queueVars
  <2>4. ThreadTypes'
    BY <1>1, ThreadGoesOn
       DEF ReadEvent, TypeInv, PCs, ReactorPCs, Carrying
  <2>5. TakenInv'
    BY <1>1
       DEF ReadEvent, TypeInv, TakenInv, Goto, ThreadTypes
  <2>6. QED
    BY <2>1, <2>2, <2>3, <2>4, <2>5 DEF TypeInv
<1>2. ASSUME NEW c \in Conns, ResumeConsume(c) \/ RetryConsume(c) PROVE TypeInv'
  <2>1. ConnTypes'
    BY <1>2
       DEF ResumeConsume, RetryConsume, TypeInv, ConnTypes, connVars
  <2>2. SharedTypes'
    BY <1>2
       DEF ResumeConsume, RetryConsume, TypeInv, SharedTypes, WindowInv, Flows
  <2>3. QueueTypes'
    BY <1>2
       DEF ResumeConsume, RetryConsume, TypeInv, QueueTypes, queueVars
  <2>4. ThreadTypes'
    BY <1>2, ThreadGoesOn
       DEF ResumeConsume, RetryConsume, TypeInv, PCs, ReactorPCs, Carrying
  <2>5. TakenInv'
    BY <1>2
       DEF ResumeConsume, RetryConsume, TypeInv, TakenInv, Goto, ThreadTypes
  <2>6. QED
    BY <2>1, <2>2, <2>3, <2>4, <2>5 DEF TypeInv
<1>3. CASE WakeEvent \/ ResumeSwap
  <2>1. ConnTypes'
    BY <1>3
       DEF WakeEvent, ResumeSwap, TypeInv, ConnTypes, connVars
  <2>2. SharedTypes'
    BY <1>3
       DEF WakeEvent, ResumeSwap, TypeInv, SharedTypes, sharedVars, reactorVars
  <2>3. QueueTypes'
    BY <1>3
       DEF WakeEvent, ResumeSwap, TypeInv, QueueTypes, queueVars
  <2>4. ThreadTypes'
    BY <1>3, ThreadGoesOn
       DEF WakeEvent, ResumeSwap, TypeInv, PCs, ReactorPCs, Carrying
  <2>5. TakenInv'
    BY <1>3
       DEF WakeEvent, ResumeSwap, TypeInv, TakenInv, Goto, ThreadTypes
  <2>6. QED
    BY <2>1, <2>2, <2>3, <2>4, <2>5 DEF TypeInv
<1>4. CASE ResumeUnpause
  <2>1. ConnTypes'
    BY <1>4
       DEF ResumeUnpause, TypeInv, ConnTypes, Arm
  <2>2. SharedTypes'
    BY <1>4
       DEF ResumeUnpause, TypeInv, SharedTypes, sharedVars, reactorVars
  <2>3. QueueTypes'
    BY <1>4
       DEF ResumeUnpause, TypeInv, QueueTypes, queueVars
  <2>4. ThreadTypes'
    BY <1>4, ThreadGoesOn
       DEF ResumeUnpause, TypeInv, PCs, ReactorPCs, Carrying
  <2>5. TakenInv'
    BY <1>4
       DEF ResumeUnpause, TypeInv, TakenInv, Goto, ThreadTypes
  <2>6. QED
    BY <2>1, <2>2, <2>3, <2>4, <2>5 DEF TypeInv
<1>5. CASE ResumesDone
  <2>1. ConnTypes'
    BY <1>5
       DEF ResumesDone, TypeInv, ConnTypes, connVars
  <2>2. SharedTypes'
    BY <1>5
       DEF ResumesDone, TypeInv, SharedTypes, sharedVars, reactorVars
  <2>3. QueueTypes'
    BY <1>5
       DEF ResumesDone, TypeInv, QueueTypes, queueVars
  <2>4. ThreadTypes'
    BY <1>5, ThreadGoesOn
       DEF ResumesDone, TypeInv, PCs, ReactorPCs, Carrying
  <2>5. TakenInv'
    BY <1>5
       DEF ResumesDone, TypeInv, TakenInv, Goto, ThreadTypes
  <2>6. QED
    BY <2>1, <2>2, <2>3, <2>4, <2>5 DEF TypeInv
<1>6. CASE RetryUnpause
  <2>1. ConnTypes'
    BY <1>6
       DEF RetryUnpause, TypeInv, ConnTypes, Arm
  <2>2. SharedTypes'
    BY <1>6
       DEF RetryUnpause, TypeInv, SharedTypes, sharedVars, reactorVars
  <2>3. QueueTypes'
    BY <1>6
       DEF RetryUnpause, TypeInv, QueueTypes, queueVars
  <2>4. ThreadTypes'
    BY <1>6, ThreadGoesOn
       DEF RetryUnpause, TypeInv, PCs, ReactorPCs, Carrying
  <2>5. TakenInv'
    BY <1>6
       DEF RetryUnpause, TypeInv, TakenInv, Goto, ThreadTypes
  <2>6. QED
    BY <2>1, <2>2, <2>3, <2>4, <2>5 DEF TypeInv
<1>7. CASE RetriesDone \/ ReadStops
  <2>1. ConnTypes'
    BY <1>7
       DEF RetriesDone, ReadStops, TypeInv, ConnTypes, connVars
  <2>2. SharedTypes'
    BY <1>7
       DEF RetriesDone, ReadStops, TypeInv, SharedTypes, sharedVars, reactorVars
  <2>3. QueueTypes'
    BY <1>7
       DEF RetriesDone, ReadStops, TypeInv, QueueTypes, queueVars
  <2>4. ThreadTypes'
    BY <1>7, ThreadGoesOn
       DEF RetriesDone, ReadStops, TypeInv, PCs, ReactorPCs, Carrying, Caller, SharedTypes
  <2>5. TakenInv'
    BY <1>7
       DEF RetriesDone, ReadStops, TypeInv, TakenInv, Goto, ThreadTypes, Caller, SharedTypes, reactorVars, connVars
  <2>6. QED
    BY <2>1, <2>2, <2>3, <2>4, <2>5 DEF TypeInv
<1>8. CASE ReadBytes
  <2>1. ConnTypes'
    BY <1>8
       DEF ReadBytes, TypeInv, ConnTypes, SharedTypes
  <2>2. SharedTypes'
    BY <1>8
       DEF ReadBytes, TypeInv, SharedTypes, sharedVars, reactorVars
  <2>3. QueueTypes'
    BY <1>8
       DEF ReadBytes, TypeInv, QueueTypes, queueVars
  <2>4. ThreadTypes'
    BY <1>8
       DEF ReadBytes, TypeInv, ThreadTypes
  <2>5. TakenInv'
    BY <1>8
       DEF ReadBytes, TypeInv, TakenInv, reactorVars
  <2>6. QED
    BY <2>1, <2>2, <2>3, <2>4, <2>5 DEF TypeInv
<1>9. CASE ReadTakes
  <2>1. ConnTypes'
    <3>1. /\ cur \in Conns /\ taken[cur] \in Nat /\ received[cur] \in Nat /\ taken[cur] < received[cur]
          /\ taken' = [taken EXCEPT ![cur] = @ + 1]
          /\ UNCHANGED <<sent, received, interest, edge, connected>>
      BY <1>9 DEF ReadTakes, TypeInv, ConnTypes, SharedTypes
    <3>2. taken[cur] + 1 \in Nat /\ taken[cur] + 1 <= received[cur]
      BY <3>1
    <3>3. QED
      BY <3>1, <3>2 DEF TypeInv, ConnTypes
  <2>2. SharedTypes'
    BY <1>9
       DEF ReadTakes, TypeInv, SharedTypes, sharedVars, reactorVars
  <2>3. QueueTypes'
    BY <1>9
       DEF ReadTakes, TypeInv, QueueTypes, queueVars
  <2>4. ThreadTypes'
    <3>1. /\ cur \in Conns /\ taken[cur] \in Nat /\ received[cur] \in Nat /\ sent[cur] \in Nat
          /\ taken[cur] < received[cur] /\ received[cur] <= sent[cur] /\ sent[cur] <= Len(Script[cur])
      BY <1>9 DEF ReadTakes, TypeInv, ConnTypes, SharedTypes
    <3> DEFINE r == Script[cur][taken[cur] + 1]
               m == [conn |-> cur, class |-> r.class, queries |-> r.queries, hop |-> "task"]
    <3>2. Script[cur] \in Seq(Requests)
      BY <3>1, ScriptAssumption
    <3>3. taken[cur] + 1 \in 1 .. Len(Script[cur])
      BY <3>1, <3>2
    <3>4. r \in Requests
      BY <3>2, <3>3
    <3>5. m \in Messages
      BY <3>1, <3>4 DEF Requests, Messages
    <3>6. Holds("reactor", m) /\ \E there \in {"admit", "dispatch"} : Goto("reactor", there)
      BY <1>9 DEF ReadTakes
    <3> HIDE DEF m
    <3>7. QED
      BY <3>5, <3>6, ThreadGets DEF TypeInv, PCs, ReactorPCs
  <2>5. TakenInv'
    <3>1. cur \in Conns /\ taken \in [Conns -> Nat] /\ taken' = [taken EXCEPT ![cur] = @ + 1] /\ cur' = cur
      BY <1>9 DEF ReadTakes, TypeInv, ConnTypes, SharedTypes, reactorVars
    <3>2. taken'[cur] = taken[cur] + 1 /\ taken[cur] \in Nat
      BY <3>1
    <3>3. QED
      BY <3>1, <3>2 DEF TakenInv
  <2>6. QED
    BY <2>1, <2>2, <2>3, <2>4, <2>5 DEF TypeInv
<1>10. CASE Admit
  <2>1. ConnTypes'
    BY <1>10
       DEF Admit, TypeInv, ConnTypes, connVars
  <2>2. SharedTypes'
    BY <1>10
       DEF Admit, TypeInv, SharedTypes, sharedVars, reactorVars
  <2>3. QueueTypes'
    <3>1. available \in 0 .. CreditLimit /\ CreditLimit \in Nat
      BY SizeAssumption DEF TypeInv, QueueTypes
    <3>2. available' \in 0 .. CreditLimit
      BY <1>10, <3>1 DEF Admit, ReleaseCredit
    <3>3. UNCHANGED <<waiting, divideq, workq, dbq>>
      BY <1>10 DEF Admit, queueVars
    <3>4. QED
      BY <3>2, <3>3 DEF TypeInv, QueueTypes
  <2>4. ThreadTypes'
    BY <1>10, ThreadGoesOn
       DEF Admit, TypeInv, PCs, ReactorPCs, Carrying
  <2>5. TakenInv'
    BY <1>10
       DEF Admit, TypeInv, TakenInv, Goto, ThreadTypes, connVars, reactorVars
  <2>6. QED
    BY <2>1, <2>2, <2>3, <2>4, <2>5 DEF TypeInv
<1>11. CASE Park
  <2>1. ConnTypes'
    BY <1>11
       DEF Park, TypeInv, ConnTypes, connVars
  <2>2. SharedTypes'
    BY <1>11
       DEF Park, TypeInv, SharedTypes, sharedVars, reactorVars
  <2>3. QueueTypes'
    <3>1. waiting' = Append(waiting, hand["reactor"]) /\ UNCHANGED <<available, divideq, workq, dbq>>
      BY <1>11 DEF Park
    <3>2. hand["reactor"] \in Messages
      <4>1. hand["reactor"] \in Messages
        BY <1>11 DEF Park, TypeInv, ThreadTypes, Carrying
      <4>2. QED
        BY <1>11, <4>1 DEF Park, Messages, TypeInv, ThreadTypes
    <3>3. waiting' \in Seq(Messages)
      BY <3>1, <3>2, PushesOne, SizeAssumption DEF TypeInv, QueueTypes
    <3>4. QED
      BY <3>1, <3>3 DEF TypeInv, QueueTypes
  <2>4. ThreadTypes'
    BY <1>11, ThreadPuts
       DEF Park, TypeInv, PCs, ReactorPCs, Carrying
  <2>5. TakenInv'
    BY <1>11
       DEF Park, TypeInv, TakenInv, Goto, ThreadTypes
  <2>6. QED
    BY <2>1, <2>2, <2>3, <2>4, <2>5 DEF TypeInv
<1>12. CASE Pause
  <2>1. ConnTypes'
    BY <1>12
       DEF Pause, TypeInv, ConnTypes, Disarm
  <2>2. SharedTypes'
    BY <1>12
       DEF Pause, TypeInv, SharedTypes, sharedVars, reactorVars
  <2>3. QueueTypes'
    BY <1>12
       DEF Pause, TypeInv, QueueTypes, queueVars
  <2>4. ThreadTypes'
    BY <1>12, ThreadGoesOn
       DEF Pause, TypeInv, PCs, ReactorPCs, Carrying
  <2>5. TakenInv'
    BY <1>12
       DEF Pause, TypeInv, TakenInv, Goto, ThreadTypes
  <2>6. QED
    BY <2>1, <2>2, <2>3, <2>4, <2>5 DEF TypeInv
<1>13. CASE Dispatch
  <2>1. ConnTypes'
    BY <1>13
       DEF Dispatch, TypeInv, ConnTypes, connVars
  <2>2. SharedTypes'
    BY <1>13
       DEF Dispatch, TypeInv, SharedTypes, sharedVars, reactorVars
  <2>3. QueueTypes'
    <3>1. CASE UNCHANGED divideq
      BY <1>13, <3>1 DEF Dispatch, TypeInv, QueueTypes
    <3>2. CASE divideq' = Append(divideq, hand["reactor"]) /\ Len(divideq) < DivideHigh
      <4>1. hand["reactor"] \in Messages /\ UNCHANGED <<available, waiting, workq, dbq>>
        BY <1>13 DEF Dispatch, TypeInv, ThreadTypes, Carrying
      <4>2. divideq' \in Seq(Messages) /\ Len(divideq') <= DivideHigh
        BY <3>2, <4>1, PushesOne, SizeAssumption DEF TypeInv, QueueTypes
      <4>3. QED
        BY <4>1, <4>2 DEF TypeInv, QueueTypes
    <3>3. QED
      BY <1>13, <3>1, <3>2 DEF Dispatch
  <2>4. ThreadTypes'
    <3>1. CASE Holds("reactor", None) /\ Goto("reactor", "read")
      BY <3>1, ThreadPuts DEF TypeInv, PCs, ReactorPCs, Carrying
    <3>2. CASE UNCHANGED hand /\ \E there \in {"uncredit", "unslot"} : Goto("reactor", there)
      BY <1>13, <3>2, ThreadGoesOn DEF Dispatch, TypeInv, PCs, ReactorPCs, Carrying
    <3>3. QED
      BY <1>13, <3>1, <3>2 DEF Dispatch
  <2>5. TakenInv'
    BY <1>13
       DEF Dispatch, TypeInv, TakenInv, Goto, ThreadTypes, connVars, reactorVars
  <2>6. QED
    BY <2>1, <2>2, <2>3, <2>4, <2>5 DEF TypeInv
<1>14. CASE GiveCreditBack
  <2>1. ConnTypes'
    BY <1>14
       DEF GiveCreditBack, TypeInv, ConnTypes, connVars
  <2>2. SharedTypes'
    BY <1>14
       DEF GiveCreditBack, TypeInv, SharedTypes, sharedVars, reactorVars
  <2>3. QueueTypes'
    <3>1. available \in 0 .. CreditLimit /\ CreditLimit \in Nat
      BY SizeAssumption DEF TypeInv, QueueTypes
    <3>2. available' \in 0 .. CreditLimit
      BY <1>14, <3>1 DEF GiveCreditBack, ReleaseCredit
    <3>3. UNCHANGED <<waiting, divideq, workq, dbq>>
      BY <1>14 DEF GiveCreditBack, queueVars
    <3>4. QED
      BY <3>2, <3>3 DEF TypeInv, QueueTypes
  <2>4. ThreadTypes'
    BY <1>14, ThreadGoesOn
       DEF GiveCreditBack, TypeInv, PCs, ReactorPCs, Carrying
  <2>5. TakenInv'
    BY <1>14
       DEF GiveCreditBack, TypeInv, TakenInv, Goto, ThreadTypes, connVars, reactorVars
  <2>6. QED
    BY <2>1, <2>2, <2>3, <2>4, <2>5 DEF TypeInv
<1>15. CASE GiveSlotBack
  <2>1. ConnTypes'
    BY <1>15
       DEF GiveSlotBack, TypeInv, ConnTypes, TakenInv, SharedTypes
  <2>2. SharedTypes'
    BY <1>15
       DEF GiveSlotBack, TypeInv, SharedTypes, sharedVars, reactorVars
  <2>3. QueueTypes'
    BY <1>15
       DEF GiveSlotBack, TypeInv, QueueTypes, queueVars
  <2>4. ThreadTypes'
    BY <1>15, ThreadPuts
       DEF GiveSlotBack, TypeInv, PCs, ReactorPCs, Carrying
  <2>5. TakenInv'
    BY <1>15
       DEF GiveSlotBack, TypeInv, TakenInv, Goto, ThreadTypes
  <2>6. QED
    BY <2>1, <2>2, <2>3, <2>4, <2>5 DEF TypeInv
<1>16. CASE Defer
  <2>1. ConnTypes'
    BY <1>16
       DEF Defer, TypeInv, ConnTypes, Disarm, SharedTypes
  <2>2. SharedTypes'
    BY <1>16
       DEF Defer, TypeInv, SharedTypes, sharedVars, reactorVars
  <2>3. QueueTypes'
    BY <1>16
       DEF Defer, TypeInv, QueueTypes, queueVars
  <2>4. ThreadTypes'
    BY <1>16, ThreadGoesOn
       DEF Defer, TypeInv, PCs, ReactorPCs, Carrying, Caller, SharedTypes
  <2>5. TakenInv'
    BY <1>16
       DEF Defer, TypeInv, TakenInv, Goto, ThreadTypes, Caller, SharedTypes
  <2>6. QED
    BY <2>1, <2>2, <2>3, <2>4, <2>5 DEF TypeInv
<1>17. QED
  BY <1>1, <1>2, <1>3, <1>4, <1>5, <1>6, <1>7, <1>8, <1>9, <1>10, <1>11, <1>12, <1>13, <1>14, <1>15, <1>16 DEF Reactor

LEMMA DrainTypeStep ==
  ASSUME TypeInv, Drain
  PROVE  TypeInv'
<1> USE WorkersAreNotTheReactor
<1>1. CASE DrainTake
  <2>1. ConnTypes'
    BY <1>1
       DEF DrainTake, TypeInv, ConnTypes, connVars
  <2>2. SharedTypes'
    BY <1>1
       DEF DrainTake, TypeInv, SharedTypes, sharedVars, reactorVars
  <2>3. QueueTypes'
    <3>1. waiting # << >> /\ waiting' = Tail(waiting) /\ UNCHANGED <<available, divideq, workq, dbq>>
      BY <1>1 DEF DrainTake
    <3>2. waiting' \in Seq(Messages)
      BY <3>1, PopsOne, SizeAssumption DEF TypeInv, QueueTypes
    <3>3. QED
      BY <3>1, <3>2 DEF TypeInv, QueueTypes
  <2>4. ThreadTypes'
    BY <1>1, ThreadGets, PopsOne
       DEF DrainTake, TypeInv, PCs, WorkerPCs, Carrying, QueueTypes
  <2>5. TakenInv'
    BY <1>1, OthersTakeNothing
       DEF DrainTake, TypeInv, connVars, reactorVars
  <2>6. QED
    BY <2>1, <2>2, <2>3, <2>4, <2>5 DEF TypeInv
<1>2. CASE DrainAcquire
  <2>1. ConnTypes'
    BY <1>2
       DEF DrainAcquire, TypeInv, ConnTypes, connVars
  <2>2. SharedTypes'
    BY <1>2
       DEF DrainAcquire, TypeInv, SharedTypes, sharedVars, reactorVars
  <2>3. QueueTypes'
    <3>1. available \in 0 .. CreditLimit /\ CreditLimit \in Nat
      BY SizeAssumption DEF TypeInv, QueueTypes
    <3>2. available' \in 0 .. CreditLimit
      BY <1>2, <3>1 DEF DrainAcquire, ReleaseCredit
    <3>3. UNCHANGED <<waiting, divideq, workq, dbq>>
      BY <1>2 DEF DrainAcquire, queueVars
    <3>4. QED
      BY <3>2, <3>3 DEF TypeInv, QueueTypes
  <2>4. ThreadTypes'
    BY <1>2, ThreadGoesOn
       DEF DrainAcquire, TypeInv, PCs, WorkerPCs, Carrying
  <2>5. TakenInv'
    BY <1>2, OthersTakeNothing
       DEF DrainAcquire, TypeInv, connVars, reactorVars
  <2>6. QED
    BY <2>1, <2>2, <2>3, <2>4, <2>5 DEF TypeInv
<1>3. CASE DrainDispatch
  <2>1. ConnTypes'
    BY <1>3
       DEF DrainDispatch, TypeInv, ConnTypes, connVars
  <2>2. SharedTypes'
    BY <1>3
       DEF DrainDispatch, TypeInv, SharedTypes, sharedVars, reactorVars
  <2>3. QueueTypes'
    <3>1. divideq' = Append(divideq, hand["drain"]) /\ Len(divideq) < DivideHigh /\ UNCHANGED <<available, waiting, workq, dbq>>
      BY <1>3 DEF DrainDispatch
    <3>2. hand["drain"] \in Messages
      <4>1. hand["drain"] \in Messages
        BY <1>3 DEF DrainDispatch, TypeInv, ThreadTypes, Carrying
      <4>2. QED
        BY <1>3, <4>1 DEF DrainDispatch, Messages, TypeInv, ThreadTypes
    <3>3. divideq' \in Seq(Messages) /\ Len(divideq') <= DivideHigh
      BY <3>1, <3>2, PushesOne, SizeAssumption DEF TypeInv, QueueTypes
    <3>4. QED
      BY <3>1, <3>3 DEF TypeInv, QueueTypes
  <2>4. ThreadTypes'
    BY <1>3, ThreadGoesOn
       DEF DrainDispatch, TypeInv, PCs, WorkerPCs, Carrying
  <2>5. TakenInv'
    BY <1>3, OthersTakeNothing
       DEF DrainDispatch, TypeInv, connVars, reactorVars
  <2>6. QED
    BY <2>1, <2>2, <2>3, <2>4, <2>5 DEF TypeInv
<1>4. CASE DrainNotify
  <2>1. ConnTypes'
    BY <1>4
       DEF DrainNotify, TypeInv, ConnTypes, connVars
  <2>2. SharedTypes'
    BY <1>4
       DEF DrainNotify, TypeInv, SharedTypes, ThreadTypes, Carrying, ScheduleResume, Messages, reactorVars
  <2>3. QueueTypes'
    BY <1>4
       DEF DrainNotify, TypeInv, QueueTypes, queueVars
  <2>4. ThreadTypes'
    BY <1>4, ThreadPuts
       DEF DrainNotify, TypeInv, PCs, WorkerPCs, Carrying, ScheduleResume
  <2>5. TakenInv'
    BY <1>4, OthersTakeNothing
       DEF DrainNotify, TypeInv, ScheduleResume, connVars, reactorVars
  <2>6. QED
    BY <2>1, <2>2, <2>3, <2>4, <2>5 DEF TypeInv
<1>5. CASE Wakeup("drain")
  <2>1. ConnTypes'
    BY <1>5
       DEF Wakeup, TypeInv, ConnTypes, connVars
  <2>2. SharedTypes'
    BY <1>5
       DEF Wakeup, TypeInv, SharedTypes, reactorVars
  <2>3. QueueTypes'
    BY <1>5
       DEF Wakeup, TypeInv, QueueTypes, queueVars
  <2>4. ThreadTypes'
    BY <1>5, ThreadGoesOn
       DEF Wakeup, TypeInv, PCs, WorkerPCs, Carrying
  <2>5. TakenInv'
    BY <1>5, OthersTakeNothing
       DEF Wakeup, TypeInv, connVars, reactorVars
  <2>6. QED
    BY <2>1, <2>2, <2>3, <2>4, <2>5 DEF TypeInv
<1>6. QED
  BY <1>1, <1>2, <1>3, <1>4, <1>5 DEF Drain

LEMMA DivideTypeStep ==
  ASSUME TypeInv, NEW d \in DivideWorkers, Divide(d)
  PROVE  TypeInv'
<1> USE WorkersAreNotTheReactor
<1>1. CASE DividePop(d)
  <2>1. ConnTypes'
    BY <1>1
       DEF DividePop, TypeInv, ConnTypes, connVars
  <2>2. SharedTypes'
    BY <1>1
       DEF DividePop, TypeInv, SharedTypes, sharedVars, reactorVars
  <2>3. QueueTypes'
    <3>1. divideq # << >> /\ divideq' = Tail(divideq) /\ UNCHANGED <<available, waiting, workq, dbq>>
      BY <1>1 DEF DividePop
    <3>2. divideq' \in Seq(Messages) /\ Len(divideq') <= DivideHigh
      BY <3>1, PopsOne, SizeAssumption DEF TypeInv, QueueTypes
    <3>3. QED
      BY <3>1, <3>2 DEF TypeInv, QueueTypes
  <2>4. ThreadTypes'
    BY <1>1, ThreadGets, PopsOne
       DEF DividePop, TypeInv, PCs, WorkerPCs, Carrying, QueueTypes
  <2>5. TakenInv'
    BY <1>1, OthersTakeNothing
       DEF DividePop, TypeInv, connVars, reactorVars
  <2>6. QED
    BY <2>1, <2>2, <2>3, <2>4, <2>5 DEF TypeInv
<1>2. CASE LowWater(d)
  <2>1. ConnTypes'
    BY <1>2
       DEF LowWater, TypeInv, ConnTypes, connVars
  <2>2. SharedTypes'
    BY <1>2
       DEF LowWater, TypeInv, SharedTypes, reactorVars
  <2>3. QueueTypes'
    BY <1>2
       DEF LowWater, TypeInv, QueueTypes, queueVars
  <2>4. ThreadTypes'
    BY <1>2, ThreadGoesOn
       DEF LowWater, TypeInv, PCs, WorkerPCs, Carrying
  <2>5. TakenInv'
    BY <1>2, OthersTakeNothing
       DEF LowWater, TypeInv, connVars, reactorVars
  <2>6. QED
    BY <2>1, <2>2, <2>3, <2>4, <2>5 DEF TypeInv
<1>3. CASE DivideWork(d)
  <2>1. ConnTypes'
    BY <1>3
       DEF DivideWork, TypeInv, ConnTypes, connVars
  <2>2. SharedTypes'
    BY <1>3
       DEF DivideWork, TypeInv, SharedTypes, sharedVars, reactorVars
  <2>3. QueueTypes'
    <3>1. workq' = Append(workq, hand[d]) /\ Len(workq) < WorkHigh /\ UNCHANGED <<available, waiting, divideq, dbq>>
      BY <1>3 DEF DivideWork
    <3>2. hand[d] \in Messages
      <4>1. hand[d] \in Messages
        BY <1>3 DEF DivideWork, TypeInv, ThreadTypes, Carrying
      <4>2. QED
        BY <1>3, <4>1 DEF DivideWork, Messages, TypeInv, ThreadTypes
    <3>3. workq' \in Seq(Messages) /\ Len(workq') <= WorkHigh
      BY <3>1, <3>2, PushesOne, SizeAssumption DEF TypeInv, QueueTypes
    <3>4. QED
      BY <3>1, <3>3 DEF TypeInv, QueueTypes
  <2>4. ThreadTypes'
    BY <1>3, ThreadPuts
       DEF DivideWork, TypeInv, PCs, WorkerPCs, Carrying
  <2>5. TakenInv'
    BY <1>3, OthersTakeNothing
       DEF DivideWork, TypeInv, connVars, reactorVars
  <2>6. QED
    BY <2>1, <2>2, <2>3, <2>4, <2>5 DEF TypeInv
<1>4. CASE DivideThrows(d)
  <2>1. ConnTypes'
    BY <1>4
       DEF DivideThrows, TypeInv, ConnTypes, connVars
  <2>2. SharedTypes'
    BY <1>4
       DEF DivideThrows, TypeInv, SharedTypes, sharedVars, reactorVars
  <2>3. QueueTypes'
    BY <1>4
       DEF DivideThrows, TypeInv, QueueTypes, queueVars
  <2>4. ThreadTypes'
    BY <1>4, ThreadPuts
       DEF DivideThrows, TypeInv, PCs, WorkerPCs, Carrying
  <2>5. TakenInv'
    BY <1>4, OthersTakeNothing
       DEF DivideThrows, TypeInv, connVars, reactorVars
  <2>6. QED
    BY <2>1, <2>2, <2>3, <2>4, <2>5 DEF TypeInv
<1>5. QED
  BY <1>1, <1>2, <1>3, <1>4 DEF Divide

LEMMA WorkTypeStep ==
  ASSUME TypeInv, NEW w \in WorkWorkers, Work(w)
  PROVE  TypeInv'
<1> USE WorkersAreNotTheReactor
<1>1. CASE WorkPop(w)
  <2>1. ConnTypes'
    BY <1>1
       DEF WorkPop, TypeInv, ConnTypes, connVars
  <2>2. SharedTypes'
    BY <1>1
       DEF WorkPop, TypeInv, SharedTypes, sharedVars, reactorVars
  <2>3. QueueTypes'
    <3>1. workq # << >> /\ workq' = Tail(workq) /\ UNCHANGED <<available, waiting, divideq, dbq>>
      BY <1>1 DEF WorkPop
    <3>2. workq' \in Seq(Messages) /\ Len(workq') <= WorkHigh
      BY <3>1, PopsOne, SizeAssumption DEF TypeInv, QueueTypes
    <3>3. QED
      BY <3>1, <3>2 DEF TypeInv, QueueTypes
  <2>4. ThreadTypes'
    BY <1>1, ThreadGets, PopsOne
       DEF WorkPop, TypeInv, PCs, WorkerPCs, Carrying, QueueTypes, Messages
  <2>5. TakenInv'
    BY <1>1, OthersTakeNothing
       DEF WorkPop, TypeInv, connVars, reactorVars
  <2>6. QED
    BY <2>1, <2>2, <2>3, <2>4, <2>5 DEF TypeInv
<1>2. CASE WorkAwaits(w)
  <2>1. ConnTypes'
    BY <1>2
       DEF WorkAwaits, TypeInv, ConnTypes, connVars
  <2>2. SharedTypes'
    BY <1>2
       DEF WorkAwaits, TypeInv, SharedTypes, sharedVars, reactorVars
  <2>3. QueueTypes'
    BY <1>2
       DEF WorkAwaits, TypeInv, QueueTypes, queueVars
  <2>4. ThreadTypes'
    BY <1>2, ThreadGoesOn
       DEF WorkAwaits, TypeInv, PCs, WorkerPCs, Carrying
  <2>5. TakenInv'
    BY <1>2, OthersTakeNothing
       DEF WorkAwaits, TypeInv, connVars, reactorVars
  <2>6. QED
    BY <2>1, <2>2, <2>3, <2>4, <2>5 DEF TypeInv
<1>3. CASE WorkSuspends(w)
  <2>1. ConnTypes'
    BY <1>3
       DEF WorkSuspends, TypeInv, ConnTypes, connVars
  <2>2. SharedTypes'
    BY <1>3
       DEF WorkSuspends, TypeInv, SharedTypes, sharedVars, reactorVars
  <2>3. QueueTypes'
    <3>1. dbq' = Append(dbq, [hand[w] EXCEPT !.queries = @ - 1]) /\ Len(dbq) < DbHigh /\ UNCHANGED <<available, waiting, divideq, workq>>
      BY <1>3 DEF WorkSuspends
    <3>2. [hand[w] EXCEPT !.queries = @ - 1] \in Messages
      <4>1. hand[w] \in Messages
        BY <1>3 DEF WorkSuspends, TypeInv, ThreadTypes, Carrying
      <4>2. QED
        BY <1>3, <4>1 DEF WorkSuspends, Messages, TypeInv, ThreadTypes
    <3>3. dbq' \in Seq(Messages) /\ Len(dbq') <= DbHigh
      BY <3>1, <3>2, PushesOne, SizeAssumption DEF TypeInv, QueueTypes
    <3>4. QED
      BY <3>1, <3>3 DEF TypeInv, QueueTypes
  <2>4. ThreadTypes'
    BY <1>3, ThreadPuts
       DEF WorkSuspends, TypeInv, PCs, WorkerPCs, Carrying
  <2>5. TakenInv'
    BY <1>3, OthersTakeNothing
       DEF WorkSuspends, TypeInv, connVars, reactorVars
  <2>6. QED
    BY <2>1, <2>2, <2>3, <2>4, <2>5 DEF TypeInv
<1>4. CASE WorkEnds(w)
  <2>1. ConnTypes'
    BY <1>4
       DEF WorkEnds, TypeInv, ConnTypes, connVars
  <2>2. SharedTypes'
    BY <1>4
       DEF WorkEnds, TypeInv, SharedTypes, sharedVars, reactorVars
  <2>3. QueueTypes'
    <3>1. available \in 0 .. CreditLimit /\ CreditLimit \in Nat
      BY SizeAssumption DEF TypeInv, QueueTypes
    <3>2. available' \in 0 .. CreditLimit
      BY <1>4, <3>1 DEF WorkEnds, ReleaseCredit
    <3>3. UNCHANGED <<waiting, divideq, workq, dbq>>
      BY <1>4 DEF WorkEnds, queueVars
    <3>4. QED
      BY <3>2, <3>3 DEF TypeInv, QueueTypes
  <2>4. ThreadTypes'
    BY <1>4, ThreadGoesOn
       DEF WorkEnds, TypeInv, PCs, WorkerPCs, Carrying
  <2>5. TakenInv'
    BY <1>4, OthersTakeNothing
       DEF WorkEnds, TypeInv, connVars, reactorVars
  <2>6. QED
    BY <2>1, <2>2, <2>3, <2>4, <2>5 DEF TypeInv
<1>5. CASE WorkFinish(w)
  <2>1. ConnTypes'
    BY <1>5
       DEF WorkFinish, TypeInv, ConnTypes, connVars
  <2>2. SharedTypes'
    BY <1>5
       DEF WorkFinish, TypeInv, SharedTypes, reactorVars
  <2>3. QueueTypes'
    BY <1>5
       DEF WorkFinish, TypeInv, QueueTypes, queueVars
  <2>4. ThreadTypes'
    BY <1>5, ThreadPuts, ThreadGoesOn
       DEF WorkFinish, TypeInv, PCs, WorkerPCs, Carrying
  <2>5. TakenInv'
    BY <1>5, OthersTakeNothing
       DEF WorkFinish, TypeInv, connVars, reactorVars
  <2>6. QED
    BY <2>1, <2>2, <2>3, <2>4, <2>5 DEF TypeInv
<1>6. CASE WorkCheck(w)
  <2>1. ConnTypes'
    BY <1>6
       DEF WorkCheck, TypeInv, ConnTypes, connVars
  <2>2. SharedTypes'
    BY <1>6
       DEF WorkCheck, TypeInv, SharedTypes, sharedVars, reactorVars
  <2>3. QueueTypes'
    BY <1>6
       DEF WorkCheck, TypeInv, QueueTypes, queueVars
  <2>4. ThreadTypes'
    BY <1>6, ThreadPuts, ThreadGoesOn
       DEF WorkCheck, TypeInv, PCs, WorkerPCs, Carrying
  <2>5. TakenInv'
    BY <1>6, OthersTakeNothing
       DEF WorkCheck, TypeInv, connVars, reactorVars
  <2>6. QED
    BY <2>1, <2>2, <2>3, <2>4, <2>5 DEF TypeInv
<1>7. CASE WorkNotify(w)
  <2>1. ConnTypes'
    BY <1>7
       DEF WorkNotify, TypeInv, ConnTypes, connVars
  <2>2. SharedTypes'
    BY <1>7
       DEF WorkNotify, TypeInv, SharedTypes, ThreadTypes, Carrying, ScheduleResume, Messages, reactorVars
  <2>3. QueueTypes'
    BY <1>7
       DEF WorkNotify, TypeInv, QueueTypes, queueVars
  <2>4. ThreadTypes'
    BY <1>7, ThreadPuts
       DEF WorkNotify, TypeInv, PCs, WorkerPCs, Carrying, ScheduleResume
  <2>5. TakenInv'
    BY <1>7, OthersTakeNothing
       DEF WorkNotify, TypeInv, ScheduleResume, connVars, reactorVars
  <2>6. QED
    BY <2>1, <2>2, <2>3, <2>4, <2>5 DEF TypeInv
<1>8. CASE Wakeup(w)
  <2>1. ConnTypes'
    BY <1>8
       DEF Wakeup, TypeInv, ConnTypes, connVars
  <2>2. SharedTypes'
    BY <1>8
       DEF Wakeup, TypeInv, SharedTypes, reactorVars
  <2>3. QueueTypes'
    BY <1>8
       DEF Wakeup, TypeInv, QueueTypes, queueVars
  <2>4. ThreadTypes'
    BY <1>8, ThreadGoesOn
       DEF Wakeup, TypeInv, PCs, WorkerPCs, Carrying
  <2>5. TakenInv'
    BY <1>8, OthersTakeNothing
       DEF Wakeup, TypeInv, connVars, reactorVars
  <2>6. QED
    BY <2>1, <2>2, <2>3, <2>4, <2>5 DEF TypeInv
<1>9. CASE WorkEvent(w)
  <2>1. ConnTypes'
    BY <1>9
       DEF WorkEvent, TypeInv, ConnTypes, connVars
  <2>2. SharedTypes'
    BY <1>9
       DEF WorkEvent, TypeInv, SharedTypes, sharedVars, reactorVars
  <2>3. QueueTypes'
    <3>1. workq' = Append(workq, [hand[w] EXCEPT !.hop = "task"]) /\ Len(workq) < WorkHigh /\ UNCHANGED <<available, waiting, divideq, dbq>>
      BY <1>9 DEF WorkEvent
    <3>2. [hand[w] EXCEPT !.hop = "task"] \in Messages
      <4>1. hand[w] \in Messages
        BY <1>9 DEF WorkEvent, TypeInv, ThreadTypes, Carrying
      <4>2. QED
        BY <1>9, <4>1 DEF WorkEvent, Messages, TypeInv, ThreadTypes
    <3>3. workq' \in Seq(Messages) /\ Len(workq') <= WorkHigh
      BY <3>1, <3>2, PushesOne, SizeAssumption DEF TypeInv, QueueTypes
    <3>4. QED
      BY <3>1, <3>3 DEF TypeInv, QueueTypes
  <2>4. ThreadTypes'
    BY <1>9, ThreadPuts
       DEF WorkEvent, TypeInv, PCs, WorkerPCs, Carrying
  <2>5. TakenInv'
    BY <1>9, OthersTakeNothing
       DEF WorkEvent, TypeInv, connVars, reactorVars
  <2>6. QED
    BY <2>1, <2>2, <2>3, <2>4, <2>5 DEF TypeInv
<1>10. QED
  BY <1>1, <1>2, <1>3, <1>4, <1>5, <1>6, <1>7, <1>8, <1>9 DEF Work

LEMMA DbTypeStep ==
  ASSUME TypeInv, NEW b \in DbWorkers, Db(b)
  PROVE  TypeInv'
<1> USE WorkersAreNotTheReactor
<1>1. CASE DbPop(b)
  <2>1. ConnTypes'
    BY <1>1
       DEF DbPop, TypeInv, ConnTypes, connVars
  <2>2. SharedTypes'
    BY <1>1
       DEF DbPop, TypeInv, SharedTypes, sharedVars, reactorVars
  <2>3. QueueTypes'
    <3>1. dbq # << >> /\ dbq' = Tail(dbq) /\ UNCHANGED <<available, waiting, divideq, workq>>
      BY <1>1 DEF DbPop
    <3>2. dbq' \in Seq(Messages) /\ Len(dbq') <= DbHigh
      BY <3>1, PopsOne, SizeAssumption DEF TypeInv, QueueTypes
    <3>3. QED
      BY <3>1, <3>2 DEF TypeInv, QueueTypes
  <2>4. ThreadTypes'
    BY <1>1, ThreadGets, PopsOne
       DEF DbPop, TypeInv, PCs, WorkerPCs, Carrying, QueueTypes
  <2>5. TakenInv'
    BY <1>1, OthersTakeNothing
       DEF DbPop, TypeInv, connVars, reactorVars
  <2>6. QED
    BY <2>1, <2>2, <2>3, <2>4, <2>5 DEF TypeInv
<1>2. CASE DbAnswers(b)
  <2>1. ConnTypes'
    BY <1>2
       DEF DbAnswers, TypeInv, ConnTypes, connVars
  <2>2. SharedTypes'
    BY <1>2
       DEF DbAnswers, TypeInv, SharedTypes, sharedVars, reactorVars
  <2>3. QueueTypes'
    <3>1. workq' = Append(workq, [hand[b] EXCEPT !.hop = "event"]) /\ Len(workq) < WorkHigh /\ UNCHANGED <<available, waiting, divideq, dbq>>
      BY <1>2 DEF DbAnswers
    <3>2. [hand[b] EXCEPT !.hop = "event"] \in Messages
      <4>1. hand[b] \in Messages
        BY <1>2 DEF DbAnswers, TypeInv, ThreadTypes, Carrying
      <4>2. QED
        BY <1>2, <4>1 DEF DbAnswers, Messages, TypeInv, ThreadTypes
    <3>3. workq' \in Seq(Messages) /\ Len(workq') <= WorkHigh
      BY <3>1, <3>2, PushesOne, SizeAssumption DEF TypeInv, QueueTypes
    <3>4. QED
      BY <3>1, <3>3 DEF TypeInv, QueueTypes
  <2>4. ThreadTypes'
    BY <1>2, ThreadPuts
       DEF DbAnswers, TypeInv, PCs, WorkerPCs, Carrying
  <2>5. TakenInv'
    BY <1>2, OthersTakeNothing
       DEF DbAnswers, TypeInv, connVars, reactorVars
  <2>6. QED
    BY <2>1, <2>2, <2>3, <2>4, <2>5 DEF TypeInv
<1>3. QED
  BY <1>1, <1>2 DEF Db

LEMMA TypesHold == Spec => []TypeInv
<1>1. Init => TypeInv
  <2> SUFFICES ASSUME Init PROVE TypeInv
    OBVIOUS
  <2>1. ConnTypes
    <3>1. \A c \in Conns : Len(Script[c]) \in Nat
      BY ScriptAssumption
    <3>2. QED
      BY <3>1 DEF Init, ConnTypes
  <2>2. SharedTypes
    BY DEF Init, SharedTypes
  <2>3. QueueTypes
    BY SizeAssumption DEF Init, QueueTypes
  <2>4. ThreadTypes /\ TakenInv
    BY WorkersAreNotTheReactor DEF Init, ThreadTypes, TakenInv, PCs, ReactorPCs, Carrying
  <2>5. QED
    BY <2>1, <2>2, <2>3, <2>4 DEF TypeInv
<1>2. TypeInv /\ WindowInv /\ [Next]_vars => TypeInv'
  <2> SUFFICES ASSUME TypeInv, WindowInv, [Next]_vars PROVE TypeInv'
    OBVIOUS
  <2>1. ASSUME NEW c \in Conns, Arrive(c) \/ CloseClient(c) PROVE TypeInv'
    <3>1. ConnTypes'
      <4>1. CASE Arrive(c)
        <5>1. /\ sent[c] \in Nat /\ received[c] \in Nat /\ Len(Script[c]) \in Nat
              /\ sent[c] < Len(Script[c]) /\ received[c] <= sent[c]
          BY <4>1, ScriptAssumption DEF Arrive, TypeInv, ConnTypes
        <5>2. /\ sent[c] + 1 \in Nat /\ sent[c] + 1 <= Len(Script[c]) /\ received[c] <= sent[c] + 1
          BY <5>1
        <5>3. QED
          BY <4>1, <5>2 DEF Arrive, TypeInv, ConnTypes
      <4>2. CASE CloseClient(c)
        BY <4>2 DEF CloseClient, TypeInv, ConnTypes
      <4>3. QED
        BY <2>1, <4>1, <4>2
    <3>2. /\ UNCHANGED <<sharedVars, reactorVars, available, queueVars, hand, pc>>
          /\ taken' = taken
      BY <2>1 DEF Arrive, CloseClient
    <3>3. QED
      BY <3>1, <3>2 DEF TypeInv, SharedTypes, QueueTypes, ThreadTypes, TakenInv, sharedVars,
                        reactorVars, queueVars
  <2>2. CASE UNCHANGED vars
    BY <2>2 DEF vars, TypeInv, ConnTypes, SharedTypes, QueueTypes, ThreadTypes, TakenInv,
                connVars, sharedVars, reactorVars, queueVars
  <2>3. QED
    BY <2>1, <2>2, ReactorTypeStep, DrainTypeStep, DivideTypeStep, WorkTypeStep, DbTypeStep,
       ScriptAssumption DEF Next
<1>3. QED
  BY <1>1, <1>2, WindowHolds, PTL DEF Spec

(* Every variable keeps its type through every interleaving, the queues    *)
(* stay within their capacities, the credits within their limit, and what  *)
(* the Reactor has taken within what has been read and sent.               *)
THEOREM TypeCorrect == Spec => []TypeOK
<1>1. TypeInv /\ WindowInv => TypeOK
  BY DEF TypeInv, ConnTypes, SharedTypes, QueueTypes, ThreadTypes, WindowInv, TypeOK, PCs
<1>2. QED
  BY <1>1, TypesHold, WindowHolds, PTL

---------------------------------------------------------------------------
(* Pauses.  From the moment a message is parked to the end of pause_reading *)
(* its connection is with the drain thread or already in the resumes - the *)
(* drain thread may be faster than the Reactor; and between two passes the *)
(* Reactor has no bucket swapped out whose connections it could forget.    *)
PauseInv ==
  /\ PausedIsRevisited
  /\ pc["reactor"] \in {"admit", "park"} => hand["reactor"].conn = cur
  /\ pc["reactor"] = "pause" => Parked(cur) \/ cur \in resumes
  /\ pc["drain"] \in {"idle", "wakeup"} => hand["drain"] = None
  /\ bucket # {} => pc["reactor"] \notin {"idle", "swap"} /\ phase # "event"
  /\ pc["reactor"] = "swap" => phase = "resume"

\* A thread that is neither the Reactor nor the drain thread ends no pause.
LEMMA OthersEndNoPause ==
  ASSUME TypeInv, PauseInv, NEW t \in Threads \ {"reactor", "drain"}, NEW there, Goto(t, there),
         hand'["reactor"] = hand["reactor"], hand'["drain"] = hand["drain"],
         resumes \subseteq resumes',
         UNCHANGED <<connected, paused, reactorVars, waiting>>
  PROVE  PauseInv'
<1>1. pc'["reactor"] = pc["reactor"] /\ pc'["drain"] = pc["drain"]
  BY WorkersAreNotTheReactor DEF Goto, TypeInv, ThreadTypes
<1>2. \A c \in Conns : Parked(c) => Parked(c)'
  BY DEF Parked
<1>3. \A c \in Conns : Revisited(c) => Revisited(c)'
  BY <1>1 DEF Revisited, reactorVars
<1>4. PausedIsRevisited'
  BY <1>2, <1>3 DEF PauseInv, PausedIsRevisited
<1>5. QED
  BY <1>1, <1>2, <1>4 DEF PauseInv, reactorVars, TypeInv, SharedTypes

\* The Reactor moves on without touching what the drain thread has.
LEMMA ReactorKeepsParked ==
  ASSUME TypeInv, NEW there, Goto("reactor", there), hand'["drain"] = hand["drain"],
         UNCHANGED waiting
  PROVE  /\ pc'["reactor"] = there /\ pc'["drain"] = pc["drain"]
         /\ \A c \in Conns : Parked(c)' <=> Parked(c)
<1>1. pc'["reactor"] = there /\ pc'["drain"] = pc["drain"]
  BY WorkersAreNotTheReactor DEF Goto, TypeInv, ThreadTypes
<1>2. QED
  BY <1>1 DEF Parked

\* ... and without starting or ending a pause.
LEMMA ReactorQuiet ==
  ASSUME TypeInv, PauseInv, NEW there, Goto("reactor", there), hand'["drain"] = hand["drain"],
         UNCHANGED <<connected, paused, reactorVars, waiting, resumes>>,
         pc["reactor"] # "unpause",
         there \notin {"pause", "swap"},
         there \in {"admit", "park"} => hand'["reactor"].conn = cur,
         there = "idle" => phase = "event" \/ bucket = {}
  PROVE  PauseInv'
<1>1. /\ pc'["reactor"] = there /\ pc'["drain"] = pc["drain"]
      /\ \A c \in Conns : Parked(c)' <=> Parked(c)
  BY ReactorKeepsParked
<1>2. \A c \in Conns : Revisited(c) => Revisited(c)'
  BY DEF Revisited, reactorVars
<1>3. PausedIsRevisited'
  BY <1>1, <1>2 DEF PauseInv, PausedIsRevisited
<1>4. QED
  BY <1>1, <1>3 DEF PauseInv, reactorVars

LEMMA ReactorPauseStep ==
  ASSUME TypeInv, PauseInv, Reactor
  PROVE  PauseInv'
<1> USE WorkersAreNotTheReactor
<1>0. cur \in Conns /\ paused \in [Conns -> BOOLEAN]
  BY DEF TypeInv, SharedTypes
<1>1. ASSUME NEW c \in Conns, ReadEvent(c) PROVE PauseInv'
  <2>1. /\ Goto("reactor", "read") /\ pc["reactor"] = "idle" /\ hand' = hand
        /\ UNCHANGED <<connected, paused, resumes, retries, bucket, waiting>>
    BY <1>1 DEF ReadEvent, sharedVars, queueVars
  <2>2. /\ pc'["reactor"] = "read" /\ pc'["drain"] = pc["drain"]
        /\ \A d \in Conns : Parked(d)' <=> Parked(d)
    BY <2>1, ReactorKeepsParked
  <2>3. \A d \in Conns : Revisited(d) => Revisited(d)'
    BY <2>1 DEF Revisited
  <2>4. PausedIsRevisited'
    BY <2>1, <2>2, <2>3 DEF PauseInv, PausedIsRevisited
  <2>5. QED
    BY <2>1, <2>2, <2>4 DEF PauseInv
<1>2. ASSUME NEW c \in Conns, ResumeConsume(c) \/ RetryConsume(c) PROVE PauseInv'
  <2>1. /\ Goto("reactor", "unpause") /\ pc["reactor"] \in {"resume", "retry"} /\ hand' = hand
        /\ bucket' = bucket \ {c} /\ cur' = c
        /\ UNCHANGED <<connected, paused, resumes, retries, waiting, phase>>
    BY <1>2 DEF ResumeConsume, RetryConsume, connVars, queueVars
  <2>2. /\ pc'["reactor"] = "unpause" /\ pc'["drain"] = pc["drain"]
        /\ \A d \in Conns : Parked(d)' <=> Parked(d)
    BY <2>1, ReactorKeepsParked
  <2>3. \A d \in Conns : Revisited(d) => Revisited(d)'
    BY <2>1, <2>2 DEF Revisited
  <2>4. PausedIsRevisited'
    BY <2>1, <2>2, <2>3 DEF PauseInv, PausedIsRevisited
  <2>5. QED
    BY <2>1, <2>2, <2>4 DEF PauseInv
<1>3. CASE WakeEvent
  <2>1. /\ Goto("reactor", "swap") /\ pc["reactor"] = "idle" /\ hand' = hand
        /\ phase' = "resume"
        /\ UNCHANGED <<connected, paused, resumes, retries, bucket, cur, waiting>>
    BY <1>3 DEF WakeEvent, connVars, queueVars
  <2>2. /\ pc'["reactor"] = "swap" /\ pc'["drain"] = pc["drain"]
        /\ \A d \in Conns : Parked(d)' <=> Parked(d)
    BY <2>1, ReactorKeepsParked
  <2>3. \A d \in Conns : Revisited(d) => Revisited(d)'
    BY <2>1 DEF Revisited
  <2>4. PausedIsRevisited'
    BY <2>1, <2>2, <2>3 DEF PauseInv, PausedIsRevisited
  <2>5. QED
    BY <2>1, <2>2, <2>4 DEF PauseInv
<1>4. CASE ResumeSwap
  <2>1. /\ Goto("reactor", "resume") /\ pc["reactor"] = "swap" /\ hand' = hand
        /\ bucket' = resumes
        /\ UNCHANGED <<connected, paused, retries, cur, phase, waiting>>
    BY <1>4 DEF ResumeSwap, connVars, queueVars
  <2>2. /\ pc'["reactor"] = "resume" /\ pc'["drain"] = pc["drain"]
        /\ \A d \in Conns : Parked(d)' <=> Parked(d)
    BY <2>1, ReactorKeepsParked
  <2>3. bucket = {} /\ phase = "resume"
    BY <2>1 DEF PauseInv
  <2>4. \A d \in Conns : Revisited(d) => Revisited(d)'
    BY <2>1, <2>3 DEF Revisited
  <2>5. PausedIsRevisited'
    BY <2>1, <2>2, <2>4 DEF PauseInv, PausedIsRevisited
  <2>6. QED
    BY <2>1, <2>2, <2>3, <2>5 DEF PauseInv
<1>5. CASE ResumesDone
  <2>1. /\ Goto("reactor", "retry") /\ pc["reactor"] = "resume" /\ hand' = hand
        /\ bucket = {} /\ bucket' = {c \in retries : connected[c]} /\ phase' = "retry"
        /\ UNCHANGED <<connected, paused, resumes, waiting>>
    BY <1>5 DEF ResumesDone, connVars, sharedVars, queueVars
  <2>2. /\ pc'["reactor"] = "retry" /\ pc'["drain"] = pc["drain"]
        /\ \A d \in Conns : Parked(d)' <=> Parked(d)
    BY <2>1, ReactorKeepsParked
  <2>3. \A d \in Conns : Revisited(d) => ~connected[d] \/ Revisited(d)'
    BY <2>1 DEF Revisited
  <2>4. PausedIsRevisited'
    BY <2>1, <2>2, <2>3 DEF PauseInv, PausedIsRevisited
  <2>5. QED
    BY <2>1, <2>2, <2>4 DEF PauseInv
<1>6. CASE ResumeUnpause \/ RetryUnpause
  <2>1. PICK there \in {"read", "resume"} :
          /\ Goto("reactor", there) /\ pc["reactor"] = "unpause" /\ hand' = hand
          /\ paused' = [paused EXCEPT ![cur] = FALSE]
          /\ UNCHANGED <<connected, resumes, reactorVars, waiting>>
    BY <1>6 DEF ResumeUnpause, RetryUnpause, queueVars
  <2>2. /\ pc'["reactor"] = there /\ pc'["drain"] = pc["drain"]
        /\ \A d \in Conns : Parked(d)' <=> Parked(d)
    BY <2>1, ReactorKeepsParked
  <2>3. \A d \in Conns \ {cur} : (paused'[d] <=> paused[d]) /\ (Revisited(d) => Revisited(d)')
    BY <1>0, <2>1 DEF Revisited, reactorVars
  <2>4. ~paused'[cur]
    BY <1>0, <2>1
  <2>5. PausedIsRevisited'
    BY <2>1, <2>2, <2>3, <2>4 DEF PauseInv, PausedIsRevisited
  <2>6. QED
    BY <2>1, <2>2, <2>5 DEF PauseInv, reactorVars
<1>7. CASE RetriesDone \/ ReadStops
  <2>1. PICK there \in {"idle", "resume", "retry"} :
          /\ Goto("reactor", there) /\ pc["reactor"] \in {"retry", "read"} /\ hand' = hand
          /\ there = "idle" => phase = "event" \/ bucket = {}
          /\ UNCHANGED <<connected, paused, resumes, reactorVars, waiting>>
    BY <1>7 DEF RetriesDone, ReadStops, Caller, connVars, sharedVars, queueVars, TypeInv, SharedTypes
  <2>2. QED
    BY <2>1, ReactorQuiet
<1>8. CASE ReadBytes
  <2>1. UNCHANGED <<connected, paused, resumes, reactorVars, waiting, hand, pc>>
    BY <1>8 DEF ReadBytes, sharedVars, queueVars
  <2>2. QED
    BY <2>1 DEF PauseInv, PausedIsRevisited, Parked, Revisited, reactorVars
<1>9. CASE ReadTakes
  <2>1. PICK there \in {"admit", "dispatch"} :
          /\ Goto("reactor", there) /\ pc["reactor"] = "read"
          /\ \E m : Holds("reactor", m) /\ m.conn = cur
          /\ UNCHANGED <<connected, paused, resumes, reactorVars, waiting>>
    BY <1>9 DEF ReadTakes, queueVars
  <2>2. hand'["drain"] = hand["drain"] /\ hand'["reactor"].conn = cur
    BY <2>1 DEF Holds, TypeInv, ThreadTypes
  <2>3. QED
    BY <2>1, <2>2, ReactorQuiet
<1>10. CASE Admit \/ Dispatch \/ GiveCreditBack \/ GiveSlotBack
  <2>1. PICK there \in {"dispatch", "park", "read", "uncredit", "unslot", "defer"} :
          /\ Goto("reactor", there)
          /\ pc["reactor"] \in {"admit", "dispatch", "uncredit", "unslot"}
          /\ there = "park" => pc["reactor"] = "admit" /\ hand' = hand
          /\ hand' = hand \/ Holds("reactor", None)
          /\ UNCHANGED <<connected, paused, resumes, reactorVars, waiting>>
    BY <1>10 DEF Admit, Dispatch, GiveCreditBack, GiveSlotBack, connVars, sharedVars, queueVars
  <2>2. hand'["drain"] = hand["drain"]
    BY <2>1 DEF Holds, TypeInv, ThreadTypes
  <2>3. QED
    BY <2>1, <2>2, ReactorQuiet DEF PauseInv
<1>11. CASE Park
  <2>1. /\ Goto("reactor", "pause") /\ pc["reactor"] = "park" /\ Holds("reactor", None)
        /\ waiting' = Append(waiting, hand["reactor"])
        /\ UNCHANGED <<connected, paused, resumes, reactorVars>>
    BY <1>11 DEF Park, connVars, sharedVars
  <2>2. /\ pc'["reactor"] = "pause" /\ pc'["drain"] = pc["drain"]
        /\ hand'["drain"] = hand["drain"]
    BY <2>1 DEF Goto, Holds, TypeInv, ThreadTypes
  <2>3. /\ \A i \in DOMAIN waiting : i \in DOMAIN waiting' /\ waiting'[i] = waiting[i]
        /\ Len(waiting) + 1 \in DOMAIN waiting' /\ waiting'[Len(waiting) + 1] = hand["reactor"]
    <3>1. hand["reactor"] \in Messages /\ waiting \in Seq(Messages)
      BY <2>1 DEF TypeInv, ThreadTypes, QueueTypes, Carrying
    <3>2. QED
      BY <2>1, <3>1
  <2>4. \A d \in Conns : Parked(d) => Parked(d)'
    BY <2>2, <2>3 DEF Parked
  <2>5. Parked(cur)'
    BY <2>1, <2>3 DEF Parked, PauseInv, reactorVars
  <2>6. \A d \in Conns : Revisited(d) => Revisited(d)'
    BY <2>1, <2>2 DEF Revisited, reactorVars
  <2>7. PausedIsRevisited'
    BY <2>1, <2>4, <2>6 DEF PauseInv, PausedIsRevisited
  <2>8. QED
    BY <2>1, <2>2, <2>5, <2>7 DEF PauseInv, reactorVars
<1>12. CASE Pause
  <2>1. /\ Goto("reactor", "read") /\ pc["reactor"] = "pause" /\ hand' = hand
        /\ paused' = [paused EXCEPT ![cur] = TRUE]
        /\ UNCHANGED <<connected, resumes, reactorVars, waiting>>
    BY <1>12 DEF Pause, queueVars
  <2>2. /\ pc'["reactor"] = "read" /\ pc'["drain"] = pc["drain"]
        /\ \A d \in Conns : Parked(d)' <=> Parked(d)
    BY <2>1, ReactorKeepsParked
  <2>3. \A d \in Conns : Revisited(d) => Revisited(d)'
    BY <2>1 DEF Revisited, reactorVars
  <2>4. \A d \in Conns \ {cur} : paused'[d] <=> paused[d]
    BY <1>0, <2>1
  <2>5. Parked(cur)' \/ Revisited(cur)'
    BY <1>0, <2>1, <2>2 DEF PauseInv, Revisited, reactorVars
  <2>6. PausedIsRevisited'
    BY <2>1, <2>2, <2>3, <2>4, <2>5 DEF PauseInv, PausedIsRevisited, reactorVars
  <2>7. QED
    BY <2>1, <2>2, <2>6 DEF PauseInv, reactorVars
<1>13. CASE Defer
  <2>1. PICK there \in {"idle", "resume", "retry"} :
          /\ Goto("reactor", there) /\ pc["reactor"] = "defer" /\ hand' = hand
          /\ there = "idle" => phase = "event"
          /\ retries' = retries \union {cur}
          /\ paused' = [paused EXCEPT ![cur] = TRUE]
          /\ UNCHANGED <<connected, resumes, bucket, cur, phase, waiting>>
    BY <1>13 DEF Defer, Caller, queueVars, TypeInv, SharedTypes
  <2>2. /\ pc'["reactor"] = there /\ pc'["drain"] = pc["drain"]
        /\ \A d \in Conns : Parked(d)' <=> Parked(d)
    BY <2>1, ReactorKeepsParked
  <2>3. /\ Revisited(cur)'
        /\ \A d \in Conns \ {cur} : (paused'[d] <=> paused[d]) /\ (Revisited(d) => Revisited(d)')
    BY <1>0, <2>1 DEF Revisited
  <2>4. PausedIsRevisited'
    BY <2>1, <2>2, <2>3 DEF PauseInv, PausedIsRevisited
  <2>5. QED
    BY <2>1, <2>2, <2>4 DEF PauseInv
<1>14. QED
  BY <1>1, <1>2, <1>3, <1>4, <1>5, <1>6, <1>7, <1>8, <1>9, <1>10, <1>11, <1>12, <1>13 DEF Reactor

LEMMA DrainPauseStep ==
  ASSUME TypeInv, PauseInv, Drain
  PROVE  PauseInv'
<1> USE WorkersAreNotTheReactor
<1>1. /\ pc'["reactor"] = pc["reactor"] /\ hand'["reactor"] = hand["reactor"]
      /\ UNCHANGED <<connected, paused, reactorVars>>
  BY DEF Drain, DrainTake, DrainAcquire, DrainDispatch, DrainNotify, Wakeup, ScheduleResume, Goto,
         Holds, TypeInv, ThreadTypes, connVars, sharedVars
<1>2. resumes \subseteq resumes'
  BY DEF Drain, DrainTake, DrainAcquire, DrainDispatch, DrainNotify, Wakeup, ScheduleResume,
         sharedVars
<1>3. \A c \in Conns : Revisited(c) => Revisited(c)'
  BY <1>1, <1>2 DEF Revisited, reactorVars
<1>4. \A c \in Conns : Parked(c) => Parked(c)' \/ c \in resumes'
  <2>1. CASE DrainTake
    <3>1. /\ waiting \in Seq(Messages) /\ waiting # << >> /\ waiting' = Tail(waiting)
          /\ hand'["drain"] = Head(waiting) /\ hand["drain"] = None
      BY <2>1 DEF DrainTake, Holds, TypeInv, QueueTypes, ThreadTypes, PauseInv
    <3>2. Head(waiting) # None
      BY <3>1, PopsOne, ThreadAssumption
    <3>3. \A i \in DOMAIN waiting :
            i = 1 \/ (i - 1 \in DOMAIN Tail(waiting) /\ Tail(waiting)[i - 1] = waiting[i])
      BY <3>1
    <3>4. Head(waiting) = waiting[1]
      BY <3>1
    <3>5. QED
      BY <3>1, <3>2, <3>3, <3>4 DEF Parked
  <2>2. CASE DrainAcquire \/ DrainDispatch \/ Wakeup("drain")
    <3>1. hand' = hand /\ waiting' = waiting
      BY <2>2 DEF DrainAcquire, DrainDispatch, Wakeup, queueVars
    <3>2. QED
      BY <3>1 DEF Parked
  <2>3. CASE DrainNotify
    <3>1. waiting' = waiting /\ resumes' = resumes \union {hand["drain"].conn}
      BY <2>3 DEF DrainNotify, ScheduleResume, queueVars
    <3>2. QED
      BY <3>1 DEF Parked
  <2>4. QED
    BY <2>1, <2>2, <2>3 DEF Drain
<1>5. pc'["drain"] \in {"idle", "wakeup"} => hand'["drain"] = None
  BY DEF Drain, DrainTake, DrainAcquire, DrainDispatch, DrainNotify, Wakeup, ScheduleResume, Goto,
         Holds, TypeInv, ThreadTypes, PauseInv
<1>6. PausedIsRevisited'
  BY <1>1, <1>3, <1>4 DEF PauseInv, PausedIsRevisited, Revisited
<1>7. QED
  BY <1>1, <1>2, <1>4, <1>5, <1>6 DEF PauseInv, reactorVars, TypeInv, SharedTypes

(* Whatever pauses the reading of a connection - no DB credit, a full      *)
(* divide queue - somebody is on the way to end it: the connection is in a *)
(* bucket the Reactor goes through, or with the drain thread.              *)
THEOREM NobodyStaysPaused == Spec => []PausedIsRevisited
<1>1. Init => PauseInv
  BY WorkersAreNotTheReactor DEF Init, PauseInv, PausedIsRevisited
<1>2. TypeInv /\ PauseInv /\ [Next]_vars => PauseInv'
  <2> SUFFICES ASSUME TypeInv, PauseInv, [Next]_vars PROVE PauseInv'
    OBVIOUS
  <2>1. ASSUME NEW c \in Conns, Arrive(c) \/ CloseClient(c) PROVE PauseInv'
    <3>1. /\ UNCHANGED <<paused, resumes, reactorVars, waiting, hand, pc>>
          /\ \A d \in Conns : connected'[d] => connected[d]
      BY <2>1 DEF Arrive, CloseClient, sharedVars, queueVars, TypeInv, ConnTypes
    <3>2. \A d \in Conns : (Parked(d)' <=> Parked(d)) /\ (Revisited(d)' <=> Revisited(d))
      BY <3>1 DEF Parked, Revisited, reactorVars
    <3>3. PausedIsRevisited'
      BY <3>1, <3>2 DEF PauseInv, PausedIsRevisited
    <3>4. QED
      BY <3>1, <3>2, <3>3 DEF PauseInv, reactorVars, TypeInv, SharedTypes
  <2>2. ASSUME NEW d \in DivideWorkers, Divide(d) PROVE PauseInv'
    <3>1. d \in Threads \ {"reactor", "drain"}
      BY WorkersAreNotTheReactor, ThreadAssumption
    <3>2. PICK there : Goto(d, there)
      BY <2>2 DEF Divide, DividePop, LowWater, DivideWork, DivideThrows
    <3>3. hand'["reactor"] = hand["reactor"] /\ hand'["drain"] = hand["drain"]
      <4>1. hand' = hand \/ \E m : hand' = [hand EXCEPT ![d] = m]
        BY <2>2 DEF Divide, DividePop, LowWater, DivideWork, DivideThrows, Holds, queueVars
      <4>2. QED
        BY <3>1, <4>1, WorkersAreNotTheReactor DEF TypeInv, ThreadTypes
    <3>4. UNCHANGED <<connected, paused, resumes, reactorVars, waiting>>
      BY <2>2 DEF Divide, DividePop, LowWater, DivideWork, DivideThrows, connVars, sharedVars,
                  queueVars
    <3>5. QED
      BY <3>1, <3>2, <3>3, <3>4, OthersEndNoPause
  <2>3. ASSUME NEW w \in WorkWorkers, Work(w) PROVE PauseInv'
    <3>1. w \in Threads \ {"reactor", "drain"}
      BY WorkersAreNotTheReactor, ThreadAssumption
    <3>2. PICK there : Goto(w, there)
      BY <2>3 DEF Work, WorkPop, WorkAwaits, WorkSuspends, WorkEnds, WorkFinish, WorkCheck,
                  WorkNotify, Wakeup, WorkEvent, ScheduleResume
    <3>3. hand'["reactor"] = hand["reactor"] /\ hand'["drain"] = hand["drain"]
      <4>1. hand' = hand \/ \E m : hand' = [hand EXCEPT ![w] = m]
        BY <2>3 DEF Work, WorkPop, WorkAwaits, WorkSuspends, WorkEnds, WorkFinish, WorkCheck,
                  WorkNotify, Wakeup, WorkEvent, Holds, queueVars
      <4>2. QED
        BY <3>1, <4>1, WorkersAreNotTheReactor DEF TypeInv, ThreadTypes
    <3>4. UNCHANGED <<connected, paused, reactorVars, waiting>> /\ resumes \subseteq resumes'
      BY <2>3 DEF Work, WorkPop, WorkAwaits, WorkSuspends, WorkEnds, WorkFinish, WorkCheck,
                  WorkNotify, Wakeup, WorkEvent, ScheduleResume, connVars, sharedVars, queueVars
    <3>5. QED
      BY <3>1, <3>2, <3>3, <3>4, OthersEndNoPause
  <2>4. ASSUME NEW b \in DbWorkers, Db(b) PROVE PauseInv'
    <3>1. b \in Threads \ {"reactor", "drain"}
      BY WorkersAreNotTheReactor, ThreadAssumption
    <3>2. PICK there : Goto(b, there)
      BY <2>4 DEF Db, DbPop, DbAnswers
    <3>3. hand'["reactor"] = hand["reactor"] /\ hand'["drain"] = hand["drain"]
      <4>1. hand' = hand \/ \E m : hand' = [hand EXCEPT ![b] = m]
        BY <2>4 DEF Db, DbPop, DbAnswers, Holds, queueVars
      <4>2. QED
        BY <3>1, <4>1, WorkersAreNotTheReactor DEF TypeInv, ThreadTypes
    <3>4. UNCHANGED <<connected, paused, resumes, reactorVars, waiting>>
      BY <2>4 DEF Db, DbPop, DbAnswers, connVars, sharedVars, queueVars
    <3>5. QED
      BY <3>1, <3>2, <3>3, <3>4, OthersEndNoPause
  <2>5. CASE UNCHANGED vars
    BY <2>5 DEF vars, connVars, sharedVars, reactorVars, queueVars, PauseInv, PausedIsRevisited,
                Parked, Revisited
  <2>6. QED
    BY <2>1, <2>2, <2>3, <2>4, <2>5, ReactorPauseStep, DrainPauseStep, ScriptAssumption DEF Next
<1>3. PauseInv => PausedIsRevisited
  BY DEF PauseInv
<1>4. QED
  BY <1>1, <1>2, <1>3, TypesHold, PTL DEF Spec


---------------------------------------------------------------------------
(* Counting messages.  Kind is a set of messages: how many of a queue are  *)
(* of that kind, and how many threads at certain steps have one in hand.   *)
InQueue(q, Kind)  == Cardinality({n \in DOMAIN q : q[n] \in Kind})
AtHand(places, Kind) == Cardinality({t \in Threads : pc[t] \in places /\ hand[t] \in Kind})

One(b) == IF b THEN 1 ELSE 0

LEMMA QueueCount ==
  ASSUME NEW q \in Seq(Messages), NEW Kind
  PROVE  InQueue(q, Kind) \in Nat /\ IsFiniteSet({n \in DOMAIN q : q[n] \in Kind})
<1>1. IsFiniteSet(1 .. Len(q)) /\ DOMAIN q = 1 .. Len(q)
  BY FS_Interval
<1>2. IsFiniteSet({n \in DOMAIN q : q[n] \in Kind})
  BY <1>1, FS_Subset
<1>3. QED
  BY <1>2, FS_CardinalityType DEF InQueue

LEMMA NothingCounted == \A Kind : InQueue(<< >>, Kind) = 0
<1> TAKE Kind
<1>1. {n \in DOMAIN << >> : << >>[n] \in Kind} = {}
  OBVIOUS
<1>2. QED
  BY <1>1, FS_EmptySet DEF InQueue

LEMMA AppendCount ==
  ASSUME NEW q \in Seq(Messages), NEW m \in Messages, NEW Kind
  PROVE  InQueue(Append(q, m), Kind) = InQueue(q, Kind) + One(m \in Kind)
<1> DEFINE S == {n \in DOMAIN q : q[n] \in Kind}
           Z == {n \in DOMAIN Append(q, m) : Append(q, m)[n] \in Kind}
<1>1. IsFiniteSet(S) /\ Cardinality(S) \in Nat
  BY QueueCount, FS_CardinalityType
<1>2. /\ DOMAIN Append(q, m) = 1 .. Len(q) + 1 /\ DOMAIN q = 1 .. Len(q)
      /\ Append(q, m)[Len(q) + 1] = m /\ Len(q) \in Nat
      /\ \A n \in 1 .. Len(q) : Append(q, m)[n] = q[n]
  OBVIOUS
<1>3. CASE m \in Kind
  <2>1. Z = S \union {Len(q) + 1} /\ Len(q) + 1 \notin S
    BY <1>2, <1>3
  <2>2. QED
    BY <1>1, <1>3, <2>1, FS_AddElement DEF InQueue, One
<1>4. CASE m \notin Kind
  <2>1. Z = S
    BY <1>2, <1>4
  <2>2. InQueue(Append(q, m), Kind) = InQueue(q, Kind) /\ InQueue(q, Kind) \in Nat
    BY <1>1, <2>1 DEF InQueue
  <2>3. One(m \in Kind) = 0
    BY <1>4 DEF One
  <2> HIDE DEF S, Z
  <2>4. QED
    BY <2>2, <2>3
<1>5. QED
  BY <1>3, <1>4

LEMMA TailCount ==
  ASSUME NEW q \in Seq(Messages), q # << >>, NEW Kind
  PROVE  InQueue(q, Kind) = InQueue(Tail(q), Kind) + One(Head(q) \in Kind)
<1> DEFINE r == Tail(q)
           R == {n \in DOMAIN r : r[n] \in Kind}
           S == {n \in DOMAIN q : q[n] \in Kind}
           U == S \ {1}
           f == [n \in R |-> n + 1]
<1>1. r \in Seq(Messages) /\ Len(q) \in Nat \ {0} /\ Len(r) = Len(q) - 1
  OBVIOUS
<1>2. /\ DOMAIN q = 1 .. Len(q) /\ DOMAIN r = 1 .. Len(q) - 1 /\ Head(q) = q[1]
      /\ \A n \in 1 .. Len(q) - 1 : r[n] = q[n + 1]
  BY <1>1
<1>3. /\ IsFiniteSet(R) /\ Cardinality(R) \in Nat
      /\ IsFiniteSet(S) /\ Cardinality(S) \in Nat
  BY <1>1, QueueCount, FS_CardinalityType
<1>4. f \in Bijection(R, U)
  <2>1. f \in [R -> U]
    BY <1>1, <1>2
  <2>2. \A a, b \in R : f[a] = f[b] => a = b
    BY <1>1, <1>2
  <2>3. \A u \in U : \E n \in R : f[n] = u
    <3>1. SUFFICES ASSUME NEW u \in U PROVE \E n \in R : f[n] = u
      OBVIOUS
    <3>2. u - 1 \in R /\ f[u - 1] = u
      BY <1>1, <1>2
    <3>3. QED
      BY <3>2
  <2>4. QED
    BY <2>1, <2>2, <2>3 DEF Bijection, Injection, Surjection, IsInjective
<1>5. Cardinality(U) = Cardinality(R)
  BY <1>3, <1>4, FS_Bijection DEF ExistsBijection
<1>6. /\ InQueue(Tail(q), Kind) = Cardinality(R) /\ InQueue(q, Kind) = Cardinality(S)
  BY DEF InQueue
<1> HIDE DEF r, U, f, R
<1>7. CASE Head(q) \in Kind
  <2>1. 1 \in S
    BY <1>1, <1>2, <1>7
  <2>2. Cardinality(U) = Cardinality(S) - 1
    BY <1>3, <2>1, FS_RemoveElement DEF U
  <2>3. One(Head(q) \in Kind) = 1
    BY <1>7 DEF One
  <2> HIDE DEF S
  <2>4. QED
    BY <1>3, <1>5, <1>6, <2>2, <2>3
<1>8. CASE Head(q) \notin Kind
  <2>1. U = S
    BY <1>1, <1>2, <1>8 DEF U
  <2>2. One(Head(q) \in Kind) = 0
    BY <1>8 DEF One
  <2> HIDE DEF S
  <2>3. QED
    BY <1>3, <1>5, <1>6, <2>1, <2>2
<1>9. QED
  BY <1>7, <1>8

LEMMA ThreadsFinite == IsFiniteSet(Threads)
<1>1. IsFiniteSet({"reactor"}) /\ IsFiniteSet({"drain"})
  BY FS_Singleton
<1>2. Threads = (({"reactor"} \union {"drain"}) \union DivideWorkers)
                  \union (WorkWorkers \union DbWorkers)
  BY DEF Threads
<1>3. QED
  BY <1>1, <1>2, FS_Union, SizeAssumption

LEMMA HandCount ==
  ASSUME NEW P, NEW Kind
  PROVE  AtHand(P, Kind) \in Nat /\ AtHand(P, Kind)' \in Nat
<1>1. /\ IsFiniteSet({t \in Threads : pc[t] \in P /\ hand[t] \in Kind})
      /\ IsFiniteSet({t \in Threads : pc'[t] \in P /\ hand'[t] \in Kind})
  BY ThreadsFinite, FS_Subset
<1>2. QED
  BY <1>1, FS_CardinalityType DEF AtHand

\* A step of thread t: the others are where they were with what they had.
Steps(t, there, m) ==
  /\ pc' = [pc EXCEPT ![t] = there]
  /\ hand' = [hand EXCEPT ![t] = m]

LEMMA StepCount ==
  ASSUME ThreadTypes, NEW t \in Threads, NEW there, NEW m, Steps(t, there, m), NEW P, NEW Kind
  PROVE  AtHand(P, Kind)' + One(pc[t] \in P /\ hand[t] \in Kind)
           = AtHand(P, Kind) + One(there \in P /\ m \in Kind)
<1> DEFINE S == {u \in Threads : pc[u] \in P /\ hand[u] \in Kind}
           Z == {u \in Threads : pc'[u] \in P /\ hand'[u] \in Kind}
           was == pc[t] \in P /\ hand[t] \in Kind
           is  == there \in P /\ m \in Kind
<1>1. /\ IsFiniteSet(S) /\ Cardinality(S) \in Nat /\ IsFiniteSet(Z) /\ Cardinality(Z) \in Nat
      /\ AtHand(P, Kind) = Cardinality(S) /\ AtHand(P, Kind)' = Cardinality(Z)
  BY ThreadsFinite, FS_Subset, FS_CardinalityType DEF AtHand
<1>2. \A u \in Threads : /\ pc'[u] = IF u = t THEN there ELSE pc[u]
                         /\ hand'[u] = IF u = t THEN m ELSE hand[u]
  BY DEF Steps, ThreadTypes
<1>3. CASE is /\ ~was
  <2>1. Z = S \union {t} /\ t \notin S
    BY <1>2, <1>3
  <2>2. Cardinality(Z) = Cardinality(S) + 1
    BY <1>1, <2>1, FS_AddElement
  <2>3. One(was) = 0 /\ One(is) = 1
    BY <1>3 DEF One
  <2>4. QED
    BY <1>1, <2>2, <2>3
<1>4. CASE ~is /\ was
  <2>1. Z = S \ {t} /\ t \in S
    BY <1>2, <1>4
  <2>2. Cardinality(Z) = Cardinality(S) - 1
    BY <1>1, <2>1, FS_RemoveElement
  <2>3. One(was) = 1 /\ One(is) = 0
    BY <1>4 DEF One
  <2>4. QED
    BY <1>1, <2>2, <2>3
<1>5. CASE is <=> was
  <2>1. Z = S
    BY <1>2, <1>5
  <2>2. Cardinality(Z) = Cardinality(S)
    BY <2>1
  <2>3. One(was) = One(is) /\ One(is) \in Nat
    BY <1>5 DEF One
  <2> HIDE DEF S, Z, was, is
  <2>4. AtHand(P, Kind)' + One(was) = AtHand(P, Kind) + One(is)
    BY <1>1, <2>2, <2>3
  <2>5. QED
    BY <2>4 DEF was, is
<1>6. QED
  BY <1>3, <1>4, <1>5

\* The three things a step does to what is counted at places P.
LEMMA HandGets ==
  ASSUME ThreadTypes, NEW t \in Threads, NEW there, NEW m, Steps(t, there, m), NEW P, NEW Kind,
         pc[t] \notin P, there \in P
  PROVE  AtHand(P, Kind)' = AtHand(P, Kind) + One(m \in Kind)
<1>1. One(pc[t] \in P /\ hand[t] \in Kind) = 0
      /\ One(there \in P /\ m \in Kind) = One(m \in Kind) /\ One(m \in Kind) \in Nat
  BY DEF One
<1>2. QED
  BY <1>1, StepCount, HandCount

LEMMA HandPuts ==
  ASSUME ThreadTypes, NEW t \in Threads, NEW there, NEW m, Steps(t, there, m), NEW P, NEW Kind,
         pc[t] \in P, there \notin P
  PROVE  AtHand(P, Kind) = AtHand(P, Kind)' + One(hand[t] \in Kind)
<1>1. One(pc[t] \in P /\ hand[t] \in Kind) = One(hand[t] \in Kind)
      /\ One(there \in P /\ m \in Kind) = 0 /\ One(hand[t] \in Kind) \in Nat
  BY DEF One
<1>2. QED
  BY <1>1, StepCount, HandCount

LEMMA HandKeeps ==
  ASSUME ThreadTypes, NEW t \in Threads, NEW there, NEW m, Steps(t, there, m), NEW P, NEW Kind,
         pc[t] \in P <=> there \in P,
         pc[t] \in P => m = hand[t]
  PROVE  AtHand(P, Kind)' = AtHand(P, Kind)
<1>1. One(pc[t] \in P /\ hand[t] \in Kind) = One(there \in P /\ m \in Kind)
      /\ One(there \in P /\ m \in Kind) \in Nat
  BY DEF One
<1>2. QED
  BY <1>1, StepCount, HandCount

---------------------------------------------------------------------------
(* Kinds of messages that a message keeps on its way: its connection, and  *)
(* whether it needs the database.                                          *)
Of(c)   == {m \in Messages : m.conn = c}
DbKind  == {m \in Messages : m.class = "db"}

Whole(Kind) ==
  \A m, o \in Messages : m.conn = o.conn /\ m.class = o.class => (m \in Kind <=> o \in Kind)

LEMMA KindsAreWhole == Whole(DbKind) /\ \A c \in Conns : Whole(Of(c))
BY DEF Whole, DbKind, Of

\* Where in the divide, work and DB stages a message is always counted, and never.
Inner == {"low_water", "divide", "task", "submit", "event", "query"}
Outer == {"idle", "read", "defer", "pause", "wakeup", "check", "notify"}

Piped(P, Kind) ==
  InQueue(divideq, Kind) + InQueue(workq, Kind) + InQueue(dbq, Kind) + InQueue(dropped, Kind)
    + AtHand(P, Kind)

LEMMA PipedNumbers ==
  ASSUME QueueTypes, dropped \in Seq(Messages), NEW P, NEW Kind
  PROVE  /\ InQueue(divideq, Kind) \in Nat /\ InQueue(workq, Kind) \in Nat
         /\ InQueue(dbq, Kind) \in Nat /\ InQueue(dropped, Kind) \in Nat
         /\ InQueue(waiting, Kind) \in Nat
         /\ AtHand(P, Kind) \in Nat /\ AtHand(P, Kind)' \in Nat
BY QueueCount, HandCount DEF QueueTypes

(* A worker's step inside the pools loses no message and makes none.       *)
LEMMA DivideKeepsPiped ==
  ASSUME TypeInv, dropped \in Seq(Messages), NEW d \in DivideWorkers, Divide(d),
         NEW P, Inner \subseteq P, Outer \intersect P = {}, NEW Kind
  PROVE  Piped(P, Kind)' = Piped(P, Kind) /\ dropped' \in Seq(Messages)
<1>1. ThreadTypes /\ QueueTypes /\ d \in Threads
  BY WorkersAreNotTheReactor DEF TypeInv
<1>2. /\ InQueue(divideq, Kind) \in Nat /\ InQueue(workq, Kind) \in Nat
      /\ InQueue(dbq, Kind) \in Nat /\ InQueue(dropped, Kind) \in Nat
      /\ AtHand(P, Kind) \in Nat /\ AtHand(P, Kind)' \in Nat
  BY <1>1, PipedNumbers
<1>3. CASE DividePop(d)
  <2>1. PICK there \in {"low_water", "divide"} :
          /\ Steps(d, there, Head(divideq)) /\ pc[d] = "idle"
          /\ divideq # << >> /\ divideq' = Tail(divideq)
          /\ UNCHANGED <<workq, dbq, dropped>>
    BY <1>3 DEF DividePop, Steps, Goto, Holds
  <2>2. AtHand(P, Kind)' = AtHand(P, Kind) + One(Head(divideq) \in Kind)
    BY <1>1, <2>1, HandGets DEF Inner, Outer
  <2>3. InQueue(divideq, Kind) = InQueue(divideq', Kind) + One(Head(divideq) \in Kind)
    BY <1>1, <2>1, TailCount DEF QueueTypes
  <2>4. InQueue(divideq', Kind) \in Nat /\ One(Head(divideq) \in Kind) \in Nat
    BY <1>1, <2>1, QueueCount, PopsOne DEF QueueTypes, One
  <2>5. UNCHANGED <<workq, dbq, dropped>>
    BY <2>1
  <2>6. QED
    BY <1>2, <2>2, <2>3, <2>4, <2>5 DEF Piped
<1>4. CASE LowWater(d)
  <2>1. Steps(d, "divide", hand[d]) /\ pc[d] = "low_water"
        /\ UNCHANGED <<divideq, workq, dbq, dropped>>
    BY <1>1, <1>4 DEF LowWater, Steps, Goto, queueVars, ThreadTypes
  <2>2. AtHand(P, Kind)' = AtHand(P, Kind)
    BY <1>1, <2>1, HandKeeps DEF Inner
  <2>3. QED
    BY <2>1, <2>2 DEF Piped
<1>5. CASE DivideWork(d)
  <2>1. /\ Steps(d, "idle", None) /\ pc[d] = "divide" /\ hand[d] \in Messages
        /\ workq' = Append(workq, hand[d]) /\ UNCHANGED <<divideq, dbq, dropped>>
    BY <1>1, <1>5 DEF DivideWork, Steps, Goto, Holds, ThreadTypes, Carrying
  <2>2. AtHand(P, Kind) = AtHand(P, Kind)' + One(hand[d] \in Kind)
    BY <1>1, <2>1, HandPuts DEF Inner, Outer
  <2>3. InQueue(workq', Kind) = InQueue(workq, Kind) + One(hand[d] \in Kind)
    BY <1>1, <2>1, AppendCount DEF QueueTypes
  <2>4. One(hand[d] \in Kind) \in Nat
    BY DEF One
  <2>5. QED
    BY <1>2, <2>1, <2>2, <2>3, <2>4 DEF Piped
<1>6. CASE DivideThrows(d)
  <2>1. /\ Steps(d, "idle", None) /\ pc[d] = "divide" /\ hand[d] \in Messages
        /\ dropped' = Append(dropped, hand[d]) /\ UNCHANGED <<divideq, workq, dbq>>
    BY <1>1, <1>6 DEF DivideThrows, Steps, Goto, Holds, ThreadTypes, Carrying, queueVars
  <2>2. AtHand(P, Kind) = AtHand(P, Kind)' + One(hand[d] \in Kind)
    BY <1>1, <2>1, HandPuts DEF Inner, Outer
  <2>3. InQueue(dropped', Kind) = InQueue(dropped, Kind) + One(hand[d] \in Kind)
    BY <2>1, AppendCount
  <2>4. One(hand[d] \in Kind) \in Nat /\ dropped' \in Seq(Messages)
    BY <2>1 DEF One
  <2>5. QED
    BY <1>2, <2>1, <2>2, <2>3, <2>4 DEF Piped
<1>7. QED
  BY <1>3, <1>4, <1>5, <1>6 DEF Divide

LEMMA WorkKeepsPiped ==
  ASSUME TypeInv, dropped \in Seq(Messages), NEW w \in WorkWorkers, Work(w),
         ~WorkEnds(w), ~WorkFinish(w),
         NEW P, Inner \subseteq P, Outer \intersect P = {}, NEW Kind, Whole(Kind)
  PROVE  Piped(P, Kind)' = Piped(P, Kind) /\ dropped' \in Seq(Messages)
<1>1. ThreadTypes /\ QueueTypes /\ w \in Threads
  BY WorkersAreNotTheReactor DEF TypeInv
<1>2. /\ InQueue(divideq, Kind) \in Nat /\ InQueue(workq, Kind) \in Nat
      /\ InQueue(dbq, Kind) \in Nat /\ InQueue(dropped, Kind) \in Nat
      /\ AtHand(P, Kind) \in Nat /\ AtHand(P, Kind)' \in Nat
  BY <1>1, PipedNumbers
<1>3. CASE WorkPop(w)
  <2>1. /\ workq # << >> /\ workq' = Tail(workq) /\ UNCHANGED <<divideq, dbq, dropped>>
    BY <1>3 DEF WorkPop
  <2>2. PICK there \in {"task", "event"} : Steps(w, there, Head(workq)) /\ pc[w] = "idle"
    BY <1>3, <2>1, PopsOne DEF WorkPop, Steps, Goto, Holds, TypeInv, QueueTypes, Messages
  <2>3. AtHand(P, Kind)' = AtHand(P, Kind) + One(Head(workq) \in Kind)
    BY <1>1, <2>2, HandGets DEF Inner, Outer
  <2>4. InQueue(workq, Kind) = InQueue(workq', Kind) + One(Head(workq) \in Kind)
    BY <1>1, <2>1, TailCount DEF QueueTypes
  <2>5. InQueue(workq', Kind) \in Nat /\ One(Head(workq) \in Kind) \in Nat
    BY <1>1, <2>1, QueueCount, PopsOne DEF QueueTypes, One
  <2>6. UNCHANGED <<divideq, dbq, dropped>>
    BY <2>1
  <2>7. QED
    BY <1>2, <2>3, <2>4, <2>5, <2>6 DEF Piped
<1>4. CASE WorkAwaits(w)
  <2>1. Steps(w, "submit", hand[w]) /\ pc[w] = "task"
    BY <1>1, <1>4 DEF WorkAwaits, Steps, Goto, ThreadTypes
  <2>2. AtHand(P, Kind)' = AtHand(P, Kind)
    BY <1>1, <2>1, HandKeeps DEF Inner
  <2>3. UNCHANGED <<divideq, workq, dbq, dropped>>
    BY <1>4 DEF WorkAwaits, queueVars
  <2>4. QED
    BY <2>2, <2>3 DEF Piped
<1>5. CASE WorkSuspends(w)
  <2> DEFINE m == [hand[w] EXCEPT !.queries = @ - 1]
  <2>1. /\ Steps(w, "idle", None) /\ pc[w] = "submit" /\ hand[w] \in Messages
        /\ dbq' = Append(dbq, m) /\ UNCHANGED <<divideq, workq, dropped>>
    BY <1>1, <1>5 DEF WorkSuspends, Steps, Goto, Holds, ThreadTypes, Carrying
  <2>2. m \in Messages /\ m.conn = hand[w].conn /\ m.class = hand[w].class
    <3>1. hand[w].queries \in Nat /\ hand[w].queries > 0
      BY <1>1, <2>1 DEF Messages, ThreadTypes
    <3>2. hand[w].queries - 1 \in Nat
      BY <3>1
    <3>3. QED
      BY <2>1, <3>2 DEF Messages
  <2>3. m \in Kind <=> hand[w] \in Kind
    BY <2>1, <2>2 DEF Whole
  <2>4. AtHand(P, Kind) = AtHand(P, Kind)' + One(m \in Kind)
    BY <1>1, <2>1, <2>3, HandPuts DEF Inner, Outer
  <2>5. InQueue(dbq', Kind) = InQueue(dbq, Kind) + One(m \in Kind)
    BY <1>1, <2>1, <2>2, AppendCount DEF QueueTypes
  <2>6. One(m \in Kind) \in Nat /\ UNCHANGED <<divideq, workq, dropped>>
    BY <2>1 DEF One
  <2> HIDE DEF m
  <2>7. QED
    BY <1>2, <2>4, <2>5, <2>6 DEF Piped
<1>6. CASE WorkEvent(w)
  <2> DEFINE m == [hand[w] EXCEPT !.hop = "task"]
  <2>1. /\ Steps(w, "idle", None) /\ pc[w] = "event" /\ hand[w] \in Messages
        /\ workq' = Append(workq, m) /\ UNCHANGED <<divideq, dbq, dropped>>
    BY <1>1, <1>6 DEF WorkEvent, Steps, Goto, Holds, ThreadTypes, Carrying
  <2>2. m \in Messages /\ m.conn = hand[w].conn /\ m.class = hand[w].class
    BY <1>1, <2>1 DEF Messages, ThreadTypes
  <2>3. m \in Kind <=> hand[w] \in Kind
    BY <2>1, <2>2 DEF Whole
  <2>4. AtHand(P, Kind) = AtHand(P, Kind)' + One(m \in Kind)
    BY <1>1, <2>1, <2>3, HandPuts DEF Inner, Outer
  <2>5. InQueue(workq', Kind) = InQueue(workq, Kind) + One(m \in Kind)
    BY <1>1, <2>1, <2>2, AppendCount DEF QueueTypes
  <2>6. One(m \in Kind) \in Nat /\ UNCHANGED <<divideq, dbq, dropped>>
    BY <2>1 DEF One
  <2> HIDE DEF m
  <2>7. QED
    BY <1>2, <2>4, <2>5, <2>6 DEF Piped
<1>7. CASE WorkCheck(w) \/ WorkNotify(w) \/ Wakeup(w)
  <2>1. PICK there \in {"idle", "notify", "wakeup"}, m \in {None, hand[w]} :
          Steps(w, there, m) /\ pc[w] \in {"check", "notify", "wakeup"}
    BY <1>1, <1>7 DEF WorkCheck, WorkNotify, Wakeup, ScheduleResume, Steps, Goto, Holds,
                      ThreadTypes
  <2>2. AtHand(P, Kind)' = AtHand(P, Kind)
    BY <1>1, <2>1, HandKeeps DEF Outer
  <2>3. UNCHANGED <<divideq, workq, dbq, dropped>>
    BY <1>7 DEF WorkCheck, WorkNotify, Wakeup, queueVars
  <2>4. QED
    BY <2>2, <2>3 DEF Piped
<1>8. QED
  BY <1>3, <1>4, <1>5, <1>6, <1>7 DEF Work

LEMMA DbKeepsPiped ==
  ASSUME TypeInv, dropped \in Seq(Messages), NEW b \in DbWorkers, Db(b),
         NEW P, Inner \subseteq P, Outer \intersect P = {}, NEW Kind, Whole(Kind)
  PROVE  Piped(P, Kind)' = Piped(P, Kind) /\ dropped' \in Seq(Messages)
<1>1. ThreadTypes /\ QueueTypes /\ b \in Threads
  BY WorkersAreNotTheReactor DEF TypeInv
<1>2. /\ InQueue(divideq, Kind) \in Nat /\ InQueue(workq, Kind) \in Nat
      /\ InQueue(dbq, Kind) \in Nat /\ InQueue(dropped, Kind) \in Nat
      /\ AtHand(P, Kind) \in Nat /\ AtHand(P, Kind)' \in Nat
  BY <1>1, PipedNumbers
<1>3. CASE DbPop(b)
  <2>1. /\ dbq # << >> /\ dbq' = Tail(dbq) /\ UNCHANGED <<divideq, workq, dropped>>
    BY <1>3 DEF DbPop
  <2>2. PICK there \in {"query"} : Steps(b, there, Head(dbq)) /\ pc[b] = "idle"
    BY <1>3, <2>1, PopsOne DEF DbPop, Steps, Goto, Holds, TypeInv, QueueTypes, Messages
  <2>3. AtHand(P, Kind)' = AtHand(P, Kind) + One(Head(dbq) \in Kind)
    BY <1>1, <2>2, HandGets DEF Inner, Outer
  <2>4. InQueue(dbq, Kind) = InQueue(dbq', Kind) + One(Head(dbq) \in Kind)
    BY <1>1, <2>1, TailCount DEF QueueTypes
  <2>5. InQueue(dbq', Kind) \in Nat /\ One(Head(dbq) \in Kind) \in Nat
    BY <1>1, <2>1, QueueCount, PopsOne DEF QueueTypes, One
  <2>6. UNCHANGED <<divideq, workq, dropped>>
    BY <2>1
  <2>7. QED
    BY <1>2, <2>3, <2>4, <2>5, <2>6 DEF Piped
<1>4. CASE DbAnswers(b)
  <2> DEFINE m == [hand[b] EXCEPT !.hop = "event"]
  <2>1. /\ Steps(b, "idle", None) /\ pc[b] = "query" /\ hand[b] \in Messages
        /\ workq' = Append(workq, m) /\ UNCHANGED <<divideq, dbq, dropped>>
    BY <1>1, <1>4 DEF DbAnswers, Steps, Goto, Holds, ThreadTypes, Carrying
  <2>2. m \in Messages /\ m.conn = hand[b].conn /\ m.class = hand[b].class
    BY <1>1, <2>1 DEF Messages, ThreadTypes
  <2>3. m \in Kind <=> hand[b] \in Kind
    BY <2>1, <2>2 DEF Whole
  <2>4. AtHand(P, Kind) = AtHand(P, Kind)' + One(m \in Kind)
    BY <1>1, <2>1, <2>3, HandPuts DEF Inner, Outer
  <2>5. InQueue(workq', Kind) = InQueue(workq, Kind) + One(m \in Kind)
    BY <1>1, <2>1, <2>2, AppendCount DEF QueueTypes
  <2>6. One(m \in Kind) \in Nat /\ UNCHANGED <<divideq, dbq, dropped>>
    BY <2>1 DEF One
  <2> HIDE DEF m
  <2>7. QED
    BY <1>2, <2>4, <2>5, <2>6 DEF Piped
<1>5. QED
  BY <1>3, <1>4 DEF Db

---------------------------------------------------------------------------
(* What the counting needs of the messages: the Reactor's is one of the    *)
(* connection it is reading, and only messages that need the database are  *)
(* parked.                                                                 *)
MassInv ==
  /\ dropped \in Seq(Messages)
  /\ waiting \in Seq(DbKind)
  /\ pc["reactor"] \in {"admit", "park", "dispatch", "uncredit", "unslot"}
       => hand["reactor"].conn = cur
  /\ pc["reactor"] \in {"admit", "park", "uncredit"} => hand["reactor"].class = "db"
  /\ pc["drain"] = "acquire" => hand["drain"] \in DbKind

LEMMA OthersKeepMass ==
  ASSUME TypeInv, MassInv, NEW t \in Threads \ {"reactor", "drain"}, NEW there, NEW m,
         Steps(t, there, m), UNCHANGED <<cur, waiting>>, dropped' \in Seq(Messages)
  PROVE  MassInv'
<1>1. /\ pc'["reactor"] = pc["reactor"] /\ pc'["drain"] = pc["drain"]
      /\ hand'["reactor"] = hand["reactor"] /\ hand'["drain"] = hand["drain"]
  BY WorkersAreNotTheReactor DEF Steps, TypeInv, ThreadTypes
<1>2. QED
  BY <1>1 DEF MassInv

LEMMA ReactorKeepsMass ==
  ASSUME TypeInv, MassInv, Reactor
  PROVE  MassInv'
<1> USE WorkersAreNotTheReactor
<1>1. dropped' = dropped
  BY DEF Reactor, ReadEvent, ResumeConsume, RetryConsume, WakeEvent, ResumeSwap, ResumeUnpause,
         ResumesDone, RetryUnpause, RetriesDone, ReadStops, ReadBytes, ReadTakes, Admit, Park,
         Pause, Dispatch, GiveCreditBack, GiveSlotBack, Defer
<1>2. pc'["drain"] = pc["drain"] /\ hand'["drain"] = hand["drain"]
  BY DEF Reactor, ReadEvent, ResumeConsume, RetryConsume, WakeEvent, ResumeSwap, ResumeUnpause,
         ResumesDone, RetryUnpause, RetriesDone, ReadStops, ReadBytes, ReadTakes, Admit, Park,
         Pause, Dispatch, GiveCreditBack, GiveSlotBack, Defer, Goto, Holds, TypeInv, ThreadTypes
<1>3. waiting' \in Seq(DbKind)
  <2>1. CASE Park
    <3>1. /\ waiting' = Append(waiting, hand["reactor"]) /\ hand["reactor"] \in Messages
          /\ hand["reactor"].class = "db"
      BY <2>1 DEF Park, MassInv, TypeInv, ThreadTypes, Carrying
    <3>2. hand["reactor"] \in DbKind
      BY <3>1 DEF DbKind
    <3>3. QED
      BY <3>1, <3>2 DEF MassInv
  <2>2. CASE ~Park
    <3>1. waiting' = waiting
      BY <2>2 DEF Reactor, ReadEvent, ResumeConsume, RetryConsume, WakeEvent, ResumeSwap,
            ResumeUnpause, ResumesDone, RetryUnpause, RetriesDone, ReadStops, ReadBytes, ReadTakes,
            Admit, Pause, Dispatch, GiveCreditBack, GiveSlotBack, Defer, queueVars
    <3>2. QED
      BY <3>1 DEF MassInv
  <2>3. QED
    BY <2>1, <2>2
<1>4. /\ pc'["reactor"] \in {"admit", "park", "dispatch", "uncredit", "unslot"}
           => hand'["reactor"].conn = cur'
      /\ pc'["reactor"] \in {"admit", "park", "uncredit"} => hand'["reactor"].class = "db"
  <2>1. CASE ReadTakes
    BY <2>1 DEF ReadTakes, Goto, Holds, TypeInv, ThreadTypes, reactorVars
  <2>2. CASE Admit
    BY <2>2 DEF Admit, Goto, MassInv, TypeInv, ThreadTypes, reactorVars
  <2>3. CASE Dispatch
    BY <2>3 DEF Dispatch, Goto, Holds, MassInv, TypeInv, ThreadTypes, reactorVars
  <2>4. CASE GiveCreditBack
    BY <2>4 DEF GiveCreditBack, Goto, MassInv, TypeInv, ThreadTypes, reactorVars
  <2>5. CASE ReadBytes
    BY <2>5 DEF ReadBytes, TypeInv, ThreadTypes
  <2>6. CASE ~(ReadTakes \/ Admit \/ Dispatch \/ GiveCreditBack \/ ReadBytes)
    <3>1. pc'["reactor"] \in {"idle", "read", "swap", "resume", "retry", "unpause", "pause", "defer"}
      BY <2>6 DEF Reactor, ReadEvent, ResumeConsume, RetryConsume, WakeEvent, ResumeSwap,
            ResumeUnpause, ResumesDone, RetryUnpause, RetriesDone, ReadStops, Caller,
            Pause, Park, GiveSlotBack, Defer, Goto, TypeInv, ThreadTypes, SharedTypes
    <3>2. QED
      BY <3>1
  <2>7. QED
    BY <2>1, <2>2, <2>3, <2>4, <2>5, <2>6
<1>5. QED
  BY <1>1, <1>2, <1>3, <1>4 DEF MassInv

LEMMA DrainKeepsMass ==
  ASSUME TypeInv, MassInv, Drain
  PROVE  MassInv'
<1> USE WorkersAreNotTheReactor
<1>1. /\ pc'["reactor"] = pc["reactor"] /\ hand'["reactor"] = hand["reactor"]
      /\ cur' = cur /\ dropped' = dropped
  BY DEF Drain, DrainTake, DrainAcquire, DrainDispatch, DrainNotify, Wakeup, ScheduleResume, Goto,
         Holds, TypeInv, ThreadTypes, reactorVars
<1>2. CASE DrainTake
  <2>1. /\ waiting \in Seq(DbKind) /\ waiting # << >> /\ waiting' = Tail(waiting)
        /\ hand'["drain"] = Head(waiting)
    BY <1>2 DEF DrainTake, Holds, TypeInv, ThreadTypes, MassInv
  <2>2. Head(waiting) \in DbKind /\ Tail(waiting) \in Seq(DbKind)
    BY <2>1
  <2>3. QED
    BY <1>1, <2>1, <2>2 DEF MassInv
<1>3. CASE DrainAcquire \/ DrainDispatch \/ DrainNotify \/ Wakeup("drain")
  <2>1. waiting' = waiting /\ pc'["drain"] # "acquire"
    BY <1>3 DEF DrainAcquire, DrainDispatch, DrainNotify, Wakeup, ScheduleResume, Goto, TypeInv,
                ThreadTypes, queueVars
  <2>2. QED
    BY <1>1, <2>1 DEF MassInv
<1>4. QED
  BY <1>2, <1>3 DEF Drain

\* Which thread and where to: for a step of a worker.
LEMMA WorkersStep ==
  ASSUME TypeInv
  PROVE  /\ \A d \in DivideWorkers : Divide(d) => \E there, m : Steps(d, there, m)
         /\ \A w \in WorkWorkers : Work(w) => \E there, m : Steps(w, there, m)
         /\ \A b \in DbWorkers : Db(b) => \E there, m : Steps(b, there, m)
         /\ \A t \in DivideWorkers \union WorkWorkers \union DbWorkers :
              t \in Threads \ {"reactor", "drain"}
<1>1. hand = [t \in Threads |-> hand[t]]
  BY DEF TypeInv, ThreadTypes
<1>2. \A t \in Threads : hand = [hand EXCEPT ![t] = hand[t]]
  BY <1>1
<1>3. ASSUME NEW d \in DivideWorkers, Divide(d) PROVE \E there, m : Steps(d, there, m)
  BY <1>2, <1>3, WorkersAreNotTheReactor
     DEF Divide, DividePop, LowWater, DivideWork, DivideThrows, Steps, Goto, Holds
<1>4. ASSUME NEW w \in WorkWorkers, Work(w) PROVE \E there, m : Steps(w, there, m)
  BY <1>2, <1>4, WorkersAreNotTheReactor
     DEF Work, WorkPop, WorkAwaits, WorkSuspends, WorkEnds, WorkFinish, WorkCheck, WorkNotify,
         Wakeup, WorkEvent, ScheduleResume, Steps, Goto, Holds
<1>5. ASSUME NEW b \in DbWorkers, Db(b) PROVE \E there, m : Steps(b, there, m)
  BY <1>2, <1>5, WorkersAreNotTheReactor DEF Db, DbPop, DbAnswers, Steps, Goto, Holds
<1>6. \A t \in DivideWorkers \union WorkWorkers \union DbWorkers :
              t \in Threads \ {"reactor", "drain"}
  BY WorkersAreNotTheReactor, ThreadAssumption
<1>7. QED
  BY <1>3, <1>4, <1>5, <1>6

LEMMA MassStep == TypeInv /\ MassInv /\ [Next]_vars => MassInv'
<1> SUFFICES ASSUME TypeInv, MassInv, [Next]_vars PROVE MassInv'
  OBVIOUS
<1>1. ASSUME NEW c \in Conns, Arrive(c) \/ CloseClient(c) PROVE MassInv'
  <2>1. UNCHANGED <<dropped, waiting, pc, hand, cur>>
    BY <1>1 DEF Arrive, CloseClient, reactorVars, queueVars
  <2>2. QED
    BY <2>1 DEF MassInv
<1>2. ASSUME NEW d \in DivideWorkers, Divide(d) PROVE MassInv'
  <2>1. UNCHANGED <<cur, waiting>>
    BY <1>2 DEF Divide, DividePop, LowWater, DivideWork, DivideThrows, reactorVars, queueVars
  <2>2. dropped' \in Seq(Messages)
    <3>1. CASE DivideThrows(d)
      <4>1. dropped' = Append(dropped, hand[d]) /\ hand[d] \in Messages
        BY <3>1, WorkersAreNotTheReactor DEF DivideThrows, TypeInv, ThreadTypes, Carrying
      <4>2. QED
        BY <4>1 DEF MassInv
    <3>2. CASE ~DivideThrows(d)
      BY <1>2, <3>2 DEF Divide, DividePop, LowWater, DivideWork, MassInv
    <3>3. QED
      BY <3>1, <3>2
  <2>3. QED
    BY <1>2, <2>1, <2>2, WorkersStep, OthersKeepMass
<1>3. ASSUME NEW w \in WorkWorkers, Work(w) PROVE MassInv'
  <2>1. UNCHANGED <<cur, waiting, dropped>>
    BY <1>3 DEF Work, WorkPop, WorkAwaits, WorkSuspends, WorkEnds, WorkFinish, WorkCheck,
                WorkNotify, Wakeup, WorkEvent, reactorVars, queueVars
  <2>2. QED
    BY <1>3, <2>1, WorkersStep, OthersKeepMass DEF MassInv
<1>4. ASSUME NEW b \in DbWorkers, Db(b) PROVE MassInv'
  <2>1. UNCHANGED <<cur, waiting, dropped>>
    BY <1>4 DEF Db, DbPop, DbAnswers, reactorVars, queueVars
  <2>2. QED
    BY <1>4, <2>1, WorkersStep, OthersKeepMass DEF MassInv
<1>5. CASE UNCHANGED vars
  BY <1>5 DEF vars, reactorVars, queueVars, MassInv
<1>6. QED
  BY <1>1, <1>2, <1>3, <1>4, <1>5, ReactorKeepsMass, DrainKeepsMass, ScriptAssumption DEF Next

LEMMA MassHolds == Spec => []MassInv
<1>1. Init => MassInv
  BY WorkersAreNotTheReactor DEF Init, MassInv
<1>2. QED
  BY <1>1, MassStep, TypesHold, PTL DEF Spec

---------------------------------------------------------------------------
(* Slots.                                                                  *)
SlotsOf(c) == flow[c].in_flight = InQueue(waiting, Of(c)) + Piped(SlotPlaces, Of(c))

LEMMA SlotPlacesFit == Inner \subseteq SlotPlaces /\ Outer \intersect SlotPlaces = {}
BY DEF Inner, Outer, SlotPlaces

LEMMA SlotNumbers ==
  ASSUME TypeInv, WindowInv, MassInv, NEW c \in Conns
  PROVE  /\ InQueue(divideq, Of(c)) \in Nat /\ InQueue(workq, Of(c)) \in Nat
         /\ InQueue(dbq, Of(c)) \in Nat /\ InQueue(dropped, Of(c)) \in Nat
         /\ InQueue(waiting, Of(c)) \in Nat
         /\ AtHand(SlotPlaces, Of(c)) \in Nat /\ AtHand(SlotPlaces, Of(c))' \in Nat
         /\ flow[c].in_flight \in Nat /\ flow[c] \in Flows
<1>1. flow[c] \in Flows /\ QueueTypes /\ dropped \in Seq(Messages)
  BY DEF WindowInv, TypeInv, MassInv
<1>2. flow[c].in_flight \in Nat
  BY <1>1 DEF Flows
<1>3. QED
  BY <1>1, <1>2, PipedNumbers

\* A step that moves no message, or moves one from a counted place to another.
LEMMA SlotsQuiet ==
  ASSUME NEW c \in Conns, SlotsOf(c), AtHand(SlotPlaces, Of(c))' = AtHand(SlotPlaces, Of(c)),
         UNCHANGED <<waiting, divideq, workq, dbq, dropped>>,
         flow'[c].in_flight = flow[c].in_flight
  PROVE  SlotsOf(c)'
BY DEF SlotsOf, Piped

LEMMA ReactorKeepsSlots ==
  ASSUME TypeInv, WindowInv, MassInv, NEW c \in Conns, SlotsOf(c), Reactor
  PROVE  SlotsOf(c)'
<1> USE WorkersAreNotTheReactor
<1>0. /\ ThreadTypes /\ QueueTypes /\ dropped \in Seq(Messages) /\ cur \in Conns
      /\ hand = [hand EXCEPT !["reactor"] = hand["reactor"]]
      /\ flow \in [Conns -> Flows]
  BY DEF TypeInv, MassInv, ThreadTypes, SharedTypes, WindowInv
<1>1. CASE ReadTakes
  <2>1. PICK there \in {"admit", "dispatch"}, m \in {hand'["reactor"]} :
          Steps("reactor", there, m) /\ pc["reactor"] = "read" /\ m.conn = cur /\ m \in Messages
    <3>1. Script[cur][taken[cur] + 1] \in Requests
      <4>1. /\ taken[cur] \in Nat /\ Script[cur] \in Seq(Requests) /\ taken[cur] < Len(Script[cur])
        <5>1. taken[cur] < received[cur] /\ cur \in Conns
          BY <1>0, <1>1 DEF ReadTakes
        <5>2. Script[cur] \in Seq(Requests) /\ Len(Script[cur]) \in Nat
          BY <1>0, ScriptAssumption
        <5>3. /\ taken[cur] \in Nat /\ received[cur] \in Nat /\ sent[cur] \in Nat
              /\ received[cur] <= sent[cur] /\ sent[cur] <= Len(Script[cur])
          BY <1>0 DEF TypeInv, ConnTypes
        <5>4. QED
          BY <5>1, <5>2, <5>3
      <4>2. QED
        BY <4>1
    <3>2. QED
      BY <1>0, <1>1, <3>1 DEF ReadTakes, Steps, Goto, Holds, Messages, Requests, ThreadTypes
  <2>2. AtHand(SlotPlaces, Of(c))' = AtHand(SlotPlaces, Of(c)) + One(m \in Of(c))
    BY <1>0, <2>1, HandGets DEF SlotPlaces
  <2>3. flow'[c].in_flight = flow[c].in_flight + One(m \in Of(c))
    <3>1. flow'[c] = IF c = cur THEN TryTake(flow[cur]) ELSE flow[c]
      BY <1>0, <1>1 DEF ReadTakes
    <3>2. m \in Of(c) <=> c = cur
      BY <2>1 DEF Of
    <3>3. CASE c = cur
      <4>1. One(m \in Of(c)) = 1
        BY <3>2, <3>3 DEF One
      <4>2. flow'[c].in_flight = flow[c].in_flight + 1
        BY <3>1, <3>3, SlotNumbers DEF TryTake, Flows
      <4>3. QED
        BY <4>1, <4>2
    <3>4. CASE c # cur
      <4>1. One(m \in Of(c)) = 0
        BY <3>2, <3>4 DEF One
      <4>2. QED
        BY <3>1, <3>4, <4>1, SlotNumbers
    <3>5. QED
      BY <3>3, <3>4
  <2>4. UNCHANGED <<waiting, divideq, workq, dbq, dropped>> /\ One(m \in Of(c)) \in Nat
    BY <1>1 DEF ReadTakes, queueVars, One
  <2>5. QED
    BY <2>2, <2>3, <2>4, SlotNumbers DEF SlotsOf, Piped
<1>2. CASE Admit \/ GiveCreditBack
  <2>1. PICK there \in {"dispatch", "park", "unslot"} :
          Steps("reactor", there, hand["reactor"]) /\ pc["reactor"] \in {"admit", "uncredit"}
    BY <1>0, <1>2 DEF Admit, GiveCreditBack, Steps, Goto
  <2>2. AtHand(SlotPlaces, Of(c))' = AtHand(SlotPlaces, Of(c))
    BY <1>0, <2>1, HandKeeps DEF SlotPlaces
  <2>3. UNCHANGED <<waiting, divideq, workq, dbq, dropped, flow>>
    BY <1>2 DEF Admit, GiveCreditBack, queueVars, sharedVars
  <2>4. QED
    BY <2>2, <2>3, SlotsQuiet
<1>3. CASE Park
  <2> DEFINE m == hand["reactor"]
  <2>1. /\ Steps("reactor", "pause", None) /\ pc["reactor"] = "park" /\ m \in Messages
        /\ waiting' = Append(waiting, m) /\ UNCHANGED <<divideq, workq, dbq, dropped, flow>>
    BY <1>0, <1>3 DEF Park, Steps, Goto, Holds, ThreadTypes, Carrying, sharedVars
  <2>2. AtHand(SlotPlaces, Of(c)) = AtHand(SlotPlaces, Of(c))' + One(m \in Of(c))
    BY <1>0, <2>1, HandPuts DEF SlotPlaces
  <2>3. InQueue(waiting', Of(c)) = InQueue(waiting, Of(c)) + One(m \in Of(c))
    BY <1>0, <2>1, AppendCount DEF QueueTypes
  <2>4. One(m \in Of(c)) \in Nat /\ UNCHANGED <<divideq, workq, dbq, dropped, flow>>
    BY <2>1 DEF One
  <2> HIDE DEF m
  <2>5. QED
    BY <2>2, <2>3, <2>4, SlotNumbers DEF SlotsOf, Piped
<1>4. CASE Dispatch
  <2> DEFINE m == hand["reactor"]
  <2>1. CASE Len(divideq) < DivideHigh
    <3>1. /\ Steps("reactor", "read", None) /\ pc["reactor"] = "dispatch" /\ m \in Messages
          /\ divideq' = Append(divideq, m) /\ UNCHANGED <<waiting, workq, dbq, dropped, flow>>
      BY <1>0, <1>4, <2>1 DEF Dispatch, Steps, Goto, Holds, ThreadTypes, Carrying, sharedVars
    <3>2. AtHand(SlotPlaces, Of(c)) = AtHand(SlotPlaces, Of(c))' + One(m \in Of(c))
      BY <1>0, <3>1, HandPuts DEF SlotPlaces
    <3>3. InQueue(divideq', Of(c)) = InQueue(divideq, Of(c)) + One(m \in Of(c))
      BY <1>0, <3>1, AppendCount DEF QueueTypes
    <3>4. One(m \in Of(c)) \in Nat /\ UNCHANGED <<waiting, workq, dbq, dropped, flow>>
      BY <3>1 DEF One
    <3> HIDE DEF m
    <3>5. QED
      BY <3>2, <3>3, <3>4, SlotNumbers DEF SlotsOf, Piped
  <2>2. CASE ~(Len(divideq) < DivideHigh)
    <3>1. PICK there \in {"uncredit", "unslot"} :
            Steps("reactor", there, hand["reactor"]) /\ pc["reactor"] = "dispatch"
      BY <1>0, <1>4, <2>2 DEF Dispatch, Steps, Goto
    <3>2. AtHand(SlotPlaces, Of(c))' = AtHand(SlotPlaces, Of(c))
      BY <1>0, <3>1, HandKeeps DEF SlotPlaces
    <3>3. UNCHANGED <<waiting, divideq, workq, dbq, dropped, flow>>
      BY <1>4, <2>2 DEF Dispatch, sharedVars
    <3>4. QED
      BY <3>2, <3>3, SlotsQuiet
  <2>3. QED
    BY <2>1, <2>2
<1>5. CASE GiveSlotBack
  <2> DEFINE m == hand["reactor"]
  <2>1. /\ Steps("reactor", "defer", None) /\ pc["reactor"] = "unslot" /\ m \in Messages
        /\ m.conn = cur
        /\ UNCHANGED <<waiting, divideq, workq, dbq, dropped>>
    BY <1>0, <1>5 DEF GiveSlotBack, Steps, Goto, Holds, ThreadTypes, Carrying, MassInv, queueVars
  <2>2. AtHand(SlotPlaces, Of(c)) = AtHand(SlotPlaces, Of(c))' + One(m \in Of(c))
    BY <1>0, <2>1, HandPuts DEF SlotPlaces
  <2>3. flow'[c] = IF c = cur THEN ReleaseSlot(flow[cur]) ELSE flow[c]
    BY <1>0, <1>5 DEF GiveSlotBack
  <2>4. m \in Of(c) <=> c = cur
    BY <2>1 DEF Of
  <2> HIDE DEF m
  <2>5. CASE c = cur
    <3>1. One(m \in Of(c)) = 1
      BY <2>4, <2>5 DEF One
    <3>2. flow[c].in_flight > 0
      BY <2>2, <3>1, SlotNumbers DEF SlotsOf, Piped
    <3>3. flow'[c].in_flight = flow[c].in_flight - 1
      BY <2>3, <2>5, <3>2, SlotNumbers DEF ReleaseSlot, Less, Flows
    <3>4. QED
      BY <2>1, <2>2, <3>1, <3>3, SlotNumbers DEF SlotsOf, Piped
  <2>6. CASE c # cur
    <3>1. One(m \in Of(c)) = 0
      BY <2>4, <2>6 DEF One
    <3>2. AtHand(SlotPlaces, Of(c))' = AtHand(SlotPlaces, Of(c))
      BY <2>2, <3>1, SlotNumbers
    <3>3. QED
      BY <2>1, <2>3, <2>6, <3>2, SlotsQuiet
  <2>7. QED
    BY <2>5, <2>6
<1>6. CASE ReadBytes
  <2>1. UNCHANGED <<waiting, divideq, workq, dbq, dropped, flow, pc, hand>>
    BY <1>6 DEF ReadBytes, sharedVars, queueVars
  <2>2. QED
    BY <2>1, SlotsQuiet DEF AtHand
<1>7. CASE ~(ReadTakes \/ Admit \/ GiveCreditBack \/ Park \/ Dispatch \/ GiveSlotBack \/ ReadBytes)
  <2>1. PICK there \in {"idle", "read", "swap", "resume", "retry", "unpause"} :
          /\ Goto("reactor", there)
          /\ pc["reactor"] \in {"idle", "read", "swap", "resume", "retry", "unpause", "pause", "defer"}
    BY <1>7 DEF Reactor, ReadEvent, ResumeConsume, RetryConsume, WakeEvent, ResumeSwap,
            ResumeUnpause, ResumesDone, RetryUnpause, RetriesDone, ReadStops, Caller,
            Pause, Defer, TypeInv, SharedTypes
  <2>2. UNCHANGED <<waiting, divideq, workq, dbq, dropped, hand>>
    BY <1>7 DEF Reactor, ReadEvent, ResumeConsume, RetryConsume, WakeEvent, ResumeSwap,
            ResumeUnpause, ResumesDone, RetryUnpause, RetriesDone, ReadStops,
            Pause, Defer, queueVars
  <2>3. Steps("reactor", there, hand["reactor"])
    BY <1>0, <2>1, <2>2 DEF Steps, Goto
  <2>4. AtHand(SlotPlaces, Of(c))' = AtHand(SlotPlaces, Of(c))
    BY <1>0, <2>1, <2>3, HandKeeps DEF SlotPlaces
  <2>5. flow'[c].in_flight = flow[c].in_flight
    <3>1. CASE flow' = flow
      BY <3>1
    <3>2. ASSUME NEW d \in Conns, ResumeConsume(d) \/ RetryConsume(d)
          PROVE  flow'[c].in_flight = flow[c].in_flight
      <4>1. flow' = [flow EXCEPT ![d] = [flow[d] EXCEPT !.resume_pending = FALSE]]
        BY <3>2 DEF ResumeConsume, RetryConsume
      <4>2. QED
        BY <1>0, <4>1 DEF Flows
    <3>3. QED
      BY <1>7, <3>1, <3>2 DEF Reactor, ReadEvent, WakeEvent, ResumeSwap,
            ResumeUnpause, ResumesDone, RetryUnpause, RetriesDone, ReadStops, Pause, Defer, sharedVars
  <2>6. QED
    BY <2>2, <2>4, <2>5, SlotsQuiet
<1>8. QED
  BY <1>1, <1>2, <1>3, <1>4, <1>5, <1>6, <1>7

LEMMA DrainKeepsSlots ==
  ASSUME TypeInv, WindowInv, MassInv, NEW c \in Conns, SlotsOf(c), Drain
  PROVE  SlotsOf(c)'
<1> USE WorkersAreNotTheReactor
<1>0. /\ ThreadTypes /\ QueueTypes /\ dropped \in Seq(Messages)
      /\ hand = [hand EXCEPT !["drain"] = hand["drain"]]
  BY DEF TypeInv, MassInv, ThreadTypes
<1>1. CASE DrainTake
  <2>1. /\ waiting # << >> /\ waiting' = Tail(waiting)
        /\ UNCHANGED <<divideq, workq, dbq, dropped, flow>>
    BY <1>1 DEF DrainTake, sharedVars
  <2>2. Steps("drain", "acquire", Head(waiting)) /\ pc["drain"] = "idle"
    BY <1>1 DEF DrainTake, Steps, Goto, Holds
  <2>3. AtHand(SlotPlaces, Of(c))' = AtHand(SlotPlaces, Of(c)) + One(Head(waiting) \in Of(c))
    BY <1>0, <2>2, HandGets DEF SlotPlaces
  <2>4. InQueue(waiting, Of(c)) = InQueue(waiting', Of(c)) + One(Head(waiting) \in Of(c))
    BY <1>0, <2>1, TailCount DEF QueueTypes
  <2>5. InQueue(waiting', Of(c)) \in Nat /\ One(Head(waiting) \in Of(c)) \in Nat
    BY <1>0, <2>1, QueueCount, PopsOne DEF QueueTypes, One
  <2>6. UNCHANGED <<divideq, workq, dbq, dropped, flow>>
    BY <2>1
  <2>7. QED
    BY <2>3, <2>4, <2>5, <2>6, SlotNumbers DEF SlotsOf, Piped
<1>2. CASE DrainDispatch
  <2> DEFINE m == hand["drain"]
  <2>1. /\ Steps("drain", "notify", m) /\ pc["drain"] = "dispatch" /\ m \in Messages
        /\ divideq' = Append(divideq, m) /\ UNCHANGED <<waiting, workq, dbq, dropped, flow>>
    BY <1>0, <1>2 DEF DrainDispatch, Steps, Goto, ThreadTypes, Carrying, sharedVars
  <2>2. AtHand(SlotPlaces, Of(c)) = AtHand(SlotPlaces, Of(c))' + One(m \in Of(c))
    BY <1>0, <2>1, HandPuts DEF SlotPlaces
  <2>3. InQueue(divideq', Of(c)) = InQueue(divideq, Of(c)) + One(m \in Of(c))
    BY <1>0, <2>1, AppendCount DEF QueueTypes
  <2>4. One(m \in Of(c)) \in Nat /\ UNCHANGED <<waiting, workq, dbq, dropped, flow>>
    BY <2>1 DEF One
  <2> HIDE DEF m
  <2>5. QED
    BY <2>2, <2>3, <2>4, SlotNumbers DEF SlotsOf, Piped
<1>3. CASE DrainAcquire
  <2>1. Steps("drain", "dispatch", hand["drain"]) /\ pc["drain"] = "acquire"
    BY <1>0, <1>3 DEF DrainAcquire, Steps, Goto
  <2>2. AtHand(SlotPlaces, Of(c))' = AtHand(SlotPlaces, Of(c))
    BY <1>0, <2>1, HandKeeps DEF SlotPlaces
  <2>3. QED
    BY <1>3, <2>2, SlotsQuiet DEF DrainAcquire, queueVars, sharedVars
<1>4. CASE DrainNotify \/ Wakeup("drain")
  <2>1. PICK there \in {"idle", "wakeup"}, m \in {None, hand["drain"]} :
          Steps("drain", there, m) /\ pc["drain"] \in {"notify", "wakeup"}
    BY <1>0, <1>4 DEF DrainNotify, Wakeup, ScheduleResume, Steps, Goto, Holds
  <2>2. AtHand(SlotPlaces, Of(c))' = AtHand(SlotPlaces, Of(c))
    BY <1>0, <2>1, HandKeeps DEF SlotPlaces
  <2>3. QED
    BY <1>4, <2>2, SlotsQuiet DEF DrainNotify, Wakeup, ScheduleResume, queueVars
<1>5. QED
  BY <1>1, <1>2, <1>3, <1>4 DEF Drain

LEMMA WorkKeepsSlots ==
  ASSUME TypeInv, WindowInv, MassInv, NEW c \in Conns, SlotsOf(c), NEW w \in WorkWorkers, Work(w)
  PROVE  SlotsOf(c)'
<1> USE WorkersAreNotTheReactor
<1>0. /\ ThreadTypes /\ QueueTypes /\ dropped \in Seq(Messages) /\ w \in Threads
      /\ hand = [hand EXCEPT ![w] = hand[w]]
      /\ flow \in [Conns -> Flows]
  BY DEF TypeInv, MassInv, ThreadTypes, WindowInv
<1>1. CASE WorkEnds(w)
  <2>1. Steps(w, "finish", hand[w]) /\ pc[w] = "task"
    BY <1>0, <1>1 DEF WorkEnds, Steps, Goto
  <2>2. AtHand(SlotPlaces, Of(c))' = AtHand(SlotPlaces, Of(c))
    BY <1>0, <2>1, HandKeeps DEF SlotPlaces
  <2>3. QED
    BY <1>1, <2>2, SlotsQuiet DEF WorkEnds, queueVars, sharedVars
<1>2. CASE WorkFinish(w)
  <2> DEFINE m == hand[w]
  <2>1. PICK there \in {"check", "idle"}, n \in {None, hand[w]} :
          /\ Steps(w, there, n) /\ pc[w] = "finish" /\ m \in Messages
    BY <1>0, <1>2 DEF WorkFinish, Steps, Goto, Holds, ThreadTypes, Carrying
  <2>2. AtHand(SlotPlaces, Of(c)) = AtHand(SlotPlaces, Of(c))' + One(m \in Of(c))
    BY <1>0, <2>1, HandPuts DEF SlotPlaces
  <2>3. /\ UNCHANGED <<waiting, divideq, workq, dbq, dropped>>
        /\ flow'[c] = IF c = m.conn THEN FinishOne(flow[c]) ELSE flow[c]
    BY <1>0, <1>2 DEF WorkFinish, queueVars
  <2>4. m \in Of(c) <=> c = m.conn
    BY <2>1 DEF Of
  <2> HIDE DEF m
  <2>5. CASE c = m.conn
    <3>1. One(m \in Of(c)) = 1
      BY <2>4, <2>5 DEF One
    <3>2. flow[c].in_flight > 0
      BY <2>2, <3>1, SlotNumbers DEF SlotsOf, Piped
    <3>3. flow'[c].in_flight = flow[c].in_flight - 1
      BY <2>3, <2>5, <3>2, SlotNumbers DEF FinishOne, Less, Flows
    <3>4. QED
      BY <2>2, <2>3, <3>1, <3>3, SlotNumbers DEF SlotsOf, Piped
  <2>6. CASE c # m.conn
    <3>1. One(m \in Of(c)) = 0
      BY <2>4, <2>6 DEF One
    <3>2. AtHand(SlotPlaces, Of(c))' = AtHand(SlotPlaces, Of(c))
      BY <2>2, <3>1, SlotNumbers
    <3>3. QED
      BY <2>3, <2>6, <3>2, SlotsQuiet
  <2>7. QED
    BY <2>5, <2>6
<1>3. CASE ~WorkEnds(w) /\ ~WorkFinish(w)
  <2>1. Piped(SlotPlaces, Of(c))' = Piped(SlotPlaces, Of(c))
    BY <1>0, <1>3, WorkKeepsPiped, SlotPlacesFit, KindsAreWhole
  <2>2. waiting' = waiting /\ flow' = flow
    BY <1>3 DEF Work, WorkPop, WorkAwaits, WorkSuspends, WorkCheck, WorkNotify, Wakeup, WorkEvent,
                queueVars, sharedVars
  <2>3. QED
    BY <2>1, <2>2 DEF SlotsOf
<1>4. QED
  BY <1>1, <1>2, <1>3

LEMMA SlotStep ==
  ASSUME TypeInv, WindowInv, MassInv, [Next]_vars, NEW c \in Conns, SlotsOf(c)
  PROVE  SlotsOf(c)'
<1>1. ASSUME NEW d \in Conns, Arrive(d) \/ CloseClient(d) PROVE SlotsOf(c)'
  <2>1. UNCHANGED <<waiting, divideq, workq, dbq, dropped, flow, pc, hand>>
    BY <1>1 DEF Arrive, CloseClient, sharedVars, queueVars
  <2>2. QED
    BY <2>1, SlotsQuiet DEF AtHand
<1>2. ASSUME NEW d \in DivideWorkers, Divide(d) PROVE SlotsOf(c)'
  <2>1. Piped(SlotPlaces, Of(c))' = Piped(SlotPlaces, Of(c))
    BY <1>2, DivideKeepsPiped, SlotPlacesFit DEF MassInv
  <2>2. waiting' = waiting /\ flow' = flow
    BY <1>2 DEF Divide, DividePop, LowWater, DivideWork, DivideThrows, queueVars, sharedVars
  <2>3. QED
    BY <2>1, <2>2 DEF SlotsOf
<1>3. ASSUME NEW b \in DbWorkers, Db(b) PROVE SlotsOf(c)'
  <2>1. Piped(SlotPlaces, Of(c))' = Piped(SlotPlaces, Of(c))
    BY <1>3, DbKeepsPiped, SlotPlacesFit, KindsAreWhole DEF MassInv
  <2>2. waiting' = waiting /\ flow' = flow
    BY <1>3 DEF Db, DbPop, DbAnswers, queueVars, sharedVars
  <2>3. QED
    BY <2>1, <2>2 DEF SlotsOf
<1>4. CASE UNCHANGED vars
  <2>1. UNCHANGED <<waiting, divideq, workq, dbq, dropped, flow, pc, hand>>
    BY <1>4 DEF vars, sharedVars, queueVars
  <2>2. QED
    BY <2>1, SlotsQuiet DEF AtHand
<1>5. QED
  BY <1>1, <1>2, <1>3, <1>4, ReactorKeepsSlots, DrainKeepsSlots, WorkKeepsSlots, ScriptAssumption
     DEF Next

(* What is counted here is what the property counts.                       *)
LEMMA SameCount ==
  ASSUME NEW q \in Seq(Messages), NEW c
  PROVE  /\ InQueue(q, Of(c)) = Cardinality({n \in DOMAIN q : q[n].conn = c})
         /\ InQueue(q, DbKind) = Cardinality({n \in DOMAIN q : q[n].class = "db"})
<1>1. \A n \in DOMAIN q : q[n] \in Messages
  OBVIOUS
<1>2. /\ {n \in DOMAIN q : q[n] \in Of(c)} = {n \in DOMAIN q : q[n].conn = c}
      /\ {n \in DOMAIN q : q[n] \in DbKind} = {n \in DOMAIN q : q[n].class = "db"}
  BY <1>1 DEF Of, DbKind
<1>3. QED
  BY <1>2 DEF InQueue

LEMMA SameHands ==
  ASSUME ThreadTypes, NEW c, NEW P
  PROVE  /\ AtHand(P, Of(c))
              = Cardinality({t \in Threads : hand[t] # None /\ pc[t] \in P /\ hand[t].conn = c})
         /\ AtHand(P, DbKind)
              = Cardinality({t \in Threads : hand[t] # None /\ pc[t] \in P /\ hand[t].class = "db"})
<1>1. \A t \in Threads : hand[t] \in Messages <=> hand[t] # None
  BY ThreadAssumption DEF ThreadTypes
<1>2. /\ {t \in Threads : pc[t] \in P /\ hand[t] \in Of(c)}
           = {t \in Threads : hand[t] # None /\ pc[t] \in P /\ hand[t].conn = c}
      /\ {t \in Threads : pc[t] \in P /\ hand[t] \in DbKind}
           = {t \in Threads : hand[t] # None /\ pc[t] \in P /\ hand[t].class = "db"}
  BY <1>1 DEF Of, DbKind
<1>3. QED
  BY <1>2 DEF AtHand

(* Every slot of every connection's window is held by exactly one message  *)
(* on its way, or by one whose divide function threw.                      *)
THEOREM EverySlotHasItsMessage == Spec => []SlotsConserved
<1> DEFINE SlotInv == \A c \in Conns : SlotsOf(c)
<1>1. Init => SlotInv
  <2> SUFFICES ASSUME Init, NEW c \in Conns PROVE SlotsOf(c)
    OBVIOUS
  <2>1. AtHand(SlotPlaces, Of(c)) = 0
    <3>1. {t \in Threads : pc[t] \in SlotPlaces /\ hand[t] \in Of(c)} = {}
      BY DEF Init, SlotPlaces
    <3>2. QED
      BY <3>1, FS_EmptySet DEF AtHand
  <2>2. flow[c].in_flight = 0
    BY DEF Init
  <2>3. /\ InQueue(waiting, Of(c)) = 0 /\ InQueue(divideq, Of(c)) = 0 /\ InQueue(workq, Of(c)) = 0
        /\ InQueue(dbq, Of(c)) = 0 /\ InQueue(dropped, Of(c)) = 0
    BY NothingCounted DEF Init
  <2>4. QED
    BY <2>1, <2>2, <2>3 DEF SlotsOf, Piped
<1>2. TypeInv /\ WindowInv /\ MassInv /\ SlotInv /\ [Next]_vars => SlotInv'
  BY SlotStep
<1>3. TypeInv /\ WindowInv /\ MassInv /\ SlotInv => SlotsConserved
  <2> SUFFICES ASSUME TypeInv, WindowInv, MassInv, NEW c \in Conns, SlotsOf(c)
               PROVE  flow[c].in_flight = Slots(c) + Queued(dropped, LAMBDA m : OfConn(m, c))
    BY DEF SlotsConserved
  <2>1. /\ Queued(waiting, LAMBDA m : OfConn(m, c)) = InQueue(waiting, Of(c))
        /\ Queued(divideq, LAMBDA m : OfConn(m, c)) = InQueue(divideq, Of(c))
        /\ Queued(workq, LAMBDA m : OfConn(m, c)) = InQueue(workq, Of(c))
        /\ Queued(dbq, LAMBDA m : OfConn(m, c)) = InQueue(dbq, Of(c))
        /\ Queued(dropped, LAMBDA m : OfConn(m, c)) = InQueue(dropped, Of(c))
    <3>1. /\ waiting \in Seq(Messages) /\ divideq \in Seq(Messages) /\ workq \in Seq(Messages)
          /\ dbq \in Seq(Messages) /\ dropped \in Seq(Messages)
      BY DEF TypeInv, QueueTypes, MassInv
    <3>2. \A q \in Seq(Messages) :
            InQueue(q, Of(c)) = Cardinality({n \in DOMAIN q : q[n].conn = c})
      BY SameCount
    <3>3. QED
      BY <3>1, <3>2 DEF Queued, OfConn
  <2>2. InHand(SlotPlaces, LAMBDA m : OfConn(m, c)) = AtHand(SlotPlaces, Of(c))
    BY SameHands DEF TypeInv, InHand, OfConn
  <2>3. QED
    BY <2>1, <2>2, SlotNumbers DEF SlotsOf, Piped, Slots
<1>4. QED
  BY <1>1, <1>2, <1>3, TypesHold, WindowHolds, MassHolds, PTL DEF Spec

---------------------------------------------------------------------------
(* Credits, counted in the same way.                                       *)
CreditInv == available + Piped(CreditPlaces, DbKind) = CreditLimit

LEMMA CreditPlacesFit == Inner \subseteq CreditPlaces /\ Outer \intersect CreditPlaces = {}
BY DEF Inner, Outer, CreditPlaces

LEMMA CreditNumbers ==
  ASSUME TypeInv, MassInv
  PROVE  /\ InQueue(divideq, DbKind) \in Nat /\ InQueue(workq, DbKind) \in Nat
         /\ InQueue(dbq, DbKind) \in Nat /\ InQueue(dropped, DbKind) \in Nat
         /\ AtHand(CreditPlaces, DbKind) \in Nat /\ AtHand(CreditPlaces, DbKind)' \in Nat
         /\ available \in Nat /\ CreditLimit \in Nat
<1>1. /\ QueueTypes /\ dropped \in Seq(Messages)
      /\ available \in 0 .. CreditLimit /\ CreditLimit \in Nat
  BY SizeAssumption DEF TypeInv, MassInv, QueueTypes
<1>2. QED
  BY <1>1, PipedNumbers

LEMMA CreditsQuiet ==
  ASSUME CreditInv, AtHand(CreditPlaces, DbKind)' = AtHand(CreditPlaces, DbKind),
         UNCHANGED <<divideq, workq, dbq, dropped, available>>
  PROVE  CreditInv'
BY DEF CreditInv, Piped

(* A credit is taken by a thread with a message that needs the database.   *)
LEMMA CreditTaken ==
  ASSUME TypeInv, MassInv, CreditInv, NEW t \in Threads, NEW there, NEW m \in DbKind,
         Steps(t, there, m), pc[t] \notin CreditPlaces, there \in CreditPlaces,
         available > 0, available' = available - 1,
         UNCHANGED <<divideq, workq, dbq, dropped>>
  PROVE  CreditInv'
<1>1. AtHand(CreditPlaces, DbKind)' = AtHand(CreditPlaces, DbKind) + One(m \in DbKind)
  BY HandGets DEF TypeInv
<1>2. One(m \in DbKind) = 1
  BY DEF One
<1>3. QED
  BY <1>1, <1>2, CreditNumbers DEF CreditInv, Piped

(* A thread gives a credit back if its message has one.                    *)
LEMMA CreditGiven ==
  ASSUME TypeInv, MassInv, CreditInv, NEW t \in Threads, NEW there, NEW m,
         Steps(t, there, m), pc[t] \in CreditPlaces, there \notin CreditPlaces,
         hand[t] \in Messages,
         IF hand[t].class = "db" THEN ReleaseCredit ELSE UNCHANGED available,
         UNCHANGED <<divideq, workq, dbq, dropped>>
  PROVE  CreditInv'
<1>1. AtHand(CreditPlaces, DbKind) = AtHand(CreditPlaces, DbKind)' + One(hand[t] \in DbKind)
  BY HandPuts DEF TypeInv
<1>2. CASE hand[t].class = "db"
  <2>1. One(hand[t] \in DbKind) = 1
    BY <1>2 DEF One, DbKind
  <2>2. available < CreditLimit
    BY <1>1, <2>1, CreditNumbers DEF CreditInv, Piped
  <2>3. available' = available + 1
    BY <1>2, <2>2 DEF ReleaseCredit
  <2>4. QED
    BY <1>1, <2>1, <2>3, CreditNumbers DEF CreditInv, Piped
<1>3. CASE hand[t].class # "db"
  <2>1. One(hand[t] \in DbKind) = 0 /\ available' = available
    BY <1>3 DEF One, DbKind
  <2>2. AtHand(CreditPlaces, DbKind)' = AtHand(CreditPlaces, DbKind)
    BY <1>1, <2>1, CreditNumbers
  <2>3. QED
    BY <2>1, <2>2, CreditsQuiet
<1>4. QED
  BY <1>2, <1>3

(* A message goes to the divide queue with what it has.                    *)
LEMMA CreditQueued ==
  ASSUME TypeInv, MassInv, CreditInv, NEW t \in Threads, NEW there, NEW m,
         Steps(t, there, m), pc[t] \in CreditPlaces, there \notin CreditPlaces,
         hand[t] \in Messages, divideq' = Append(divideq, hand[t]),
         UNCHANGED <<workq, dbq, dropped, available>>
  PROVE  CreditInv'
<1>1. AtHand(CreditPlaces, DbKind) = AtHand(CreditPlaces, DbKind)' + One(hand[t] \in DbKind)
  BY HandPuts DEF TypeInv
<1>2. InQueue(divideq', DbKind) = InQueue(divideq, DbKind) + One(hand[t] \in DbKind)
  BY AppendCount DEF TypeInv, QueueTypes
<1>3. One(hand[t] \in DbKind) \in Nat
  BY DEF One
<1>4. UNCHANGED <<workq, dbq, dropped, available>>
  OBVIOUS
<1>5. QED
  BY <1>1, <1>2, <1>3, <1>4, CreditNumbers DEF CreditInv, Piped

LEMMA ReactorKeepsCredits ==
  ASSUME TypeInv, MassInv, CreditInv, Reactor
  PROVE  CreditInv'
<1> USE WorkersAreNotTheReactor
<1>0. /\ ThreadTypes /\ hand = [hand EXCEPT !["reactor"] = hand["reactor"]]
  BY DEF TypeInv, ThreadTypes
<1>1. CASE ReadTakes
  <2>1. CASE hand'["reactor"] \in DbKind
    <3>1. PICK m \in {hand'["reactor"]} :
            Steps("reactor", "admit", m) /\ pc["reactor"] = "read"
      BY <1>0, <1>1, <2>1 DEF ReadTakes, Steps, Goto, Holds, DbKind, ThreadTypes
    <3>2. AtHand(CreditPlaces, DbKind)' = AtHand(CreditPlaces, DbKind)
      BY <1>0, <3>1, HandKeeps DEF CreditPlaces
    <3>3. QED
      BY <1>1, <3>2, CreditsQuiet DEF ReadTakes, queueVars
  <2>2. CASE hand'["reactor"] \notin DbKind
    <3>1. PICK there \in {"admit", "dispatch"}, m \in {hand'["reactor"]} :
            Steps("reactor", there, m) /\ pc["reactor"] = "read"
      BY <1>0, <1>1 DEF ReadTakes, Steps, Goto, Holds, ThreadTypes
    <3>2. One(pc["reactor"] \in CreditPlaces /\ hand["reactor"] \in DbKind) = 0
          /\ One(there \in CreditPlaces /\ m \in DbKind) = 0
      BY <2>2, <3>1 DEF One, CreditPlaces
    <3>3. AtHand(CreditPlaces, DbKind)' = AtHand(CreditPlaces, DbKind)
      BY <1>0, <3>1, <3>2, StepCount, CreditNumbers
    <3>4. QED
      BY <1>1, <3>3, CreditsQuiet DEF ReadTakes, queueVars
  <2>3. QED
    BY <2>1, <2>2
<1>2. CASE Admit
  <2>1. CASE available > 0
    <3>1. /\ Steps("reactor", "dispatch", hand["reactor"]) /\ pc["reactor"] = "admit"
          /\ available' = available - 1 /\ UNCHANGED <<divideq, workq, dbq, dropped>>
      BY <1>0, <1>2, <2>1 DEF Admit, Steps, Goto, queueVars
    <3>2. hand["reactor"] \in DbKind
      BY <1>0, <3>1 DEF MassInv, DbKind, ThreadTypes, Carrying
    <3>3. "admit" \notin CreditPlaces /\ "dispatch" \in CreditPlaces
      BY DEF CreditPlaces
    <3>4. QED
      BY <2>1, <3>1, <3>2, <3>3, CreditTaken
  <2>2. CASE ~(available > 0)
    <3>1. Steps("reactor", "park", hand["reactor"]) /\ pc["reactor"] = "admit"
      BY <1>0, <1>2, <2>2 DEF Admit, Steps, Goto
    <3>2. AtHand(CreditPlaces, DbKind)' = AtHand(CreditPlaces, DbKind)
      BY <1>0, <3>1, HandKeeps DEF CreditPlaces
    <3>3. UNCHANGED <<divideq, workq, dbq, dropped, available>>
      BY <1>2, <2>2 DEF Admit, queueVars
    <3>4. QED
      BY <3>2, <3>3, CreditsQuiet
  <2>3. QED
    BY <2>1, <2>2
<1>3. CASE Dispatch
  <2>1. pc["reactor"] = "dispatch" /\ "dispatch" \in CreditPlaces /\ hand["reactor"] \in Messages
    BY <1>0, <1>3 DEF Dispatch, CreditPlaces, ThreadTypes, Carrying
  <2>2. CASE Len(divideq) < DivideHigh
    <3>1. /\ Steps("reactor", "read", None) /\ divideq' = Append(divideq, hand["reactor"])
          /\ UNCHANGED <<workq, dbq, dropped, available>>
      BY <1>3, <2>2 DEF Dispatch, Steps, Goto, Holds
    <3>2. "read" \notin CreditPlaces
      BY DEF CreditPlaces
    <3>3. QED
      BY <2>1, <3>1, <3>2, CreditQueued
  <2>3. CASE ~(Len(divideq) < DivideHigh) /\ hand["reactor"].class = "db"
    <3>1. Steps("reactor", "uncredit", hand["reactor"])
      BY <1>0, <1>3, <2>3 DEF Dispatch, Steps, Goto
    <3>2. AtHand(CreditPlaces, DbKind)' = AtHand(CreditPlaces, DbKind)
      BY <1>0, <2>1, <3>1, HandKeeps DEF CreditPlaces
    <3>3. UNCHANGED <<divideq, workq, dbq, dropped, available>>
      BY <1>3, <2>3 DEF Dispatch
    <3>4. QED
      BY <3>2, <3>3, CreditsQuiet
  <2>4. CASE ~(Len(divideq) < DivideHigh) /\ hand["reactor"].class # "db"
    <3>1. /\ Steps("reactor", "unslot", hand["reactor"])
          /\ UNCHANGED <<divideq, workq, dbq, dropped, available>>
      BY <1>0, <1>3, <2>4 DEF Dispatch, Steps, Goto
    <3>2. "unslot" \notin CreditPlaces
      BY DEF CreditPlaces
    <3>3. QED
      BY <2>1, <2>4, <3>1, <3>2, CreditGiven
  <2>5. QED
    BY <2>2, <2>3, <2>4
<1>4. CASE GiveCreditBack
  <2>1. /\ Steps("reactor", "unslot", hand["reactor"]) /\ pc["reactor"] = "uncredit"
        /\ ReleaseCredit /\ UNCHANGED <<divideq, workq, dbq, dropped>>
    BY <1>0, <1>4 DEF GiveCreditBack, Steps, Goto, queueVars
  <2>2. hand["reactor"] \in Messages /\ hand["reactor"].class = "db"
    BY <1>0, <2>1 DEF MassInv, ThreadTypes, Carrying
  <2>3. "uncredit" \in CreditPlaces /\ "unslot" \notin CreditPlaces
    BY DEF CreditPlaces
  <2>4. QED
    BY <2>1, <2>2, <2>3, CreditGiven
<1>5. CASE Park \/ GiveSlotBack
  <2>1. PICK there \in {"pause", "defer"} :
          Steps("reactor", there, None) /\ pc["reactor"] \in {"park", "unslot"}
    BY <1>5 DEF Park, GiveSlotBack, Steps, Goto, Holds
  <2>2. AtHand(CreditPlaces, DbKind)' = AtHand(CreditPlaces, DbKind)
    BY <1>0, <2>1, HandKeeps DEF CreditPlaces
  <2>3. UNCHANGED <<divideq, workq, dbq, dropped, available>>
    BY <1>5 DEF Park, GiveSlotBack, queueVars
  <2>4. QED
    BY <2>2, <2>3, CreditsQuiet
<1>6. CASE ReadBytes
  <2>1. UNCHANGED <<divideq, workq, dbq, dropped, available, pc, hand>>
    BY <1>6 DEF ReadBytes, queueVars
  <2>2. QED
    BY <2>1, CreditsQuiet DEF AtHand
<1>7. CASE ~(ReadTakes \/ Admit \/ Dispatch \/ GiveCreditBack \/ Park \/ GiveSlotBack \/ ReadBytes)
  <2>1. PICK there \in {"idle", "read", "swap", "resume", "retry", "unpause"} :
          /\ Goto("reactor", there)
          /\ pc["reactor"] \in {"idle", "read", "swap", "resume", "retry", "unpause", "pause", "defer"}
    BY <1>7 DEF Reactor, ReadEvent, ResumeConsume, RetryConsume, WakeEvent, ResumeSwap,
            ResumeUnpause, ResumesDone, RetryUnpause, RetriesDone, ReadStops, Caller,
            Pause, Defer, TypeInv, SharedTypes
  <2>2. UNCHANGED <<divideq, workq, dbq, dropped, available, hand>>
    BY <1>7 DEF Reactor, ReadEvent, ResumeConsume, RetryConsume, WakeEvent, ResumeSwap,
            ResumeUnpause, ResumesDone, RetryUnpause, RetriesDone, ReadStops,
            Pause, Defer, queueVars
  <2>3. Steps("reactor", there, hand["reactor"])
    BY <1>0, <2>1, <2>2 DEF Steps, Goto
  <2>4. AtHand(CreditPlaces, DbKind)' = AtHand(CreditPlaces, DbKind)
    BY <1>0, <2>1, <2>3, HandKeeps DEF CreditPlaces
  <2>5. QED
    BY <2>2, <2>4, CreditsQuiet
<1>8. QED
  BY <1>1, <1>2, <1>3, <1>4, <1>5, <1>6, <1>7

LEMMA DrainKeepsCredits ==
  ASSUME TypeInv, MassInv, CreditInv, Drain
  PROVE  CreditInv'
<1> USE WorkersAreNotTheReactor
<1>0. /\ ThreadTypes /\ hand = [hand EXCEPT !["drain"] = hand["drain"]]
  BY DEF TypeInv, ThreadTypes
<1>1. CASE DrainAcquire
  <2>1. /\ Steps("drain", "dispatch", hand["drain"]) /\ pc["drain"] = "acquire"
        /\ available > 0 /\ available' = available - 1
        /\ UNCHANGED <<divideq, workq, dbq, dropped>>
    BY <1>0, <1>1 DEF DrainAcquire, Steps, Goto, queueVars
  <2>2. hand["drain"] \in DbKind /\ "acquire" \notin CreditPlaces /\ "dispatch" \in CreditPlaces
    BY <2>1 DEF MassInv, CreditPlaces
  <2>3. QED
    BY <2>1, <2>2, CreditTaken
<1>2. CASE DrainDispatch
  <2>1. /\ Steps("drain", "notify", hand["drain"]) /\ pc["drain"] = "dispatch"
        /\ divideq' = Append(divideq, hand["drain"])
        /\ UNCHANGED <<workq, dbq, dropped, available>>
    BY <1>0, <1>2 DEF DrainDispatch, Steps, Goto
  <2>2. /\ hand["drain"] \in Messages /\ "dispatch" \in CreditPlaces /\ "notify" \notin CreditPlaces
    BY <1>0, <2>1 DEF CreditPlaces, ThreadTypes, Carrying
  <2>3. QED
    BY <2>1, <2>2, CreditQueued
<1>3. CASE DrainTake \/ DrainNotify \/ Wakeup("drain")
  <2>1. PICK there \in {"acquire", "idle", "wakeup"}, m \in {None, hand["drain"], Head(waiting)} :
          Steps("drain", there, m) /\ pc["drain"] \in {"idle", "notify", "wakeup"}
    BY <1>0, <1>3 DEF DrainTake, DrainNotify, Wakeup, ScheduleResume, Steps, Goto, Holds
  <2>2. AtHand(CreditPlaces, DbKind)' = AtHand(CreditPlaces, DbKind)
    BY <1>0, <2>1, HandKeeps DEF CreditPlaces
  <2>3. UNCHANGED <<divideq, workq, dbq, dropped, available>>
    BY <1>3 DEF DrainTake, DrainNotify, Wakeup, ScheduleResume, queueVars
  <2>4. QED
    BY <2>2, <2>3, CreditsQuiet
<1>4. QED
  BY <1>1, <1>2, <1>3 DEF Drain

LEMMA WorkKeepsCredits ==
  ASSUME TypeInv, MassInv, CreditInv, NEW w \in WorkWorkers, Work(w)
  PROVE  CreditInv'
<1> USE WorkersAreNotTheReactor
<1>0. /\ ThreadTypes /\ hand = [hand EXCEPT ![w] = hand[w]] /\ w \in Threads
  BY DEF TypeInv, ThreadTypes
<1>1. CASE WorkEnds(w)
  <2>1. /\ Steps(w, "finish", hand[w]) /\ pc[w] = "task"
        /\ IF hand[w].class = "db" THEN ReleaseCredit ELSE UNCHANGED available
        /\ UNCHANGED <<divideq, workq, dbq, dropped>>
    BY <1>0, <1>1 DEF WorkEnds, Steps, Goto, queueVars
  <2>2. hand[w] \in Messages /\ "task" \in CreditPlaces /\ "finish" \notin CreditPlaces
    BY <1>0, <2>1 DEF CreditPlaces, ThreadTypes, Carrying
  <2>3. QED
    BY <1>0, <2>1, <2>2, CreditGiven
<1>2. CASE WorkFinish(w)
  <2>1. PICK there \in {"check", "idle"}, m \in {None, hand[w]} :
          Steps(w, there, m) /\ pc[w] = "finish"
    BY <1>0, <1>2 DEF WorkFinish, Steps, Goto, Holds
  <2>2. AtHand(CreditPlaces, DbKind)' = AtHand(CreditPlaces, DbKind)
    BY <1>0, <2>1, HandKeeps DEF CreditPlaces
  <2>3. UNCHANGED <<divideq, workq, dbq, dropped, available>>
    BY <1>2 DEF WorkFinish, queueVars
  <2>4. QED
    BY <2>2, <2>3, CreditsQuiet
<1>3. CASE ~WorkEnds(w) /\ ~WorkFinish(w)
  <2>1. Piped(CreditPlaces, DbKind)' = Piped(CreditPlaces, DbKind)
    BY <1>0, <1>3, WorkKeepsPiped, CreditPlacesFit, KindsAreWhole DEF MassInv
  <2>2. available' = available
    BY <1>3 DEF Work, WorkPop, WorkAwaits, WorkSuspends, WorkCheck, WorkNotify, Wakeup, WorkEvent
  <2>3. QED
    BY <2>1, <2>2 DEF CreditInv
<1>4. QED
  BY <1>1, <1>2, <1>3

LEMMA CreditStep == TypeInv /\ MassInv /\ CreditInv /\ [Next]_vars => CreditInv'
<1> SUFFICES ASSUME TypeInv, MassInv, CreditInv, [Next]_vars PROVE CreditInv'
  OBVIOUS
<1>1. ASSUME NEW c \in Conns, Arrive(c) \/ CloseClient(c) PROVE CreditInv'
  <2>1. UNCHANGED <<divideq, workq, dbq, dropped, available, pc, hand>>
    BY <1>1 DEF Arrive, CloseClient, queueVars
  <2>2. QED
    BY <2>1, CreditsQuiet DEF AtHand
<1>2. ASSUME NEW d \in DivideWorkers, Divide(d) PROVE CreditInv'
  <2>1. Piped(CreditPlaces, DbKind)' = Piped(CreditPlaces, DbKind)
    BY <1>2, DivideKeepsPiped, CreditPlacesFit DEF MassInv
  <2>2. available' = available
    BY <1>2 DEF Divide, DividePop, LowWater, DivideWork, DivideThrows
  <2>3. QED
    BY <2>1, <2>2 DEF CreditInv
<1>3. ASSUME NEW b \in DbWorkers, Db(b) PROVE CreditInv'
  <2>1. Piped(CreditPlaces, DbKind)' = Piped(CreditPlaces, DbKind)
    BY <1>3, DbKeepsPiped, CreditPlacesFit, KindsAreWhole DEF MassInv
  <2>2. available' = available
    BY <1>3 DEF Db, DbPop, DbAnswers
  <2>3. QED
    BY <2>1, <2>2 DEF CreditInv
<1>4. CASE UNCHANGED vars
  <2>1. UNCHANGED <<divideq, workq, dbq, dropped, available, pc, hand>>
    BY <1>4 DEF vars, queueVars
  <2>2. QED
    BY <2>1, CreditsQuiet DEF AtHand
<1>5. QED
  BY <1>1, <1>2, <1>3, <1>4, ReactorKeepsCredits, DrainKeepsCredits, WorkKeepsCredits,
     ScriptAssumption DEF Next

(* Every credit is in the gate, or with exactly one message that needs the *)
(* database, wherever it is, or gone with one whose divide function threw. *)
THEOREM NoCreditIsLost == Spec => []CreditsConserved
<1>1. Init => CreditInv
  <2> SUFFICES ASSUME Init PROVE CreditInv
    OBVIOUS
  <2>1. AtHand(CreditPlaces, DbKind) = 0
    <3>1. {t \in Threads : pc[t] \in CreditPlaces /\ hand[t] \in DbKind} = {}
      BY DEF Init, CreditPlaces
    <3>2. QED
      BY <3>1, FS_EmptySet DEF AtHand
  <2>2. /\ InQueue(divideq, DbKind) = 0 /\ InQueue(workq, DbKind) = 0
        /\ InQueue(dbq, DbKind) = 0 /\ InQueue(dropped, DbKind) = 0
    BY NothingCounted DEF Init
  <2>3. available = CreditLimit /\ CreditLimit \in Nat
    BY SizeAssumption DEF Init
  <2>4. QED
    BY <2>1, <2>2, <2>3 DEF CreditInv, Piped
<1>2. TypeInv /\ MassInv /\ CreditInv => CreditsConserved
  <2> SUFFICES ASSUME TypeInv, MassInv, CreditInv PROVE CreditsConserved
    OBVIOUS
  <2>1. /\ Queued(divideq, NeedsDb) = InQueue(divideq, DbKind)
        /\ Queued(workq, NeedsDb) = InQueue(workq, DbKind)
        /\ Queued(dbq, NeedsDb) = InQueue(dbq, DbKind)
        /\ Queued(dropped, NeedsDb) = InQueue(dropped, DbKind)
    <3>1. /\ divideq \in Seq(Messages) /\ workq \in Seq(Messages)
          /\ dbq \in Seq(Messages) /\ dropped \in Seq(Messages)
      BY DEF TypeInv, QueueTypes, MassInv
    <3>2. \A q \in Seq(Messages) :
            InQueue(q, DbKind) = Cardinality({n \in DOMAIN q : q[n].class = "db"})
      BY SameCount
    <3>3. QED
      BY <3>1, <3>2 DEF Queued, NeedsDb
  <2>2. InHand(CreditPlaces, NeedsDb) = AtHand(CreditPlaces, DbKind)
    BY SameHands DEF TypeInv, InHand, NeedsDb
  <2>3. QED
    BY <2>1, <2>2, CreditNumbers DEF CreditInv, Piped, CreditsConserved, Tokens
<1>3. QED
  BY <1>1, <1>2, CreditStep, TypesHold, MassHolds, PTL DEF Spec
=============================================================================
