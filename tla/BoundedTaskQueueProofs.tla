---------------------- MODULE BoundedTaskQueueProofs ----------------------
(***************************************************************************)
(* For every set of threads and every capacity: the type invariant, the    *)
(* two "no lost wake-up" invariants, what close() leaves behind, and that  *)
(* the queue implements the bounded FIFO buffer.                           *)
(***************************************************************************)
EXTENDS BoundedTaskQueue, FiniteSetTheorems, TLAPS

---------------------------------------------------------------------------
(* Moving one thread, and what that does to the number of threads at a     *)
(* place.                                                                  *)

(* The threads at a place are a finite set.                                *)
LEMMA AtFinite ==
  ASSUME NEW p, NEW a
  PROVE  /\ IsFiniteSet(At(p, a))
         /\ Cardinality(At(p, a)) \in Nat
<1>1. At(p, a) \subseteq Threads
  BY DEF At
<1>2. QED
  BY <1>1, ThreadAssumption, FS_Subset, FS_CardinalityType

(* A thread that arrives at a place adds one to it.                        *)
LEMMA Arrive ==
  ASSUME NEW p \in [Threads -> PCs], NEW t \in Threads, NEW a \in PCs,
         p[t] # a
  PROVE  Cardinality(At([p EXCEPT ![t] = a], a)) = Cardinality(At(p, a)) + 1
<1>1. At([p EXCEPT ![t] = a], a) = At(p, a) \union {t}
  BY DEF At
<1>2. t \notin At(p, a)
  BY DEF At
<1>3. QED
  BY <1>1, <1>2, AtFinite, FS_AddElement

(* A thread that leaves a place takes one from it.                         *)
LEMMA Leave ==
  ASSUME NEW p \in [Threads -> PCs], NEW t \in Threads, NEW a \in PCs,
         NEW b \in PCs, p[t] = a, b # a
  PROVE  Cardinality(At([p EXCEPT ![t] = b], a)) = Cardinality(At(p, a)) - 1
<1>1. At([p EXCEPT ![t] = b], a) = At(p, a) \ {t}
  BY DEF At
<1>2. t \in At(p, a)
  BY DEF At
<1>3. QED
  BY <1>1, <1>2, AtFinite, FS_RemoveElement

(* notify_one: wakes exactly one thread if one sleeps, and moves no other. *)
LEMMA NotifyOneMoves ==
  ASSUME NEW p \in [Threads -> PCs], NEW asleep \in PCs, NEW awake \in PCs,
         asleep # awake, NEW q \in NotifyOne(p, asleep, awake)
  PROVE  /\ q \in [Threads -> PCs]
         /\ At(q, asleep) \subseteq At(p, asleep)
         /\ \A c : c \notin {asleep, awake} => At(q, c) = At(p, c)
         /\ At(p, asleep) # {} =>
              Cardinality(At(q, awake)) = Cardinality(At(p, awake)) + 1
         /\ Cardinality(At(q, awake)) >= Cardinality(At(p, awake))
<1>1. CASE At(p, asleep) = {}
  <2>1. q = p
    BY <1>1 DEF NotifyOne
  <2>2. QED
    BY <2>1, <1>1, AtFinite
<1>2. CASE At(p, asleep) # {}
  <2>1. PICK s \in At(p, asleep) : q = [p EXCEPT ![s] = awake]
    BY <1>2 DEF NotifyOne
  <2>2. s \in Threads /\ p[s] = asleep
    BY <2>1 DEF At
  <2>3. Cardinality(At(q, awake)) = Cardinality(At(p, awake)) + 1
    BY <2>1, <2>2, Arrive
  <2>4. /\ q \in [Threads -> PCs]
        /\ At(q, asleep) \subseteq At(p, asleep)
    BY <2>1, <2>2 DEF At
  <2>5. \A c : c \notin {asleep, awake} => At(q, c) = At(p, c)
    BY <2>1, <2>2 DEF At
  <2>6. QED
    BY <2>3, <2>4, <2>5, AtFinite
<1>3. QED
  BY <1>1, <1>2

(* notify_all: empties the wait set and moves no other thread.             *)
LEMMA NotifyAllMoves ==
  ASSUME NEW p \in [Threads -> PCs], NEW asleep \in PCs, NEW awake \in PCs,
         asleep # awake
  PROVE  /\ NotifyAll(p, asleep, awake) \in [Threads -> PCs]
         /\ At(NotifyAll(p, asleep, awake), asleep) = {}
         /\ \A c : c \notin {asleep, awake} =>
                     At(NotifyAll(p, asleep, awake), c) = At(p, c)
BY DEF NotifyAll, At
---------------------------------------------------------------------------
(* The type invariant is inductive: a push re-tests high_ under the mutex  *)
(* every time it wakes, so no interleaving overfills the queue.            *)
THEOREM TypeCorrect == Spec => []TypeOK
<1> USE ThreadAssumption, CapacityAssumption
<1>1. Init => TypeOK
  BY DEF Init, TypeOK, PCs
<1>2. TypeOK /\ [Next]_vars => TypeOK'
  <2> SUFFICES ASSUME TypeOK, [Next]_vars
               PROVE  TypeOK'
    OBVIOUS
  <2> USE DEF TypeOK
  <2>1. ASSUME NEW t \in Threads, NEW x \in Tasks, TryPush(t, x)
        PROVE  TypeOK'
    <3>1. PICK p \in NotifyOne(pc, "not_empty", "pop") :
            IF Len(queue') > Low /\ Len(queue') < High
            THEN pc' \in NotifyOne(p, "not_full", "push") ELSE pc' = p
      BY <2>1 DEF TryPush
    <3>2. p \in [Threads -> PCs]
      BY NotifyOneMoves DEF PCs
    <3>3. pc' \in [Threads -> PCs]
      BY <3>1, <3>2, NotifyOneMoves DEF PCs
    <3>4. queue' \in Seq(Tasks) /\ Len(queue') <= High
      BY <2>1 DEF TryPush
    <3>5. QED
      BY <2>1, <3>3, <3>4 DEF TryPush
  <2>2. ASSUME NEW t \in Threads, NEW x \in Tasks, PushBody(t, x)
        PROVE  /\ queue' \in Seq(Tasks) /\ Len(queue') <= High
               /\ pc' \in [Threads -> PCs]
    <3>1. CASE PushSleeps(t) \/ PushRefused(t)
      BY <3>1 DEF PushSleeps, PushRefused, PCs
    <3>2. CASE PushQueues(t, x)
      <4>1. PICK p \in NotifyOne([pc EXCEPT ![t] = "idle"], "not_empty", "pop") :
              pc' = IF Len(queue') <= Low
                    THEN NotifyAll(p, "not_full", "push") ELSE p
        BY <3>2 DEF PushQueues
      <4>2. p \in [Threads -> PCs]
        BY NotifyOneMoves DEF PCs
      <4>3. pc' \in [Threads -> PCs]
        BY <4>1, <4>2, NotifyAllMoves DEF PCs
      <4>4. QED
        BY <3>2, <4>3 DEF PushQueues
    <3>3. QED
      BY <2>2, <3>1, <3>2 DEF PushBody
  <2>3. ASSUME NEW t \in Threads, NEW x \in Tasks, Push(t, x)
        PROVE  TypeOK'
    BY <2>2, <2>3 DEF Push
  <2>4. ASSUME NEW t \in Threads, RePush(t)
        PROVE  TypeOK'
    BY <2>2, <2>4 DEF RePush
  <2>5. ASSUME NEW t \in Threads, Pop(t)
        PROVE  TypeOK'
    <3>1. CASE PopSleeps(t) \/ PopEnds(t)
      BY <2>5, <3>1 DEF Pop, PopSleeps, PopEnds, PCs
    <3>2. CASE PopTakes(t)
      <4>1. \A a \in PCs : [pc EXCEPT ![t] = a] \in [Threads -> PCs]
        OBVIOUS
      <4>2. pc' \in [Threads -> PCs]
        <5>1. CASE pc' = NotifyAll([pc EXCEPT ![t] = "callback"], "not_full", "push")
          BY <4>1, <5>1, NotifyAllMoves DEF PCs
        <5>2. CASE pc' \in NotifyOne([pc EXCEPT ![t] = "idle"], "not_full", "push")
          BY <4>1, <5>2, NotifyOneMoves DEF PCs
        <5>3. CASE pc' = [pc EXCEPT ![t] = "idle"]
          BY <4>1, <5>3 DEF PCs
        <5>4. QED
          BY <3>2, <5>1, <5>2, <5>3 DEF PopTakes
      <4>3. queue' \in Seq(Tasks) /\ Len(queue') <= High
        BY <3>2 DEF PopTakes
      <4>4. QED
        BY <2>5, <4>2, <4>3 DEF Pop
    <3>3. QED
      BY <2>5, <3>1, <3>2 DEF Pop
  <2>6. ASSUME NEW t \in Threads, Callback(t) \/ Spurious(t)
        PROVE  TypeOK'
    BY <2>6 DEF Callback, Spurious, PCs
  <2>7. CASE CloseFlag \/ CloseNotifyEmpty \/ CloseNotifyFull
    <3>1. pc' \in [Threads -> PCs]
      BY <2>7, NotifyAllMoves
      DEF CloseFlag, CloseNotifyEmpty, CloseNotifyFull, PCs
    <3>2. QED
      BY <2>7, <3>1 DEF CloseFlag, CloseNotifyEmpty, CloseNotifyFull
  <2>8. CASE UNCHANGED vars
    BY <2>8 DEF vars
  <2>9. QED
    BY <2>1, <2>3, <2>4, <2>5, <2>6, <2>7, <2>8 DEF Next
<1>3. QED
  BY <1>1, <1>2, PTL DEF Spec
---------------------------------------------------------------------------
(* No blocked push call is ever forgotten while the queue is open.         *)
THEOREM NoLostNotFull == Spec => []FreeSlotsCovered
<1> USE ThreadAssumption, CapacityAssumption
<1>1. Init => FreeSlotsCovered
  BY DEF Init, FreeSlotsCovered, At
<1>2. TypeOK /\ FreeSlotsCovered /\ [Next]_vars => FreeSlotsCovered'
  <2> SUFFICES ASSUME TypeOK, FreeSlotsCovered, [Next]_vars,
                      ~closed', At(pc', "not_full") # {}
               PROVE  High <= Len(queue') + Cardinality(At(pc', "push"))
    BY DEF FreeSlotsCovered, At
  <2> USE DEF TypeOK
  <2>0. /\ Cardinality(At(pc, "push")) \in Nat
        /\ Cardinality(At(pc', "push")) \in Nat
        /\ Len(queue) \in Nat
    BY AtFinite
  <2>1. ASSUME NEW t \in Threads, NEW x \in Tasks, TryPush(t, x)
        PROVE  High <= Len(queue') + Cardinality(At(pc', "push"))
    <3>1. PICK p \in NotifyOne(pc, "not_empty", "pop") :
            IF Len(queue') > Low /\ Len(queue') < High
            THEN pc' \in NotifyOne(p, "not_full", "push") ELSE pc' = p
      BY <2>1 DEF TryPush
    <3>2. /\ p \in [Threads -> PCs]
          /\ At(p, "push") = At(pc, "push")
          /\ At(p, "not_full") = At(pc, "not_full")
      BY NotifyOneMoves DEF PCs
    <3>3. /\ At(pc', "not_full") \subseteq At(pc, "not_full")
          /\ Cardinality(At(pc', "push")) >= Cardinality(At(pc, "push"))
      BY <3>1, <3>2, <2>0, NotifyOneMoves DEF PCs
    <3>4. Len(queue') = Len(queue) + 1 /\ ~closed
      BY <2>1 DEF TryPush
    <3>5. QED
      BY <3>3, <3>4, <2>0 DEF FreeSlotsCovered
  <2>2. ASSUME NEW t \in Threads, NEW x \in Tasks, PushBody(t, x),
               pc[t] \in {"idle", "push"}, UNCHANGED closer
        PROVE  High <= Len(queue') + Cardinality(At(pc', "push"))
    <3>1. CASE PushSleeps(t)
      BY <3>1, <2>0 DEF PushSleeps
    <3>2. CASE PushRefused(t)
      BY <2>2, <3>2 DEF PushRefused, closed
    <3>3. CASE PushQueues(t, x)
      <4> DEFINE q == [pc EXCEPT ![t] = "idle"]
      <4>1. PICK p \in NotifyOne(q, "not_empty", "pop") :
              pc' = IF Len(queue') <= Low
                    THEN NotifyAll(p, "not_full", "push") ELSE p
        BY <3>3 DEF PushQueues
      <4>a. q \in [Threads -> PCs]
        BY DEF PCs
      <4>b. At(q, "not_full") = At(pc, "not_full")
        BY <2>2 DEF At
      <4>c. Cardinality(At(q, "push")) + 1 >= Cardinality(At(pc, "push"))
        <5>1. CASE pc[t] = "idle"
          <6>1. At(q, "push") = At(pc, "push")
            BY <5>1 DEF At
          <6>2. QED
            BY <6>1, <2>0
        <5>2. CASE pc[t] = "push"
          <6>1. Cardinality(At(q, "push")) = Cardinality(At(pc, "push")) - 1
            BY <5>2, Leave DEF PCs
          <6>2. QED
            BY <6>1, <2>0
        <5>3. QED
          BY <5>1, <5>2, <2>2
      <4> HIDE DEF q
      <4>3. /\ p \in [Threads -> PCs]
            /\ At(p, "push") = At(q, "push")
            /\ At(p, "not_full") = At(q, "not_full")
        BY <4>a, NotifyOneMoves DEF PCs
      <4>4. pc' = p
        BY <4>1, <4>3, NotifyAllMoves DEF PCs
      <4>5. Len(queue') = Len(queue) + 1 /\ ~closed
        BY <3>3 DEF PushQueues
      <4>6. QED
        BY <4>b, <4>c, <4>3, <4>4, <4>5, <2>0, AtFinite DEF FreeSlotsCovered
    <3>4. QED
      BY <2>2, <3>1, <3>2, <3>3 DEF PushBody
  <2>3. ASSUME NEW t \in Threads, NEW x \in Tasks, Push(t, x)
        PROVE  High <= Len(queue') + Cardinality(At(pc', "push"))
    BY <2>2, <2>3 DEF Push
  <2>4. ASSUME NEW t \in Threads, RePush(t)
        PROVE  High <= Len(queue') + Cardinality(At(pc', "push"))
    BY <2>2, <2>4 DEF RePush
  <2>5. ASSUME NEW t \in Threads, Pop(t)
        PROVE  High <= Len(queue') + Cardinality(At(pc', "push"))
    <3>1. \A a \in PCs \ {"push", "not_full"} :
            /\ [pc EXCEPT ![t] = a] \in [Threads -> PCs]
            /\ At([pc EXCEPT ![t] = a], "push") = At(pc, "push")
            /\ At([pc EXCEPT ![t] = a], "not_full") = At(pc, "not_full")
      BY <2>5 DEF Pop, At
    <3>2. CASE PopSleeps(t) \/ PopEnds(t)
      <4>1. /\ At(pc', "push") = At(pc, "push")
            /\ At(pc', "not_full") = At(pc, "not_full")
        BY <3>1, <3>2 DEF PopSleeps, PopEnds, PCs
      <4>2. ~closed /\ queue' = queue
        BY <2>5, <3>2 DEF Pop, PopSleeps, PopEnds, closed
      <4>3. QED
        BY <4>1, <4>2 DEF FreeSlotsCovered
    <3>3. CASE PopTakes(t)
      <4>1. Len(queue') = Len(queue) - 1 /\ ~closed
        BY <2>5, <3>3 DEF Pop, PopTakes, closed
      <4>2. CASE pc' = NotifyAll([pc EXCEPT ![t] = "callback"], "not_full", "push")
        <5>1. [pc EXCEPT ![t] = "callback"] \in [Threads -> PCs]
          BY DEF PCs
        <5>2. At(pc', "not_full") = {}
          BY <4>2, <5>1, NotifyAllMoves DEF PCs
        <5>3. QED
          BY <5>2
      <4>3. CASE pc' \in NotifyOne([pc EXCEPT ![t] = "idle"], "not_full", "push")
        <5> DEFINE q == [pc EXCEPT ![t] = "idle"]
        <5>1. /\ q \in [Threads -> PCs]
              /\ At(q, "push") = At(pc, "push")
              /\ At(q, "not_full") = At(pc, "not_full")
          BY <3>1 DEF PCs
        <5>0. pc' \in NotifyOne(q, "not_full", "push")
          BY <4>3
        <5> HIDE DEF q
        <5>2. At(pc', "not_full") \subseteq At(q, "not_full")
          BY <5>0, <5>1, NotifyOneMoves DEF PCs
        <5>a. At(q, "not_full") # {}
          BY <5>2
        <5>b. Cardinality(At(pc', "push")) = Cardinality(At(q, "push")) + 1
          BY <5>0, <5>1, <5>a, NotifyOneMoves DEF PCs
        <5>3. QED
          <6>1. High <= Len(queue) + Cardinality(At(pc, "push"))
            BY <4>1, <5>1, <5>a DEF FreeSlotsCovered
          <6>2. QED
            BY <4>1, <5>1, <5>b, <6>1, <2>0
      <4>4. CASE pc' = [pc EXCEPT ![t] = "idle"] /\ ~(Len(queue') < High)
        BY <4>4, <4>1
      <4>5. QED
        BY <3>3, <4>2, <4>3, <4>4 DEF PopTakes
    <3>4. QED
      BY <2>5, <3>2, <3>3 DEF Pop
  <2>6. ASSUME NEW t \in Threads, Callback(t)
        PROVE  High <= Len(queue') + Cardinality(At(pc', "push"))
    <3>1. /\ At(pc', "push") = At(pc, "push")
          /\ At(pc', "not_full") = At(pc, "not_full")
      BY <2>6 DEF Callback, At
    <3>2. QED
      BY <2>6, <3>1 DEF Callback, FreeSlotsCovered, closed
  <2>7. ASSUME NEW t \in Threads, Spurious(t)
        PROVE  High <= Len(queue') + Cardinality(At(pc', "push"))
    <3>1. CASE pc[t] = "not_full"
      <4>1. At(pc, "not_full") # {}
        BY <3>1 DEF At
      <4>2. Cardinality(At(pc', "push")) = Cardinality(At(pc, "push")) + 1
        BY <2>7, <3>1, Arrive DEF Spurious, PCs
      <4>3. QED
        <5>1. queue' = queue /\ ~closed
          BY <2>7 DEF Spurious, closed
        <5>2. QED
          BY <4>1, <4>2, <5>1, <2>0 DEF FreeSlotsCovered
    <3>2. CASE pc[t] = "not_empty"
      <4>1. /\ At(pc', "push") = At(pc, "push")
            /\ At(pc', "not_full") = At(pc, "not_full")
        BY <2>7, <3>2 DEF Spurious, At
      <4>2. QED
        BY <2>7, <4>1 DEF Spurious, FreeSlotsCovered, closed
    <3>3. QED
      BY <2>7, <3>1, <3>2 DEF Spurious
  <2>8. CASE CloseFlag \/ CloseNotifyEmpty
    BY <2>8 DEF CloseFlag, CloseNotifyEmpty, closed
  <2>9. CASE CloseNotifyFull
    BY <2>9 DEF CloseNotifyFull, closed
  <2>10. CASE UNCHANGED vars
    BY <2>10 DEF vars, FreeSlotsCovered, closed, At
  <2>11. QED
    BY <2>1, <2>3, <2>4, <2>5, <2>6, <2>7, <2>8, <2>9, <2>10,
       ThreadAssumption DEF Next
<1>3. QED
  BY <1>1, <1>2, TypeCorrect, PTL DEF Spec

(* No worker sleeps on a task that nobody is coming for.                   *)
THEOREM NoLostNotEmpty == Spec => []QueuedTasksCovered
<1> USE ThreadAssumption, CapacityAssumption
<1> DEFINE Goal == Len(queue') <= Cardinality(At(pc', "pop"))
<1>1. Init => QueuedTasksCovered
  BY DEF Init, QueuedTasksCovered, At
<1>2. TypeOK /\ QueuedTasksCovered /\ [Next]_vars => QueuedTasksCovered'
  <2> SUFFICES ASSUME TypeOK, QueuedTasksCovered, [Next]_vars,
                      ~closed', At(pc', "not_empty") # {}
               PROVE  Goal
    BY DEF QueuedTasksCovered, At
  <2> USE DEF TypeOK
  <2>0. /\ Cardinality(At(pc, "pop")) \in Nat
        /\ Cardinality(At(pc', "pop")) \in Nat
        /\ Len(queue) \in Nat
    BY AtFinite
  <2>1. ASSUME NEW q \in [Threads -> PCs], NEW p \in NotifyOne(q, "not_empty", "pop"),
               At(q, "pop") = At(pc, "pop"), At(q, "not_empty") = At(pc, "not_empty"),
               At(pc', "pop") = At(p, "pop"), At(pc', "not_empty") = At(p, "not_empty"),
               Len(queue') = Len(queue) + 1, ~closed
        PROVE  Goal
    <3>1. At(q, "not_empty") # {}
      BY <2>1, NotifyOneMoves DEF PCs
    <3>2. Cardinality(At(p, "pop")) = Cardinality(At(q, "pop")) + 1
      BY <2>1, <3>1, NotifyOneMoves DEF PCs
    <3>3. Len(queue) <= Cardinality(At(pc, "pop"))
      BY <2>1, <3>1 DEF QueuedTasksCovered
    <3>4. QED
      BY <2>1, <3>2, <3>3, <2>0
  <2>2. ASSUME NEW t \in Threads, NEW x \in Tasks, TryPush(t, x)
        PROVE  Goal
    <3>1. PICK p \in NotifyOne(pc, "not_empty", "pop") :
            IF Len(queue') > Low /\ Len(queue') < High
            THEN pc' \in NotifyOne(p, "not_full", "push") ELSE pc' = p
      BY <2>2 DEF TryPush
    <3>2. p \in [Threads -> PCs]
      BY NotifyOneMoves DEF PCs
    <3>3. At(pc', "pop") = At(p, "pop") /\ At(pc', "not_empty") = At(p, "not_empty")
      BY <3>1, <3>2, NotifyOneMoves DEF PCs
    <3>4. Len(queue') = Len(queue) + 1 /\ ~closed
      BY <2>2 DEF TryPush
    <3>5. QED
      BY <2>1, <3>3, <3>4
  <2>3. ASSUME NEW t \in Threads, NEW x \in Tasks, PushBody(t, x),
               pc[t] \in {"idle", "push"}, UNCHANGED closer
        PROVE  Goal
    <3>1. CASE PushSleeps(t)
      <4>1. At(pc', "pop") = At(pc, "pop") /\ At(pc', "not_empty") = At(pc, "not_empty")
        BY <2>3, <3>1 DEF PushSleeps, At
      <4>2. QED
        BY <3>1, <4>1 DEF PushSleeps, QueuedTasksCovered
    <3>2. CASE PushRefused(t)
      BY <2>3, <3>2 DEF PushRefused, closed
    <3>3. CASE PushQueues(t, x)
      <4> DEFINE q == [pc EXCEPT ![t] = "idle"]
      <4>1. PICK p \in NotifyOne(q, "not_empty", "pop") :
              pc' = IF Len(queue') <= Low
                    THEN NotifyAll(p, "not_full", "push") ELSE p
        BY <3>3 DEF PushQueues
      <4>2. q \in [Threads -> PCs]
        BY DEF PCs
      <4>3. At(q, "pop") = At(pc, "pop") /\ At(q, "not_empty") = At(pc, "not_empty")
        BY <2>3 DEF At
      <4> HIDE DEF q
      <4>4. p \in [Threads -> PCs]
        BY <4>2, NotifyOneMoves DEF PCs
      <4>5. At(pc', "pop") = At(p, "pop") /\ At(pc', "not_empty") = At(p, "not_empty")
        BY <4>1, <4>4, NotifyAllMoves DEF PCs
      <4>6. Len(queue') = Len(queue) + 1 /\ ~closed
        BY <3>3 DEF PushQueues
      <4>7. QED
        BY <2>1, <4>2, <4>3, <4>5, <4>6
    <3>4. QED
      BY <2>3, <3>1, <3>2, <3>3 DEF PushBody
  <2>4. ASSUME NEW t \in Threads, NEW x \in Tasks, Push(t, x)
        PROVE  Goal
    BY <2>3, <2>4 DEF Push
  <2>5. ASSUME NEW t \in Threads, RePush(t)
        PROVE  Goal
    BY <2>3, <2>5 DEF RePush
  <2>6. ASSUME NEW t \in Threads, Pop(t)
        PROVE  Goal
    <3>1. CASE PopSleeps(t)
      BY <3>1, <2>0 DEF PopSleeps
    <3>2. CASE PopEnds(t)
      BY <2>6, <3>2 DEF Pop, PopEnds, closed
    <3>3. CASE PopTakes(t)
      <4>1. PICK a \in {"idle", "callback"} :
              LET q == [pc EXCEPT ![t] = a]
              IN  \/ pc' = q
                  \/ pc' = NotifyAll(q, "not_full", "push")
                  \/ pc' \in NotifyOne(q, "not_full", "push")
        BY <3>3 DEF PopTakes
      <4> DEFINE q == [pc EXCEPT ![t] = a]
      <4>2. q \in [Threads -> PCs]
        BY DEF PCs
      <4>3. At(q, "not_empty") = At(pc, "not_empty")
        BY <2>6 DEF Pop, At
      <4>4. Cardinality(At(q, "pop")) + 1 >= Cardinality(At(pc, "pop"))
        <5>1. CASE pc[t] = "idle"
          <6>1. At(q, "pop") = At(pc, "pop")
            BY <5>1 DEF At
          <6>2. QED
            BY <6>1, <2>0
        <5>2. CASE pc[t] = "pop"
          <6>1. a \in PCs /\ a # "pop"
            BY DEF PCs
          <6>2. Cardinality(At(q, "pop")) = Cardinality(At(pc, "pop")) - 1
            BY <5>2, <6>1, Leave DEF PCs
          <6>3. QED
            BY <6>2, <2>0
        <5>3. QED
          BY <2>6, <5>1, <5>2 DEF Pop
      <4>5. \/ pc' = q
            \/ pc' = NotifyAll(q, "not_full", "push")
            \/ pc' \in NotifyOne(q, "not_full", "push")
        BY <4>1
      <4>6. Len(queue') = Len(queue) - 1 /\ ~closed
        BY <2>6, <3>3 DEF Pop, PopTakes, closed
      <4> HIDE DEF q
      <4>7. At(pc', "pop") = At(q, "pop") /\ At(pc', "not_empty") = At(q, "not_empty")
        BY <4>2, <4>5, NotifyAllMoves, NotifyOneMoves DEF PCs
      <4>8. Len(queue) <= Cardinality(At(pc, "pop"))
        BY <4>3, <4>6, <4>7 DEF QueuedTasksCovered
      <4>9. QED
        BY <4>4, <4>6, <4>7, <4>8, <2>0
    <3>4. QED
      BY <2>6, <3>1, <3>2, <3>3 DEF Pop
  <2>7. ASSUME NEW t \in Threads, Callback(t)
        PROVE  Goal
    <3>1. At(pc', "pop") = At(pc, "pop") /\ At(pc', "not_empty") = At(pc, "not_empty")
      BY <2>7 DEF Callback, At
    <3>2. QED
      BY <2>7, <3>1 DEF Callback, QueuedTasksCovered, closed
  <2>8. ASSUME NEW t \in Threads, Spurious(t)
        PROVE  Goal
    <3>1. CASE pc[t] = "not_empty"
      <4>1. Cardinality(At(pc', "pop")) = Cardinality(At(pc, "pop")) + 1
        BY <2>8, <3>1, Arrive DEF Spurious, PCs
      <4>2. At(pc, "not_empty") # {}
        BY <3>1 DEF At
      <4>3. queue' = queue /\ ~closed
        BY <2>8 DEF Spurious, closed
      <4>4. QED
        BY <4>1, <4>2, <4>3, <2>0 DEF QueuedTasksCovered
    <3>2. CASE pc[t] = "not_full"
      <4>1. At(pc', "pop") = At(pc, "pop") /\ At(pc', "not_empty") = At(pc, "not_empty")
        BY <2>8, <3>2 DEF Spurious, At
      <4>2. QED
        BY <2>8, <4>1 DEF Spurious, QueuedTasksCovered, closed
    <3>3. QED
      BY <2>8, <3>1, <3>2 DEF Spurious
  <2>9. CASE CloseFlag \/ CloseNotifyEmpty \/ CloseNotifyFull
    BY <2>9 DEF CloseFlag, CloseNotifyEmpty, CloseNotifyFull, closed
  <2>10. CASE UNCHANGED vars
    BY <2>10 DEF vars, QueuedTasksCovered, closed, At
  <2>11. QED
    BY <2>2, <2>4, <2>5, <2>6, <2>7, <2>8, <2>9, <2>10,
       ThreadAssumption DEF Next
<1>3. QED
  BY <1>1, <1>2, TypeCorrect, PTL DEF Spec

---------------------------------------------------------------------------
(* Nobody goes to sleep on a queue whose closed_ is set.                   *)
LEMMA ClosedPutsNobodyToSleep ==
  ASSUME TypeOK, closed, Next, NEW a \in {"not_full", "not_empty"}
  PROVE  At(pc', a) \subseteq At(pc, a)
<1> USE ThreadAssumption DEF TypeOK
<1>1. ASSUME NEW t \in Threads, NEW x \in Tasks, PushBody(t, x)
      PROVE  At(pc', a) \subseteq At(pc, a)
  BY <1>1 DEF PushBody, PushSleeps, PushRefused, PushQueues, At
<1>2. ASSUME NEW t \in Threads, Pop(t)
      PROVE  At(pc', a) \subseteq At(pc, a)
  <2>1. CASE PopEnds(t)
    BY <2>1 DEF PopEnds, At
  <2>2. CASE PopTakes(t)
    <3>1. PICK b \in {"idle", "callback"} :
            LET q == [pc EXCEPT ![t] = b]
            IN  \/ pc' = q
                \/ pc' = NotifyAll(q, "not_full", "push")
                \/ pc' \in NotifyOne(q, "not_full", "push")
      BY <2>2 DEF PopTakes
    <3> DEFINE q == [pc EXCEPT ![t] = b]
    <3>2. q \in [Threads -> PCs] /\ At(q, a) \subseteq At(pc, a)
      BY DEF PCs, At
    <3>3. \/ pc' = q
          \/ pc' = NotifyAll(q, "not_full", "push")
          \/ pc' \in NotifyOne(q, "not_full", "push")
      BY <3>1
    <3> HIDE DEF q
    <3>4. At(pc', a) \subseteq At(q, a)
      BY <3>2, <3>3, NotifyAllMoves, NotifyOneMoves DEF PCs
    <3>5. QED
      BY <3>2, <3>4
  <2>3. QED
    BY <1>2, <2>1, <2>2 DEF Pop, PopSleeps
<1>3. CASE \E t \in Threads : Callback(t) \/ Spurious(t)
  BY <1>3 DEF Callback, Spurious, At
<1>4. CASE CloseFlag \/ CloseNotifyEmpty \/ CloseNotifyFull
  BY <1>4 DEF CloseFlag, CloseNotifyEmpty, CloseNotifyFull, NotifyAll, At
<1>5. QED
  BY <1>1, <1>2, <1>3, <1>4 DEF Next, TryPush, Push, RePush

(* close() reaches every sleeper.                                          *)
THEOREM CloseReachesEverySleeper == Spec => []NobodySleepsAfterClose
<1>1. Init => NobodySleepsAfterClose
  BY DEF Init, NobodySleepsAfterClose
<1>2. TypeOK /\ NobodySleepsAfterClose /\ [Next]_vars
        => NobodySleepsAfterClose'
  <2> SUFFICES ASSUME TypeOK, NobodySleepsAfterClose, [Next]_vars
               PROVE  NobodySleepsAfterClose'
    OBVIOUS
  <2> USE DEF NobodySleepsAfterClose
  <2>1. CASE CloseFlag
    BY <2>1 DEF CloseFlag
  <2>2. CASE CloseNotifyEmpty
    <3>1. At(pc', "not_empty") = {}
      BY <2>2, NotifyAllMoves DEF CloseNotifyEmpty, TypeOK, PCs
    <3>2. QED
      BY <2>2, <3>1 DEF CloseNotifyEmpty
  <2>3. CASE CloseNotifyFull
    <3>1. At(pc', "not_full") = {} /\ At(pc', "not_empty") = At(pc, "not_empty")
      BY <2>3, NotifyAllMoves DEF CloseNotifyFull, TypeOK, PCs
    <3>2. QED
      BY <2>3, <3>1 DEF CloseNotifyFull
  <2>4. CASE Next /\ UNCHANGED closer
    <3>1. CASE closer \in {"notify_not_full", "done"}
      BY <2>4, <3>1, ClosedPutsNobodyToSleep DEF closed
    <3>2. CASE closer \notin {"notify_not_full", "done"}
      BY <2>4, <3>2
    <3>3. QED
      BY <3>1, <3>2
  <2>5. CASE UNCHANGED vars
    BY <2>5 DEF vars, At
  <2>6. QED
    BY <2>1, <2>2, <2>3, <2>4, <2>5
    DEF Next, TryPush, Push, RePush, Pop, Callback, Spurious
<1>3. QED
  BY <1>1, <1>2, TypeCorrect, PTL DEF Spec

---------------------------------------------------------------------------
(* bounded_task_queue implements BoundedFifo: push and try_push that       *)
(* return Ok are Accept, a pop that returns true is HandOut, setting       *)
(* closed_ is Shut, everything else is invisible.                          *)
THEOREM ImplementsBoundedFifo == Spec => IsBoundedFifo
<1> USE ThreadAssumption, CapacityAssumption
<1>1. Init => Fifo!Init
  BY DEF Init, Fifo!Init, closed
<1>2. TypeOK /\ [Next]_vars => [Fifo!Next]_<<queue, closed>>
  <2> SUFFICES ASSUME TypeOK, [Next]_vars
               PROVE  Fifo!Next \/ UNCHANGED <<queue, closed>>
    OBVIOUS
  <2>1. ASSUME NEW t \in Threads, NEW x \in Tasks, TryPush(t, x)
        PROVE  Fifo!Accept(x)
    BY <2>1 DEF TryPush, Fifo!Accept, closed
  <2>2. ASSUME NEW t \in Threads, NEW x \in Tasks, PushBody(t, x),
               UNCHANGED closer
        PROVE  Fifo!Accept(x) \/ UNCHANGED <<queue, closed>>
    BY <2>2
    DEF PushBody, PushSleeps, PushRefused, PushQueues, Fifo!Accept, closed
  <2>3. ASSUME NEW t \in Threads, Pop(t)
        PROVE  Fifo!HandOut \/ UNCHANGED <<queue, closed>>
    BY <2>3 DEF Pop, PopSleeps, PopEnds, PopTakes, Fifo!HandOut, closed
  <2>4. ASSUME NEW t \in Threads, Callback(t) \/ Spurious(t)
        PROVE  UNCHANGED <<queue, closed>>
    BY <2>4 DEF Callback, Spurious, closed
  <2>5. ASSUME CloseFlag \/ CloseNotifyEmpty \/ CloseNotifyFull
        PROVE  Fifo!Shut \/ UNCHANGED <<queue, closed>>
    BY <2>5
    DEF CloseFlag, CloseNotifyEmpty, CloseNotifyFull, Fifo!Shut, closed
  <2>6. \A t \in Threads : hand[t] \in Tasks
    BY DEF TypeOK
  <2>7. CASE UNCHANGED vars
    BY <2>7 DEF vars, closed
  <2>8. QED
    BY <2>1, <2>2, <2>3, <2>4, <2>5, <2>6, <2>7
    DEF Next, Push, RePush, Fifo!Next
<1>3. QED
  BY <1>1, <1>2, TypeCorrect, PTL DEF Spec, IsBoundedFifo, Fifo!Spec
=============================================================================
