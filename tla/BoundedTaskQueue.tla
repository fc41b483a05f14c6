------------------------- MODULE BoundedTaskQueue -------------------------
(***************************************************************************)
(* bounded_task_queue.h: the queue in front of the divide, work and DB     *)
(* pools.  One mutex, two condition variables, a high and a low watermark. *)
(*                                                                         *)
(* Everything a thread does while it holds mutex_ is one step.  A thread   *)
(* blocked in a condition variable is "not_full" or "not_empty"; once      *)
(* notified (or woken spuriously) it is "push" or "pop" until it gets the  *)
(* mutex again and re-tests its predicate.  The same thread may both push  *)
(* and pop: the work pool's workers do.  full_count_, a statistic nothing  *)
(* branches on, is left out.                                               *)
(***************************************************************************)
EXTENDS Naturals, Sequences, FiniteSets

CONSTANTS Threads,   \* every thread that touches the queue
          Pushers,   \* those that call push or try_push
          Poppers,   \* the workers: those that loop on pop
          Tasks,     \* what is queued
          High       \* high_, the capacity given to the constructor

ASSUME ThreadAssumption ==
  /\ IsFiniteSet(Threads)
  /\ Pushers \subseteq Threads
  /\ Poppers \subseteq Threads

ASSUME CapacityAssumption == High \in Nat \ {0}

VARIABLES queue,    \* queue_
          hand,     \* the argument of a thread's blocked push
          pc,       \* where each thread is
          closer    \* progress of close(): closed_ is set, then two notify_all

vars == <<queue, hand, pc, closer>>

\* low_ as the constructor computes it.
Low == IF High > 1 THEN High \div 2 ELSE 1

\* Where a thread can be.
PCs == {"idle", "push", "not_full", "pop", "not_empty", "callback", "exited"}

\* closed_
closed == closer # "open"

Init ==
  /\ queue = << >>
  /\ hand \in [Threads -> Tasks]
  /\ pc = [t \in Threads |-> "idle"]
  /\ closer = "open"

---------------------------------------------------------------------------
At(p, state) == {t \in Threads : p[t] = state}

(* notify_one wakes one thread of the wait set, if there is one;           *)
(* notify_all wakes them all.                                              *)
NotifyOne(p, asleep, awake) ==
  IF At(p, asleep) = {} THEN {p}
  ELSE {[p EXCEPT ![s] = awake] : s \in At(p, asleep)}

NotifyAll(p, asleep, awake) ==
  [t \in Threads |-> IF p[t] = asleep THEN awake ELSE p[t]]

(* Slip: the worker is notified only when the queue was empty before.      *)
TryPush_NotifiesOnce(t, x) ==
  /\ pc[t] = "idle"
  /\ ~closed
  /\ Len(queue) < High
  /\ queue' = Append(queue, x)
  /\ pc' \in IF queue = << >> THEN NotifyOne(pc, "not_empty", "pop") ELSE {pc}
  /\ UNCHANGED <<hand, closer>>

(* try_push: one critical section, never blocks.                           *)
TryPush(t, x) ==
  /\ pc[t] = "idle"
  /\ ~closed
  /\ Len(queue) < High
  /\ queue' = Append(queue, x)
  /\ \E p \in NotifyOne(pc, "not_empty", "pop") :
       IF Len(queue') > Low /\ Len(queue') < High
       THEN pc' \in NotifyOne(p, "not_full", "push")
       ELSE pc' = p
  /\ UNCHANGED <<hand, closer>>

(* The body of push, run when it is called and again after each wake-up:   *)
(* its three outcomes are to sleep, to return Closed, to queue the task.   *)
PushSleeps(t) ==
  /\ ~closed
  /\ Len(queue) >= High
  /\ pc' = [pc EXCEPT ![t] = "not_full"]
  /\ UNCHANGED queue

PushRefused(t) ==
  /\ closed
  /\ pc' = [pc EXCEPT ![t] = "idle"]
  /\ UNCHANGED queue

\* Slip: closed_ is not re-tested after the wait.
PushQueues_NoCloseTest(t, x) ==
  /\ Len(queue) < High
  /\ queue' = Append(queue, x)
  /\ pc' = NotifyAll([pc EXCEPT ![t] = "idle"], "not_empty", "pop")

PushQueues(t, x) ==
  /\ ~closed
  /\ Len(queue) < High
  /\ queue' = Append(queue, x)
  /\ \E p \in NotifyOne([pc EXCEPT ![t] = "idle"], "not_empty", "pop") :
       pc' = IF Len(queue') <= Low THEN NotifyAll(p, "not_full", "push") ELSE p

PushBody(t, x) == PushSleeps(t) \/ PushRefused(t) \/ PushQueues(t, x)

Push(t, x) ==
  /\ pc[t] = "idle"
  /\ hand' = [hand EXCEPT ![t] = x]
  /\ PushBody(t, x)
  /\ UNCHANGED closer

RePush(t) ==
  /\ pc[t] = "push"
  /\ PushBody(t, hand[t])
  /\ UNCHANGED <<hand, closer>>

(* pop: sleeps on an empty open queue, ends the worker on an empty closed  *)
(* one, else takes the oldest task - closed or not - and, at low water,    *)
(* goes on to the low-water callback with the mutex released.              *)
PopSleeps(t) ==
  /\ ~closed
  /\ queue = << >>
  /\ pc' = [pc EXCEPT ![t] = "not_empty"]
  /\ UNCHANGED queue

\* Slip: a closed queue ends its workers at once.
PopEnds_LeavesTasks(t) ==
  /\ closed
  /\ pc' = [pc EXCEPT ![t] = "exited"]
  /\ UNCHANGED queue

PopEnds(t) ==
  /\ closed
  /\ queue = << >>
  /\ pc' = [pc EXCEPT ![t] = "exited"]
  /\ UNCHANGED queue

\* Slip: pushers are woken at low water only.
PopTakes_LowWaterOnly(t) ==
  /\ queue # << >>
  /\ queue' = Tail(queue)
  /\ pc' = IF Len(queue') <= Low
            THEN NotifyAll([pc EXCEPT ![t] = "callback"], "not_full", "push")
            ELSE [pc EXCEPT ![t] = "idle"]

PopTakes(t) ==
  /\ queue # << >>
  /\ queue' = Tail(queue)
  /\ IF Len(queue') <= Low
     THEN pc' = NotifyAll([pc EXCEPT ![t] = "callback"], "not_full", "push")
     ELSE IF Len(queue') < High
          THEN pc' \in NotifyOne([pc EXCEPT ![t] = "idle"], "not_full", "push")
          ELSE pc' = [pc EXCEPT ![t] = "idle"]

Pop(t) ==
  /\ pc[t] \in {"idle", "pop"}
  /\ PopSleeps(t) \/ PopEnds(t) \/ PopTakes(t)
  /\ UNCHANGED <<hand, closer>>

(* The low-water callback returns; the worker goes to run its task.        *)
Callback(t) ==
  /\ pc[t] = "callback"
  /\ pc' = [pc EXCEPT ![t] = "idle"]
  /\ UNCHANGED <<queue, hand, closer>>

(* close(): closed_ under the mutex, then the two notify_all without it.   *)
(* shutdown() and the destructor both call it.                             *)
CloseFlag ==
  /\ closer \in {"open", "done"}
  /\ closer' = "notify_not_empty"
  /\ UNCHANGED <<queue, hand, pc>>

CloseNotifyEmpty ==
  /\ closer = "notify_not_empty"
  /\ closer' = "notify_not_full"
  /\ pc' = NotifyAll(pc, "not_empty", "pop")
  /\ UNCHANGED <<queue, hand>>

\* Slip: the second notify_all is a notify_one.
CloseNotifyFull_One ==
  /\ closer = "notify_not_full"
  /\ closer' = "done"
  /\ pc' \in NotifyOne(pc, "not_full", "push")
  /\ UNCHANGED <<queue, hand>>

CloseNotifyFull ==
  /\ closer = "notify_not_full"
  /\ closer' = "done"
  /\ pc' = NotifyAll(pc, "not_full", "push")
  /\ UNCHANGED <<queue, hand>>

(* A condition variable may wake a waiter that nobody notified.            *)
Spurious(t) ==
  /\ pc' = [pc EXCEPT ![t] = IF @ = "not_full" THEN "push" ELSE "pop"]
  /\ pc[t] \in {"not_full", "not_empty"}
  /\ UNCHANGED <<queue, hand, closer>>

Next ==
  \/ \E t \in Pushers, x \in Tasks : TryPush(t, x) \/ Push(t, x)
  \/ \E t \in Pushers : RePush(t)
  \/ \E t \in Poppers : Pop(t) \/ Callback(t)
  \/ \E t \in Threads : Spurious(t)
  \/ CloseFlag \/ CloseNotifyEmpty \/ CloseNotifyFull

Spec == Init /\ [][Next]_vars

(* A thread that holds, or is entitled to, the mutex is scheduled.  Nobody *)
(* is obliged to push, to close, or to wake up without a reason.           *)
Fairness ==
  /\ \A t \in Pushers : WF_vars(RePush(t))
  /\ \A t \in Poppers : WF_vars(Pop(t)) /\ WF_vars(Callback(t))
  /\ WF_vars(CloseNotifyEmpty) /\ WF_vars(CloseNotifyFull)

FairSpec == Spec /\ Fairness

---------------------------------------------------------------------------
(* Type invariant, with the bound the constructor asked for: no sequence   *)
(* of push, try_push and pop ever holds more than high_ tasks.             *)
TypeOK ==
  /\ queue \in Seq(Tasks)
  /\ Len(queue) <= High
  /\ hand \in [Threads -> Tasks]
  /\ pc \in [Threads -> PCs]
  /\ closer \in {"open", "notify_not_empty", "notify_not_full", "done"}

(* No lost wake-up for blocked push calls: on an open queue, while a       *)
(* thread still sleeps on not_full_, every free slot is matched by a       *)
(* pusher already notified and on its way to the mutex.  The three notify  *)
(* rules (one above low water, all at low water, one after try_push) are   *)
(* right exactly when this holds.                                          *)
FreeSlotsCovered ==
  ~closed /\ At(pc, "not_full") # {}
    => High <= Len(queue) + Cardinality(At(pc, "push"))

(* No lost wake-up for workers: on an open queue, while a worker still     *)
(* sleeps on not_empty_, every queued task is matched by a worker already  *)
(* notified.                                                               *)
QueuedTasksCovered ==
  ~closed /\ At(pc, "not_empty") # {}
    => Len(queue) <= Cardinality(At(pc, "pop"))

(* close() leaves nobody behind: closed_ is tested by both predicates and  *)
(* set under the mutex, so a thread that was about to sleep either sees it *)
(* or is caught by the notify_all that follows.                            *)
NobodySleepsAfterClose ==
  /\ closer = "notify_not_full" => At(pc, "not_empty") = {}
  /\ closer = "done" => At(pc, "not_full") \union At(pc, "not_empty") = {}

(* The workers of a closed pool can be joined: once closed_ is set the     *)
(* queued tasks are still taken and every worker's loop returns.           *)
ClosedQueueIsDrained ==
  closed ~> (queue = << >> /\ \A t \in Poppers : pc[t] = "exited")

(* src/README.md:463 says of close() that the tasks left in the queue are  *)
(* not executed any more: none would leave it.  pop takes from a closed    *)
(* queue as long as there is something (bounded_task_queue.h:68), so this  *)
(* is violated.                                                            *)
ClosedQueueKeepsItsTasks == [][closed => UNCHANGED queue]_vars

(* The queue, seen from outside, is the bounded FIFO buffer.               *)
Fifo == INSTANCE BoundedFifo
          WITH buffer <- queue, shut <- closed, Capacity <- High
IsBoundedFifo == Fifo!Spec
=============================================================================
