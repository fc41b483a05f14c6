---------------------------- MODULE BoundedFifo ----------------------------
(***************************************************************************)
(* What bounded_task_queue promises to the pools that own one: a FIFO      *)
(* buffer of at most Capacity tasks.  A task is accepted only while the    *)
(* queue is open and has room; the oldest task is handed out, also after   *)
(* the queue has been closed; a closed queue stays closed.  No threads, no *)
(* condition variables, no watermarks.                                     *)
(***************************************************************************)
EXTENDS Naturals, Sequences

CONSTANTS Tasks,      \* what the queue carries
          Capacity    \* the most tasks it may hold

VARIABLES buffer, shut

Init == buffer = << >> /\ shut = FALSE

Accept(x) ==
  /\ ~shut
  /\ Len(buffer) < Capacity
  /\ buffer' = Append(buffer, x)
  /\ UNCHANGED shut

HandOut ==
  /\ buffer # << >>
  /\ buffer' = Tail(buffer)
  /\ UNCHANGED shut

Shut ==
  /\ shut' = TRUE
  /\ UNCHANGED buffer

Next == (\E x \in Tasks : Accept(x)) \/ HandOut \/ Shut

Spec == Init /\ [][Next]_<<buffer, shut>>
=============================================================================
