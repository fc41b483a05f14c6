------------------------ MODULE MCBoundedTaskQueue ------------------------
(* A small instance of BoundedTaskQueue, with enough waiters on both sides *)
(* for a notify to leave some of them asleep.  w is a worker that also     *)
(* pushes, as the work pool's workers do.                                  *)
EXTENDS BoundedTaskQueue

CONSTANTS p1, p2, c1, w, x, y

MCPushers == {p1, p2, w}
MCPoppers == {c1, w}
MCThreads == MCPushers \union MCPoppers
=============================================================================
