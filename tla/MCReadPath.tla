---------------------------- MODULE MCReadPath ----------------------------
(* Small instances of ReadPath: scripts of the clients and sets of workers. *)
EXTENDS ReadPath, TLC

CONSTANTS a, b, d1, w1, q1

Fast   == [class |-> "fast", queries |-> 0]
Query  == [class |-> "db", queries |-> 1]

\* Two clients that compete for DB credits, the first with a fast request
\* behind its query, which has to wait for the window.
MixedScript == (a :> <<Query, Fast>>) @@ (b :> <<Query>>)
=============================================================================
