--------------------------- MODULE MCCoroutineDB ---------------------------
(* Small instances of CoroutineDB: two businesses. *)
EXTENDS CoroutineDB, TLC

CONSTANTS x, y, w1, w2, q1, q2

EachOne   == x :> 1 @@ y :> 1
MoreOfOne == x :> 2 @@ y :> 1

\* Bound: stop is called before the second business is handed over.
StopsEarly == stage' # "up" => y \notin started'

MCSpec == Init /\ [][Next /\ StopsEarly]_vars /\ Fairness
=============================================================================
