---------------------------- MODULE OrderedStream ----------------------------
(***************************************************************************)
(* What sending on a connection promises, and what logging does: an        *)
(* ordered stream.  What is put in while the stream is open comes out once *)
(* and in order; when the stream breaks, what has not come out by then     *)
(* never does, so that what came out is all that was put in up to some     *)
(* point.                                                                  *)
(***************************************************************************)
EXTENDS Naturals, Sequences

VARIABLES pipe,   \* put in and not out yet
          out,    \* what has come out
          open

svars == <<pipe, out, open>>

Init == pipe = << >> /\ out = << >> /\ open = TRUE

\* Data is put in behind the rest.
Put ==
  /\ open
  /\ Len(pipe') > Len(pipe) /\ SubSeq(pipe', 1, Len(pipe)) = pipe
  /\ UNCHANGED <<out, open>>

\* The first n units come out.
Move ==
  /\ open
  /\ \E n \in 1 .. Len(pipe) :
       /\ out' = out \o SubSeq(pipe, 1, n)
       /\ pipe' = SubSeq(pipe, n + 1, Len(pipe))
  /\ UNCHANGED open

\* The stream breaks; some or all of what it holds is thrown away.
Break ==
  /\ open /\ ~open'
  /\ \E n \in 0 .. Len(pipe) : pipe' = SubSeq(pipe, n + 1, Len(pipe))
  /\ UNCHANGED out

Next == Put \/ Move \/ Break

Spec == Init /\ [][Next]_svars

\* What is in an unbroken stream does come out.
Delivers == Spec /\ WF_svars(Move)
==============================================================================
