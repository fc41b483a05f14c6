---------------------- MODULE MCObservationAndFraming ----------------------
(* Small instances of Observation and of Framing, which share nothing: an  *)
(* execution is one of either, chosen at the start, while the variables of *)
(* the other keep one initial value.  Of Observation there are two kinds:  *)
(* for the log FewRequests at most, which may fail; for the metrics        *)
(* MaxRequests, of which none fails and logs a line.                       *)
EXTENDS Observation, Framing

CONSTANTS w1, w2, FewRequests

\* Two buckets: below 1 ms, and the rest.
TwoBounds == <<1000, 1000>>

\* Every message of at most two bytes, empty and all-digit ones included,
\* and a longest one that looks like two frames.
Short == UNION {[1 .. n -> Bytes] : n \in 0 .. 2} \union {<<0, 0, 1>>}

\* Every exchange of at most two of them.
ShortTalks == UNION {[1 .. n -> Short] : n \in 0 .. 2}

VARIABLE part   \* the one that is executed

NoFrames ==
  wire = << >> /\ read_buffer = << >> /\ taken = << >> /\ meant = << >> /\ connected = TRUE

PartsInit ==
  /\ Init
  /\ \/ part \in {"log", "metrics"} /\ NoFrames
     \/ part = "framing" /\ FrameInit

all == <<vars, frameVars, part>>

Observes(A) ==
  /\ A /\ UNCHANGED <<frameVars, part>>
  /\ \/ part = "log" /\ started' <= FewRequests
     \/ part = "metrics" /\ \A w \in Workers : pc'[w] # "module"

PartsNext ==
  \/ Observes(Next)
  \/ part = "framing" /\ FrameNext /\ UNCHANGED <<vars, part>>

PartsSpec ==
  /\ PartsInit /\ [][PartsNext]_all
  /\ WF_all(Observes(Snapshot)) /\ WF_all(Observes(Writer)) /\ WF_all(Observes(Stop))
=============================================================================
