------------------------------- MODULE Framing -------------------------------
(***************************************************************************)
(* Messages on the wire (Reactor.cpp): a header of Width digits, the       *)
(* length, then that many bytes.  The kernel hands the bytes over in       *)
(* pieces of any size; handle_read takes one message at a time out of      *)
(* read_buffer and puts it back, header and all, when the window or the    *)
(* divide queue has no room (ReadPath models why and for how long).        *)
(*                                                                         *)
(* A byte is a digit 0 .. Base - 1, or Base, which stands for every byte   *)
(* that is none.  Bytes between messages that cannot start a header are    *)
(* skipped.  (FrameInit, FrameNext, FrameSpec: ObservationAndFramingProofs *)
(* also extends Observation, which has an Init, a Next and a Spec.)        *)
(***************************************************************************)
EXTENDS Integers, Sequences, SequencesExt

CONSTANTS Base, Width,   \* 10 and 4
          MaxFrame,      \* max_frame_bytes
          MaxBuffer,     \* max_read_buffer_bytes
          Chunk,         \* bytes one read() returns at most, 1024
          MaxStream,     \* longest stream of arbitrary bytes that a client sends
          Talks          \* sequences of messages that clients frame and send

Bytes == 0 .. Base

ASSUME SizeAssumption ==
  /\ Base \in Nat \ {0, 1} /\ Width \in Nat \ {0} /\ Chunk \in Nat \ {0} /\ MaxStream \in Nat
  /\ MaxFrame \in Nat /\ MaxBuffer \in Nat
  /\ MaxBuffer >= Width + MaxFrame + Chunk
  /\ Talks \subseteq Seq(Seq(Bytes))

VARIABLES wire,        \* sent, and not read yet
          read_buffer,
          taken,       \* the messages on_message has consumed, in order
          connected,
          meant        \* history: the messages the client's bytes stand for

frameVars == <<wire, read_buffer, taken, connected, meant>>

---------------------------------------------------------------------------
(* The framing functions.                                                  *)
\* What the first n digits say, for every n; and what all of them say.
Values(digits) ==
  LET v[n \in 0 .. Len(digits)] == IF n = 0 THEN 0 ELSE v[n - 1] * Base + digits[n]
  IN v
Value(digits) == Values(digits)[Len(digits)]

\* len without its last n digits, and the last n digits themselves.
Quotients(len) ==
  LET q[n \in 0 .. Width + len] == IF n = 0 THEN len ELSE q[n - 1] \div Base
  IN q
Digits(len, n) == [k \in 1 .. n |-> Quotients(len)[n - k] % Base]
\* As few digits as possible, but Width at least: a longer message than Width
\* digits can say gets a longer header.
Header(len) ==
  Digits(len, CHOOSE n \in Width .. Width + len :
                /\ Quotients(len)[n] = 0
                /\ n > Width => Quotients(len)[n - 1] # 0)
send_preview(msg) == Header(Len(msg)) \o msg

(* max_frame_bytes is 9999, the most that four digits say; and no message  *)
(* that is framed is longer than its four digits say.                      *)
ASSUME FrameAssumption ==
  /\ \A digits \in [1 .. Width -> 0 .. Base - 1] : Value(digits) <= MaxFrame
  /\ \A talk \in Talks : \A k \in DOMAIN talk : Quotients(Len(talk[k]))[Width] = 0

\* The Width bytes behind the first pos are a header.
HeaderAt(s, pos) == pos + Width <= Len(s) /\ \A k \in pos + 1 .. pos + Width : s[k] < Base
LengthAt(s, pos) == Value(SubSeq(s, pos + 1, pos + Width))
CompleteAt(s, pos) == pos + Width + LengthAt(s, pos) <= Len(s)
MessageAt(s, pos) == SubSeq(s, pos + Width + 1, pos + Width + LengthAt(s, pos))
From(s, pos) == SubSeq(s, pos + 1, Len(s))

\* Where scanning s from pos stops: at a header, or short of Width bytes.
ScanFrom(s, pos) ==
  CHOOSE p \in pos .. Len(s) :
    /\ HeaderAt(s, p) \/ p + Width > Len(s)
    /\ \A q \in pos .. p - 1 : ~HeaderAt(s, q) /\ q + Width <= Len(s)

(* spilit_message: all complete messages of s in order, and what is left - *)
(* here from every position, since its loop does the same at each.         *)
Splits(s) ==
  LET split[pos \in 0 .. Len(s)] ==
        LET p == ScanFrom(s, pos)
        IN IF HeaderAt(s, p) /\ CompleteAt(s, p)
             THEN LET more == split[p + Width + LengthAt(s, p)]
                  IN [messages |-> <<MessageAt(s, p)>> \o more.messages, rest |-> more.rest]
             ELSE [messages |-> << >>, rest |-> From(s, p)]
  IN split
spilit_message(s) == Splits(s)[0]

\* Slip: bytes that are no header stay in the buffer when nothing follows them.
take_one_message_Hoards(buffer) ==
  LET pos == ScanFrom(buffer, 0)
      after == pos + Width + LengthAt(buffer, pos)
  IN CASE ~HeaderAt(buffer, pos) -> [out |-> << >>, buffer |-> buffer]
       [] HeaderAt(buffer, pos) /\ LengthAt(buffer, pos) > MaxFrame ->
            [out |-> << >>, buffer |-> From(buffer, pos + 1)]
       [] HeaderAt(buffer, pos) /\ LengthAt(buffer, pos) <= MaxFrame ->
            IF CompleteAt(buffer, pos)
              THEN [out |-> <<MessageAt(buffer, pos)>>, buffer |-> From(buffer, after)]
              ELSE [out |-> << >>, buffer |-> From(buffer, pos)]

(* take_one_message: the first complete message, if there is one, and the  *)
(* buffer it leaves.                                                       *)
take_one_message(buffer) ==
  LET pos == ScanFrom(buffer, 0)
      after == pos + Width + LengthAt(buffer, pos)
  IN CASE ~HeaderAt(buffer, pos) -> [out |-> << >>, buffer |-> From(buffer, pos)]
       [] HeaderAt(buffer, pos) /\ LengthAt(buffer, pos) > MaxFrame ->
            [out |-> << >>, buffer |-> From(buffer, pos + 1)]
       [] HeaderAt(buffer, pos) /\ LengthAt(buffer, pos) <= MaxFrame ->
            IF CompleteAt(buffer, pos)
              THEN [out |-> <<MessageAt(buffer, pos)>>, buffer |-> From(buffer, after)]
              ELSE [out |-> << >>, buffer |-> From(buffer, pos)]

---------------------------------------------------------------------------
(* The connection.  A client either frames messages as send_preview does   *)
(* or sends any bytes; then its messages are the ones spilit_message finds *)
(* in the whole of them.                                                   *)
FrameInit ==
  /\ \/ \E talk \in Talks : /\ wire = FlattenSeq([k \in DOMAIN talk |-> send_preview(talk[k])])
                            /\ meant = talk
     \/ \E n \in 0 .. MaxStream : /\ wire \in [1 .. n -> Bytes]
                                  /\ meant = spilit_message(wire).messages
  /\ read_buffer = << >> /\ taken = << >> /\ connected = TRUE

(* handle_read, one turn of its loop: no message in the buffer, so read()  *)
(* - the client's end of stream, or the next bytes, which may be too many. *)
Reads ==
  LET t == take_one_message(read_buffer)
  IN /\ connected /\ t.out = << >>
     /\ \/ /\ wire = << >> /\ connected' = FALSE /\ read_buffer' = t.buffer
           /\ UNCHANGED wire
        \/ \E n \in 1 .. Chunk :
             /\ n <= Len(wire)
             /\ read_buffer' = t.buffer \o SubSeq(wire, 1, n)
             /\ wire' = From(wire, n)
             /\ connected' = (Len(read_buffer') <= MaxBuffer)
     /\ UNCHANGED <<taken, meant>>

\* A message, and on_message consumes it.
Takes ==
  LET t == take_one_message(read_buffer)
  IN /\ connected /\ t.out # << >>
     /\ taken' = taken \o t.out /\ read_buffer' = t.buffer
     /\ UNCHANGED <<wire, connected, meant>>

\* Slip: the message goes back without its header.
PutsBack_Bare ==
  LET t == take_one_message(read_buffer)
  IN /\ connected /\ t.out # << >>
     /\ read_buffer' = Head(t.out) \o t.buffer
     /\ UNCHANGED <<wire, taken, connected, meant>>

\* A message, but the window or the divide queue is full: it goes back.
PutsBack ==
  LET t == take_one_message(read_buffer)
  IN /\ connected /\ t.out # << >>
     /\ read_buffer' = send_preview(Head(t.out)) \o t.buffer
     /\ UNCHANGED <<wire, taken, connected, meant>>

\* on_message says Closed: the pools are shutting down.
Refused ==
  LET t == take_one_message(read_buffer)
  IN /\ connected /\ t.out # << >>
     /\ read_buffer' = t.buffer /\ connected' = FALSE
     /\ UNCHANGED <<wire, taken, meant>>

FrameNext == Reads \/ Takes \/ PutsBack \/ Refused

FrameSpec == FrameInit /\ [][FrameNext]_frameVars

---------------------------------------------------------------------------
(* Every variable keeps its type, and read_buffer never grows near the     *)
(* limit at which handle_read would close the connection: what is no       *)
(* message goes, and a message is taken before more is read.               *)
TypeOK ==
  /\ wire \in Seq(Bytes) /\ read_buffer \in Seq(Bytes)
  /\ taken \in Seq(Seq(Bytes)) /\ meant \in Seq(Seq(Bytes)) /\ connected \in BOOLEAN
  /\ Len(read_buffer) < Width + MaxFrame + Chunk

(* What is taken depends on the client's bytes alone, not on the pieces    *)
(* they are read in or how often a message is put back: always, the        *)
(* messages taken and those still to be found are the ones meant.          *)
DeliveredAsSent ==
  connected => taken \o spilit_message(read_buffer \o wire).messages = meant
==============================================================================
