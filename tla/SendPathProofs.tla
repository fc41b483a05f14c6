-------------------------- MODULE SendPathProofs --------------------------
(***************************************************************************)
(* For every set of connections and senders, every limit and every socket  *)
(* buffer: types, the exactness of queued_send_bytes, that sending on a    *)
(* connection is an ordered stream whatever the kernel takes, and that no  *)
(* queued frame is left without somebody on the way to write it.           *)
(***************************************************************************)
EXTENDS SendPath, SequenceTheorems, TLAPS

---------------------------------------------------------------------------
(* The operations on a connection's queue.                                 *)

(* A prefix of a sequence and what is left after it.                       *)
LEMMA Splits ==
  ASSUME NEW S, NEW q \in Seq(S), NEW n \in 0 .. Len(q)
  PROVE  /\ SubSeq(q, 1, n) \in Seq(S)
         /\ SubSeq(q, n + 1, Len(q)) \in Seq(S)
         /\ Len(SubSeq(q, n + 1, Len(q))) = Len(q) - n
<1>1. Len(q) \in Nat /\ \A i \in 1 .. Len(q) : q[i] \in S
  BY LenProperties, ElementOfSeq
<1>2. SubSeq(q, 1, n) \in Seq(S)
  BY <1>1, SubSeqProperties
<1>3. /\ SubSeq(q, n + 1, Len(q)) \in Seq(S)
      /\ Len(SubSeq(q, n + 1, Len(q)))
           = IF n + 1 <= Len(q) THEN Len(q) - (n + 1) + 1 ELSE 0
  BY <1>1, SubSeqProperties
<1>4. QED
  BY <1>1, <1>2, <1>3

(* Taking nothing leaves the sequence as it was.                           *)
LEMMA SplitsNothing ==
  ASSUME NEW S, NEW q \in Seq(S), NEW w \in Seq(S)
  PROVE  SubSeq(q, 1, Len(q)) = q /\ w \o SubSeq(q, 1, 0) = w
<1>1. SubSeq(q, 1, 0) = << >>
  BY SubSeqEmpty
<1>2. QED
  BY <1>1, SubSeqFull, ConcatEmptySeq

(* The units of an accepted frame are new ones within the bound.           *)
LEMMA NewUnits ==
  ASSUME TypeOK, NEW c \in Conns, NEW n \in Nat, accepted[c] + n <= MaxUnits
  PROVE  Units(c, n) \in Seq(1 .. MaxUnits) /\ Len(Units(c, n)) = n
<1>1. accepted[c] \in 0 .. MaxUnits
  BY DEF TypeOK
<1>2. MaxUnits \in Nat
  BY SendAssumption
<1>3. DEFINE e(i) == accepted[c] + i
<1>4. \A i \in 1 .. n : e(i) \in 1 .. MaxUnits
  BY <1>1, <1>2
<1>5. [i \in 1 .. n |-> e(i)] \in Seq(1 .. MaxUnits)
  <2> HIDE DEF e
  <2>1. QED
    BY <1>4, IsASeq
<1>6. Len([i \in 1 .. n |-> e(i)]) = n
  OBVIOUS
<1>7. QED
  BY <1>5, <1>6 DEF Units

(* What is put behind the queue lengthens it and leaves it as its front.   *)
LEMMA Appends ==
  ASSUME NEW S, NEW q \in Seq(S), NEW u \in Seq(S)
  PROVE  /\ q \o u \in Seq(S) /\ Len(q \o u) = Len(q) + Len(u)
         /\ SubSeq(q \o u, 1, Len(q)) = q
<1>1. /\ q \o u \in Seq(S) /\ Len(q \o u) = Len(q) + Len(u)
      /\ \A i \in 1 .. Len(q) + Len(u) :
           (q \o u)[i] = IF i <= Len(q) THEN q[i] ELSE u[i - Len(q)]
  BY ConcatProperties
<1>2. Len(q) \in Nat /\ Len(u) \in Nat
  BY LenProperties
<1>3. \A i \in 1 .. Len(q) : (q \o u)[i] \in S
  BY <1>1, <1>2, ElementOfSeq
<1>4. /\ SubSeq(q \o u, 1, Len(q)) \in Seq(S)
      /\ Len(SubSeq(q \o u, 1, Len(q))) = IF 1 <= Len(q) THEN Len(q) - 1 + 1 ELSE 0
      /\ \A i \in 1 .. Len(q) - 1 + 1 : SubSeq(q \o u, 1, Len(q))[i] = (q \o u)[1 + i - 1]
  BY <1>2, <1>3, SubSeqProperties
<1>5. Len(SubSeq(q \o u, 1, Len(q))) = Len(q)
  BY <1>2, <1>4
<1>6. \A i \in 1 .. Len(q) : SubSeq(q \o u, 1, Len(q))[i] = q[i]
  BY <1>1, <1>2, <1>4
<1>7. SubSeq(q \o u, 1, Len(q)) = q
  BY <1>4, <1>5, <1>6, SeqEqual
<1>8. QED
  BY <1>1, <1>7

---------------------------------------------------------------------------
(* The invariant: types and the account, and what the Reactor relies on    *)
(* between two steps: every event but the wake-up is of a connection, the  *)
(* connection being written is open, and a sender that has yet to announce *)
(* a frame knows whose it is.                                              *)
QueueTypes ==
  /\ send_queue \in [Conns -> Seq(1 .. MaxUnits)]
  /\ queued_send_bytes \in [Conns -> 0 .. MaxQueued]
  /\ accepted \in [Conns -> 0 .. MaxUnits] /\ promised \in [Conns -> 0 .. MaxUnits]
  /\ wire \in [Conns -> Seq(1 .. MaxUnits)]
  /\ room \in [Conns -> 0 .. SockBuf]
PollTypes ==
  /\ connected \in [Conns -> BOOLEAN] /\ reading_paused \in [Conns -> BOOLEAN]
  /\ overwritten \in [Conns -> BOOLEAN]
  /\ mask \in [Conns -> SUBSET {"in", "out"}] /\ posted \in [Conns -> BOOLEAN]
  /\ input \in [Conns -> BOOLEAN] /\ gone \in [Conns -> BOOLEAN]
ThreadTypes ==
  /\ pending_send \in SUBSET Conns /\ pending_close \in SUBSET Conns
  /\ pending_resume \in SUBSET Conns
  /\ woken \in BOOLEAN /\ running \in BOOLEAN
  /\ loop \in {"wait", "events", "send", "bucket", "closes", "resumes", "exited"}
  /\ fetched \in SUBSET [tok : Conns \union {None}, evs : SUBSET {"in", "out", "hup"}]
  /\ bucket \in SUBSET Conns /\ cur \in Conns \union {None}
  /\ marked \in BOOLEAN /\ flushing \in BOOLEAN
  /\ flusher \in {"wait", "wake", "exited"}
  /\ pc \in [Senders -> {"idle", "pend", "mark", "wake"}]
  /\ target \in [Senders -> Conns \union {None}]
  /\ stopper \in {"up", "join flusher", "stop", "join", "done"}
Tokens == \A e \in fetched : e = WakeToken \/ e.tok \in Conns
Writing == loop = "send" => cur \in Conns /\ connected[cur]
Announcing == \A t \in Senders : pc[t] = "pend" => target[t] \in Conns

QueueInv == QueueTypes /\ AccountIsExact
ThreadInv == PollTypes /\ ThreadTypes /\ Tokens /\ Writing /\ Announcing

(* The two parts of the invariant are the types, the account and the rest. *)
LEMMA Parts == TypeOK <=> QueueTypes /\ PollTypes /\ ThreadTypes
BY Zenon DEF TypeOK, QueueTypes, PollTypes, ThreadTypes

---------------------------------------------------------------------------
(* The queue.  Only four actions touch it or what bounds it.               *)

(* enqueue_send tests the limit before it counts the frame.                *)
LEMMA EnqueueKeepsQueue ==
  ASSUME QueueInv, TypeOK, NEW t \in Senders, NEW c \in Conns, NEW n \in FrameSizes,
         EnqueueSend(t, c, n)
  PROVE  QueueInv'
<1> USE DEF QueueInv, QueueTypes
<1>1. n \in Nat /\ n # 0 /\ MaxQueued \in Nat /\ MaxUnits \in Nat
  BY SendAssumption
<1>2. Units(c, n) \in Seq(1 .. MaxUnits) /\ Len(Units(c, n)) = n
  BY <1>1, NewUnits DEF EnqueueSend
<1>3. /\ send_queue[c] \o Units(c, n) \in Seq(1 .. MaxUnits)
      /\ Len(send_queue[c] \o Units(c, n)) = Len(send_queue[c]) + n
  <2>1. send_queue[c] \in Seq(1 .. MaxUnits)
    OBVIOUS
  <2>2. QED
    BY <1>2, <2>1, Appends
<1>4. send_queue' \in [Conns -> Seq(1 .. MaxUnits)]
  BY <1>3 DEF EnqueueSend
<1>5. /\ queued_send_bytes[c] + n \in 0 .. MaxQueued
      /\ accepted[c] + n \in 0 .. MaxUnits
  BY <1>1 DEF EnqueueSend
<1>6. /\ queued_send_bytes' \in [Conns -> 0 .. MaxQueued]
      /\ accepted' \in [Conns -> 0 .. MaxUnits]
  BY <1>5 DEF EnqueueSend
<1>7. \A d \in Conns : queued_send_bytes'[d] = Len(send_queue'[d])
  BY <1>3 DEF EnqueueSend, AccountIsExact
<1>8. AccountIsExact'
  BY <1>1, <1>6, <1>7 DEF AccountIsExact
<1>9. UNCHANGED <<promised, wire, room>>
  BY DEF EnqueueSend, netVars
<1>10. QED
  BY <1>4, <1>6, <1>8, <1>9

(* Of the k units of a batch n are written; the rest is put back and       *)
(* counted again.                                                          *)
LEMMA TryWriteKeepsQueue ==
  ASSUME QueueInv, Writing, NEW k \in Nat, TryWrite(k)
  PROVE  QueueInv'
<1> USE DEF QueueInv, QueueTypes
<1> DEFINE c == cur
           n == IF k <= room[c] THEN k ELSE room[c]
           q == send_queue[c]
<1>1. c \in Conns /\ k \in 1 .. Len(q) /\ SockBuf \in Nat /\ MaxQueued \in Nat
  BY SendAssumption DEF TryWrite, Writing
<1>2. Len(q) \in Nat /\ room[c] \in 0 .. SockBuf
  BY <1>1, LenProperties
<1>3. n \in 0 .. Len(q) /\ n <= k /\ room[c] - n \in 0 .. SockBuf
  BY <1>1, <1>2
<1>4. /\ SubSeq(q, 1, n) \in Seq(1 .. MaxUnits)
      /\ SubSeq(q, n + 1, Len(q)) \in Seq(1 .. MaxUnits)
      /\ Len(SubSeq(q, n + 1, Len(q))) = Len(q) - n
  BY <1>1, <1>3, Splits
<1>5. wire[c] \o SubSeq(q, 1, n) \in Seq(1 .. MaxUnits)
  BY <1>1, <1>4, ConcatProperties
<1> HIDE DEF n
<1>6. /\ send_queue' = [send_queue EXCEPT ![c] = SubSeq(q, n + 1, Len(q))]
      /\ wire' = [wire EXCEPT ![c] = wire[c] \o SubSeq(q, 1, n)]
      /\ queued_send_bytes' = [queued_send_bytes EXCEPT ![c] =
                                 (queued_send_bytes[c] - k) + (k - n)]
      /\ room' = [room EXCEPT ![c] = room[c] - n]
      /\ UNCHANGED <<accepted, promised>>
  BY DEF TryWrite, Remainder, Recounted, n
<1>7. /\ (queued_send_bytes[c] - k) + (k - n) = Len(q) - n
      /\ Len(q) - n \in 0 .. MaxQueued
  BY <1>1, <1>2, <1>3 DEF AccountIsExact
<1>8. /\ send_queue' \in [Conns -> Seq(1 .. MaxUnits)]
      /\ wire' \in [Conns -> Seq(1 .. MaxUnits)]
      /\ queued_send_bytes' \in [Conns -> 0 .. MaxQueued]
      /\ room' \in [Conns -> 0 .. SockBuf]
  BY <1>1, <1>3, <1>4, <1>5, <1>6, <1>7
<1>9. \A d \in Conns : queued_send_bytes'[d] = Len(send_queue'[d])
  BY <1>1, <1>4, <1>6, <1>7 DEF AccountIsExact
<1>10. AccountIsExact'
  BY <1>1, <1>8, <1>9 DEF AccountIsExact
<1>11. QED
  BY <1>6, <1>8, <1>10

(* A batch whose write() failed is gone from the queue and the count.      *)
LEMMA WriteFailsKeepsQueue ==
  ASSUME QueueInv, Writing, NEW k \in Nat, WriteFails(k)
  PROVE  QueueInv'
<1> USE DEF QueueInv, QueueTypes
<1> DEFINE c == cur
           q == send_queue[c]
<1>1. c \in Conns /\ k \in 1 .. Len(q) /\ MaxQueued \in Nat
  BY SendAssumption DEF WriteFails, Writing
<1>2. Len(q) \in Nat /\ k \in 0 .. Len(q) /\ q \in Seq(1 .. MaxUnits)
  BY <1>1, LenProperties
<1>3. /\ SubSeq(q, k + 1, Len(q)) \in Seq(1 .. MaxUnits)
      /\ Len(SubSeq(q, k + 1, Len(q))) = Len(q) - k
  BY <1>2, Splits
<1>4. /\ send_queue' = [send_queue EXCEPT ![c] = SubSeq(q, k + 1, Len(q))]
      /\ queued_send_bytes' = [queued_send_bytes EXCEPT ![c] = queued_send_bytes[c] - k]
      /\ UNCHANGED <<accepted, promised, wire, room>>
  BY DEF WriteFails, netVars
<1>5. queued_send_bytes[c] - k = Len(q) - k /\ Len(q) - k \in 0 .. MaxQueued
  BY <1>1, <1>2 DEF AccountIsExact
<1>6. /\ send_queue' \in [Conns -> Seq(1 .. MaxUnits)]
      /\ queued_send_bytes' \in [Conns -> 0 .. MaxQueued]
  BY <1>1, <1>3, <1>4, <1>5
<1>7. \A d \in Conns : queued_send_bytes'[d] = Len(send_queue'[d])
  BY <1>1, <1>3, <1>4, <1>5 DEF AccountIsExact
<1>8. AccountIsExact'
  BY <1>1, <1>6, <1>7 DEF AccountIsExact
<1>9. QED
  BY <1>4, <1>6, <1>8

(* Every other action leaves the queue and its count alone; a client that  *)
(* reads empties the kernel's buffer, and flush_and_stop records.          *)
LEMMA OthersKeepQueue ==
  ASSUME QueueInv,
         UNCHANGED <<send_queue, queued_send_bytes, accepted, wire>>,
         \/ UNCHANGED <<room, promised>>
         \/ \E c \in Conns : ClientReads(c)
         \/ LastFlush
  PROVE  QueueInv'
<1> USE DEF QueueInv, QueueTypes
<1>1. AccountIsExact'
  BY DEF AccountIsExact
<1>2. room' \in [Conns -> 0 .. SockBuf] /\ promised' \in [Conns -> 0 .. MaxUnits]
  <2>1. CASE UNCHANGED <<room, promised>>
    BY <2>1
  <2>2. ASSUME NEW c \in Conns, ClientReads(c)
        PROVE  room' \in [Conns -> 0 .. SockBuf] /\ UNCHANGED promised
    <3>1. SockBuf \in 0 .. SockBuf
      BY SendAssumption
    <3>2. QED
      BY <2>2, <3>1 DEF ClientReads, connVars
  <2>3. CASE LastFlush
    <3>1. 0 \in 0 .. MaxUnits
      BY SendAssumption
    <3>2. promised' = [c \in Conns |-> IF \E t \in Senders : target[t] = c
                                         THEN 0 ELSE accepted[c]]
      BY <2>3 DEF LastFlush
    <3>3. UNCHANGED room
      BY <2>3 DEF LastFlush, netVars
    <3>4. QED
      BY <3>1, <3>2, <3>3
  <2>4. QED
    BY <2>1, <2>2, <2>3
<1>3. QED
  BY <1>1, <1>2

---------------------------------------------------------------------------
(* What the epoll operations do to the connections' flags.                 *)

(* Closing keeps the types and opens nothing.                              *)
LEMMA CloseAllTypes ==
  ASSUME PollTypes, NEW S, CloseAll(S)
  PROVE  /\ connected' \in [Conns -> BOOLEAN]
         /\ posted' \in [Conns -> BOOLEAN]
         /\ mask' \in [Conns -> SUBSET {"in", "out"}]
         /\ \A d \in Conns : d \notin S => connected'[d] = connected[d]
<1>1. connected' \in [Conns -> BOOLEAN] /\ posted' \in [Conns -> BOOLEAN]
  BY DEF CloseAll
<1>2. mask' \in [Conns -> SUBSET {"in", "out"}]
  BY DEF CloseAll, PollTypes
<1>3. \A d \in Conns : d \notin S => connected'[d] = connected[d]
  BY DEF CloseAll, PollTypes
<1>4. QED
  BY <1>1, <1>2, <1>3

(* EPOLL_CTL_MOD keeps the types.                                          *)
LEMMA ModEventTypes ==
  ASSUME PollTypes, NEW c \in Conns, NEW m \in SUBSET {"in", "out"}, NEW r,
         ModEvent(c, m, r)
  PROVE  /\ posted' \in [Conns -> BOOLEAN]
         /\ mask' \in [Conns -> SUBSET {"in", "out"}]
<1>1. Modified(c, m, r) \in BOOLEAN
  BY DEF Modified, PollTypes
<1>2. QED
  BY <1>1 DEF ModEvent, PollTypes

(* Reading keeps the types, and closes at most the connection it reads.    *)
LEMMA HandleReadTypes ==
  ASSUME PollTypes, NEW c \in Conns, NEW m \in SUBSET {"in", "out"},
         pending_resume \in SUBSET Conns, woken \in BOOLEAN,
         HandleRead(c, m), UNCHANGED gone
  PROVE  /\ PollTypes'
         /\ pending_resume' \in SUBSET Conns /\ woken' \in BOOLEAN
         /\ \A d \in Conns : d # c => connected'[d] = connected[d]
<1>1. CASE gone[c] /\ CloseAll({c}) /\ UNCHANGED <<reading_paused, overwritten, input,
                                                  pending_resume, woken>>
  <2>1. /\ connected' \in [Conns -> BOOLEAN] /\ posted' \in [Conns -> BOOLEAN]
        /\ mask' \in [Conns -> SUBSET {"in", "out"}]
        /\ \A d \in Conns : d # c => connected'[d] = connected[d]
    BY <1>1, CloseAllTypes
  <2>2. QED
    BY <1>1, <2>1 DEF PollTypes
<1>2. CASE ~gone[c]
  <2>1. /\ input' \in [Conns -> BOOLEAN] /\ reading_paused' \in [Conns -> BOOLEAN]
        /\ overwritten' \in [Conns -> BOOLEAN] /\ UNCHANGED <<connected, posted>>
        /\ pending_resume' \in SUBSET Conns /\ woken' \in BOOLEAN
    BY <1>2 DEF HandleRead, PollTypes
  <2>2. mask' = [mask EXCEPT ![c] = m] \/ mask' = [mask EXCEPT ![c] = {}]
    BY <1>2 DEF HandleRead
  <2>3. mask' \in [Conns -> SUBSET {"in", "out"}]
    BY <2>2 DEF PollTypes
  <2>4. QED
    BY <2>1, <2>3 DEF PollTypes
<1>3. QED
  BY <1>1, <1>2 DEF HandleRead

---------------------------------------------------------------------------
(* The rest of the invariant, actor by actor.                              *)

(* The clients and the threads that ask to resume.                         *)
LEMMA ClientKeeps ==
  ASSUME ThreadInv, NEW c \in Conns,
         ClientSends(c) \/ ClientReads(c) \/ ClientResets(c) \/ ScheduleResume(c)
  PROVE  ThreadInv'
<1> USE DEF ThreadInv
<1>1. UNCHANGED <<loopVars, sendVars, connected>> => Tokens' /\ Writing' /\ Announcing'
  BY DEF loopVars, sendVars, Tokens, Writing, Announcing, WakeToken
<1>2. CASE ClientSends(c) \/ ClientReads(c) \/ ClientResets(c)
  <2>1. UNCHANGED <<connVars, shareVars, loopVars, batchVars, sendVars, stopper>>
    BY <1>2 DEF ClientSends, ClientReads, ClientResets
  <2>2. /\ mask' = mask
        /\ input' \in [Conns -> BOOLEAN] /\ gone' \in [Conns -> BOOLEAN]
    BY <1>2 DEF ClientSends, ClientReads, ClientResets, PollTypes
  <2>3. posted' \in [Conns -> BOOLEAN]
    BY <1>2 DEF ClientSends, ClientReads, ClientResets, PollTypes
  <2>4. PollTypes'
    BY <2>1, <2>2, <2>3 DEF PollTypes, connVars
  <2>5. ThreadTypes'
    BY <2>1 DEF ThreadTypes, shareVars, loopVars, batchVars, sendVars
  <2>6. QED
    BY <1>1, <2>1, <2>4, <2>5 DEF connVars
<1>3. CASE ScheduleResume(c)
  <2>1. PollTypes'
    BY <1>3 DEF ScheduleResume, connVars, pollVars, netVars, PollTypes
  <2>2. ThreadTypes'
    BY <1>3 DEF ScheduleResume, ThreadTypes, loopVars, batchVars, sendVars
  <2>3. QED
    BY <1>1, <1>3, <2>1, <2>2 DEF ScheduleResume, connVars
<1>4. QED
  BY <1>2, <1>3

(* The business threads.                                                   *)
LEMMA SenderKeeps ==
  ASSUME ThreadInv, NEW t \in Senders, Sender(t)
  PROVE  ThreadInv'
<1> USE DEF ThreadInv
<1>1. UNCHANGED <<loopVars, connVars>> => Tokens' /\ Writing'
  BY DEF loopVars, connVars, Tokens, Writing, WakeToken
<1>2. UNCHANGED <<connVars, pollVars, netVars>> => PollTypes'
  BY DEF connVars, pollVars, netVars, PollTypes
<1>3. ASSUME NEW c \in Conns, NEW n \in FrameSizes, EnqueueSend(t, c, n)
      PROVE  ThreadInv'
  <2>1. PollTypes' /\ Tokens' /\ Writing'
    BY <1>3 DEF EnqueueSend, pollVars, netVars, loopVars, PollTypes, Tokens, Writing,
                WakeToken
  <2>2. Announcing'
    BY <1>3 DEF EnqueueSend, Goto, Announcing, ThreadTypes
  <2>3. ThreadTypes'
    BY <1>3 DEF EnqueueSend, Goto, shareVars, loopVars, batchVars, ThreadTypes
  <2>4. QED
    BY <2>1, <2>2, <2>3
<1>4. ASSUME NEW c \in Conns, RequestClose(t, c)
      PROVE  ThreadInv'
  <2>1. Announcing' /\ ThreadTypes'
    BY <1>4 DEF RequestClose, Goto, loopVars, batchVars, Announcing, ThreadTypes
  <2>2. QED
    BY <1>1, <1>2, <1>4, <2>1 DEF RequestClose
<1>5. CASE PendSend(t)
  <2>1. Announcing' /\ ThreadTypes'
    BY <1>5 DEF PendSend, Goto, loopVars, batchVars, Announcing, ThreadTypes
  <2>2. QED
    BY <1>1, <1>2, <1>5, <2>1 DEF PendSend
<1>6. CASE MarkReactor(t)
  <2>1. Announcing' /\ ThreadTypes'
    BY <1>6 DEF MarkReactor, Goto, shareVars, loopVars, Announcing, ThreadTypes
  <2>2. QED
    BY <1>1, <1>2, <1>6, <2>1 DEF MarkReactor
<1>7. CASE Wakeup(t)
  <2>1. Announcing' /\ ThreadTypes'
    BY <1>7 DEF Wakeup, Goto, loopVars, batchVars, Announcing, ThreadTypes
  <2>2. QED
    BY <1>1, <1>2, <1>7, <2>1 DEF Wakeup
<1>8. QED
  BY <1>3, <1>4, <1>5, <1>6, <1>7 DEF Sender, SenderStep

(* BatchSender's thread.                                                   *)
LEMMA FlusherKeeps ==
  ASSUME ThreadInv, Flusher
  PROVE  ThreadInv'
<1> USE DEF ThreadInv
<1>1. UNCHANGED <<loopVars, connVars, pollVars, netVars, sendVars>>
  BY DEF Flusher, FlushSwap, FlushWakes, FlushExits
<1>2. PollTypes' /\ Tokens' /\ Writing' /\ Announcing'
  BY <1>1 DEF loopVars, connVars, pollVars, netVars, sendVars, PollTypes, Tokens,
              Writing, Announcing, WakeToken
<1>3. ThreadTypes'
  BY <1>1 DEF Flusher, FlushSwap, FlushWakes, FlushExits, shareVars, loopVars, sendVars,
              ThreadTypes
<1>4. QED
  BY <1>2, <1>3

(* Server::stop.  It closes connections only when the event thread is      *)
(* joined.                                                                 *)
LEMMA StopperKeeps ==
  ASSUME ThreadInv, Stopper
  PROVE  ThreadInv'
<1> USE DEF ThreadInv
<1>1. UNCHANGED <<loopVars, sendVars>> => Tokens' /\ Announcing'
  BY DEF loopVars, sendVars, Tokens, Announcing, WakeToken
<1>2. CASE StopFlusher
  <2>1. PollTypes' /\ Writing' /\ ThreadTypes'
    BY <1>2 DEF StopFlusher, Stage, connVars, pollVars, netVars, shareVars, loopVars,
                sendVars, PollTypes, Writing, ThreadTypes
  <2>2. QED
    BY <1>1, <1>2, <2>1 DEF StopFlusher
<1>3. CASE LastFlush
  <2>1. PollTypes' /\ Writing' /\ ThreadTypes'
    BY <1>3 DEF LastFlush, Stage, pollVars, netVars, loopVars, sendVars,
                PollTypes, Writing, ThreadTypes
  <2>2. QED
    BY <1>1, <1>3, <2>1 DEF LastFlush
<1>4. CASE StopReactor
  <2>1. PollTypes' /\ Writing' /\ ThreadTypes'
    BY <1>4 DEF StopReactor, Stage, connVars, pollVars, netVars, loopVars, batchVars,
                sendVars, PollTypes, Writing, ThreadTypes
  <2>2. QED
    BY <1>1, <1>4, <2>1 DEF StopReactor
<1>5. CASE StopCloses
  <2>1. /\ connected' \in [Conns -> BOOLEAN] /\ posted' \in [Conns -> BOOLEAN]
        /\ mask' \in [Conns -> SUBSET {"in", "out"}]
    BY <1>5, CloseAllTypes DEF StopCloses
  <2>2. PollTypes'
    BY <1>5, <2>1 DEF StopCloses, netVars, PollTypes
  <2>3. Writing' /\ ThreadTypes'
    BY <1>5 DEF StopCloses, Stage, shareVars, loopVars, batchVars, sendVars, Writing,
                ThreadTypes
  <2>4. QED
    BY <1>1, <1>5, <2>2, <2>3 DEF StopCloses
<1>6. QED
  BY <1>2, <1>3, <1>4, <1>5 DEF Stopper

(* The end of try_send: the mask is set and the connection let go.         *)
LEMMA SendDoneKeeps ==
  ASSUME ThreadInv, NEW c \in Conns, NEW left, NEW blocked, NEW r,
         SendDone(c, left, blocked, r)
  PROVE  /\ posted' \in [Conns -> BOOLEAN]
         /\ mask' \in [Conns -> SUBSET {"in", "out"}]
         /\ cur' = None /\ loop' \in {"bucket", "events"}
<1>1. (IF blocked THEN {"in", "out"} ELSE {"in"}) \in SUBSET {"in", "out"}
  OBVIOUS
<1>2. QED
  BY <1>1, ModEventTypes DEF SendDone, Loop, Return, ThreadInv

(* The waits and the scan for silent connections.                          *)
LEMMA LoopKeeps ==
  ASSUME ThreadInv, EpollWait \/ IdleScan \/ WakeEvent \/ ProcessPendingClose \/ SendSwap
  PROVE  ThreadInv'
<1> USE DEF ThreadInv
<1>1. UNCHANGED sendVars => Announcing'
  BY DEF sendVars, Announcing
<1>2. UNCHANGED <<connVars, pollVars, netVars>> => PollTypes'
  BY DEF connVars, pollVars, netVars, PollTypes
<1>3. CASE EpollWait
  <2>1. PollTypes'
    BY <1>3 DEF EpollWait, connVars, netVars, PollTypes
  <2>2. \A e \in fetched' : \/ e = WakeToken
                            \/ \E c \in Conns : e = [tok |-> c, evs |-> Reported(c)]
    BY <1>3 DEF EpollWait
  <2>3. /\ WakeToken \in [tok : Conns \union {None}, evs : SUBSET {"in", "out", "hup"}]
        /\ \A c \in Conns : Reported(c) \in SUBSET {"in", "out", "hup"}
    BY DEF WakeToken, Reported
  <2>4. /\ fetched' \in SUBSET [tok : Conns \union {None}, evs : SUBSET {"in", "out", "hup"}]
        /\ Tokens'
    BY <2>2, <2>3 DEF Tokens, WakeToken
  <2>5. Writing' /\ ThreadTypes'
    BY <1>3, <2>4 DEF EpollWait, Loop, shareVars, batchVars, sendVars, Writing, ThreadTypes
  <2>6. QED
    BY <1>1, <1>3, <2>1, <2>4, <2>5 DEF EpollWait
<1>4. CASE IdleScan
  <2>1. /\ connected' \in [Conns -> BOOLEAN] /\ posted' \in [Conns -> BOOLEAN]
        /\ mask' \in [Conns -> SUBSET {"in", "out"}]
    <3>1. PICK S \in SUBSET {c \in MayClose : connected[c]} : CloseAll(S)
      BY <1>4 DEF IdleScan
    <3>2. QED
      BY <3>1, CloseAllTypes
  <2>2. PollTypes'
    BY <1>4, <2>1 DEF IdleScan, netVars, PollTypes
  <2>3. Tokens' /\ Writing' /\ ThreadTypes'
    BY <1>4 DEF IdleScan, Loop, shareVars, batchVars, sendVars, Tokens, Writing,
                WakeToken, ThreadTypes
  <2>4. QED
    BY <1>1, <1>4, <2>2, <2>3 DEF IdleScan
<1>5. CASE WakeEvent
  <2>1. Tokens' /\ Writing'
    BY <1>5 DEF WakeEvent, Loop, Tokens, Writing, WakeToken
  <2>2. ThreadTypes'
    BY <1>5 DEF WakeEvent, Loop, batchVars, sendVars, ThreadTypes
  <2>3. QED
    BY <1>1, <1>2, <1>5, <2>1, <2>2 DEF WakeEvent
<1>6. CASE ProcessPendingClose
  <2>1. /\ connected' \in [Conns -> BOOLEAN] /\ posted' \in [Conns -> BOOLEAN]
        /\ mask' \in [Conns -> SUBSET {"in", "out"}]
    BY <1>6, CloseAllTypes DEF ProcessPendingClose
  <2>2. PollTypes'
    BY <1>6, <2>1 DEF ProcessPendingClose, netVars, PollTypes
  <2>3. Tokens' /\ Writing' /\ ThreadTypes'
    BY <1>6 DEF ProcessPendingClose, Loop, batchVars, sendVars, Tokens, Writing,
                WakeToken, ThreadTypes
  <2>4. QED
    BY <1>1, <1>6, <2>2, <2>3 DEF ProcessPendingClose
<1>7. CASE SendSwap
  <2>1. Tokens' /\ Writing' /\ ThreadTypes'
    BY <1>7 DEF SendSwap, Loop, batchVars, sendVars, Tokens, Writing, WakeToken,
                ThreadTypes
  <2>2. QED
    BY <1>1, <1>2, <1>7, <2>1 DEF SendSwap
<1>8. QED
  BY <1>3, <1>4, <1>5, <1>6, <1>7

(* One event of a connection.  Whatever epoll reported, a closed one is    *)
(* not written.                                                            *)
LEMMA EventKeeps ==
  ASSUME ThreadInv, NEW e \in fetched,
         StaleEvent(e) \/ HangUpEvent(e) \/ ReadEvent(e) \/ WriteEvent(e)
  PROVE  ThreadInv'
<1> USE DEF ThreadInv
<1>1. UNCHANGED sendVars => Announcing'
  BY DEF sendVars, Announcing
<1>2. UNCHANGED <<connVars, pollVars, netVars>> => PollTypes'
  BY DEF connVars, pollVars, netVars, PollTypes
<1>3. /\ e.tok \in Conns /\ loop = "events"
      /\ e \in [tok : Conns \union {None}, evs : SUBSET {"in", "out", "hup"}]
  BY DEF StaleEvent, HangUpEvent, ReadEvent, WriteEvent, Tokens, ThreadTypes
<1>4. CASE StaleEvent(e)
  <2>1. Tokens' /\ Writing' /\ ThreadTypes'
    BY <1>4 DEF StaleEvent, connVars, shareVars, batchVars, sendVars, Tokens, Writing,
                WakeToken, ThreadTypes
  <2>2. QED
    BY <1>1, <1>2, <1>4, <2>1 DEF StaleEvent
<1>5. CASE HangUpEvent(e)
  <2>1. /\ connected' \in [Conns -> BOOLEAN] /\ posted' \in [Conns -> BOOLEAN]
        /\ mask' \in [Conns -> SUBSET {"in", "out"}]
    BY <1>5, CloseAllTypes DEF HangUpEvent
  <2>2. PollTypes'
    BY <1>5, <2>1 DEF HangUpEvent, netVars, PollTypes
  <2>3. Tokens' /\ Writing' /\ ThreadTypes'
    BY <1>3, <1>5 DEF HangUpEvent, shareVars, batchVars, sendVars, Tokens, Writing,
                WakeToken, ThreadTypes
  <2>4. QED
    BY <1>1, <1>5, <2>2, <2>3 DEF HangUpEvent
<1>6. CASE ReadEvent(e)
  <2>1. /\ PollTypes' /\ pending_resume' \in SUBSET Conns /\ woken' \in BOOLEAN
    <3>1. CASE reading_paused[e.tok]
      BY <1>6, <3>1 DEF ReadEvent, connVars, pollVars, PollTypes, ThreadTypes
    <3>2. CASE ~reading_paused[e.tok]
      <4>1. HandleRead(e.tok, mask[e.tok]) /\ UNCHANGED gone
        BY <1>6, <3>2 DEF ReadEvent
      <4>2. mask[e.tok] \in SUBSET {"in", "out"}
        BY <1>3 DEF PollTypes
      <4>3. QED
        BY <1>3, <4>1, <4>2, HandleReadTypes DEF ThreadTypes
    <3>3. QED
      BY <3>1, <3>2
  <2>2. fetched' = (fetched \ {e}) \union
                     (IF "out" \in e.evs THEN {[e EXCEPT !.evs = {"out"}]} ELSE {})
    BY <1>6 DEF ReadEvent
  <2>3. /\ [e EXCEPT !.evs = {"out"}] \in [tok : Conns \union {None},
                                           evs : SUBSET {"in", "out", "hup"}]
        /\ [e EXCEPT !.evs = {"out"}].tok \in Conns
    BY <1>3
  <2>4. /\ fetched' \in SUBSET [tok : Conns \union {None}, evs : SUBSET {"in", "out", "hup"}]
        /\ Tokens'
    BY <2>2, <2>3 DEF Tokens, ThreadTypes, WakeToken
  <2>5. Writing'
    BY <1>3, <1>6 DEF ReadEvent, Writing
  <2>6. ThreadTypes'
    BY <1>6, <2>1, <2>4 DEF ReadEvent, batchVars, sendVars, ThreadTypes
  <2>7. QED
    BY <1>1, <1>6, <2>1, <2>4, <2>5, <2>6 DEF ReadEvent
<1>7. CASE WriteEvent(e)
  <2>1. Tokens' /\ ThreadTypes'
    BY <1>3, <1>7 DEF WriteEvent, Loop, shareVars, batchVars, sendVars, Tokens,
                      WakeToken, ThreadTypes
  <2>2. Writing'
    BY <1>3, <1>7 DEF WriteEvent, Loop, connVars, Writing
  <2>3. QED
    BY <1>1, <1>2, <1>7, <2>1, <2>2 DEF WriteEvent
<1>8. QED
  BY <1>4, <1>5, <1>6, <1>7

(* The resume pass, and the sends that begin: only an open connection is   *)
(* written.                                                                *)
LEMMA BucketKeeps ==
  ASSUME ThreadInv, NEW c \in Conns, Resume(c) \/ SendNext(c)
  PROVE  ThreadInv'
<1> USE DEF ThreadInv
<1>1. UNCHANGED sendVars => Announcing'
  BY DEF sendVars, Announcing
<1>2. CASE Resume(c)
  <2>1. /\ PollTypes' /\ pending_resume' \in SUBSET Conns /\ woken' \in BOOLEAN
    <3>1. CASE connected[c]
      BY <1>2, <3>1, HandleReadTypes DEF Resume, ThreadTypes
    <3>2. CASE ~connected[c]
      BY <1>2, <3>2 DEF Resume, pollVars, PollTypes, ThreadTypes
    <3>3. QED
      BY <3>1, <3>2
  <2>2. Tokens' /\ Writing'
    BY <1>2 DEF Resume, Tokens, Writing, WakeToken
  <2>3. ThreadTypes'
    BY <1>2, <2>1 DEF Resume, batchVars, sendVars, ThreadTypes
  <2>4. QED
    BY <1>1, <1>2, <2>1, <2>2, <2>3 DEF Resume
<1>3. CASE SendNext(c)
  <2>1. PollTypes'
    BY <1>3 DEF SendNext, connVars, pollVars, netVars, PollTypes
  <2>2. Tokens' /\ Writing'
    BY <1>3 DEF SendNext, Loop, connVars, Tokens, Writing, WakeToken
  <2>3. ThreadTypes'
    BY <1>3 DEF SendNext, Loop, shareVars, batchVars, sendVars, ThreadTypes
  <2>4. QED
    BY <1>1, <1>3, <2>1, <2>2, <2>3 DEF SendNext
<1>4. QED
  BY <1>2, <1>3

(* try_send: the connection stays open while it is written, and is let go  *)
(* when it is closed.                                                      *)
LEMMA TrySendKeeps ==
  ASSUME ThreadInv,
         NothingQueued \/ \E k \in 1 .. MaxQueued : TryWrite(k) \/ WriteFails(k)
  PROVE  ThreadInv'
<1> USE DEF ThreadInv
<1>1. cur \in Conns /\ connected[cur]
  BY DEF NothingQueued, TryWrite, WriteFails, Writing
<1>2. UNCHANGED <<sendVars, fetched>> => Announcing' /\ Tokens'
  BY DEF sendVars, Announcing, Tokens, WakeToken
<1>3. CASE NothingQueued
  <2>1. /\ posted' \in [Conns -> BOOLEAN] /\ mask' \in [Conns -> SUBSET {"in", "out"}]
        /\ cur' = None /\ loop' \in {"bucket", "events"}
    BY <1>1, <1>3, SendDoneKeeps DEF NothingQueued
  <2>2. PollTypes' /\ Writing'
    BY <1>3, <2>1 DEF NothingQueued, connVars, netVars, PollTypes, Writing
  <2>3. ThreadTypes'
    BY <1>3, <2>1 DEF NothingQueued, shareVars, batchVars, sendVars, ThreadTypes
  <2>4. QED
    BY <1>2, <1>3, <2>2, <2>3 DEF NothingQueued
<1>4. ASSUME NEW k \in 1 .. MaxQueued, TryWrite(k)
      PROVE  ThreadInv'
  <2>1. /\ posted' \in [Conns -> BOOLEAN] /\ mask' \in [Conns -> SUBSET {"in", "out"}]
        /\ \/ cur' = None /\ loop' \in {"bucket", "events"}
           \/ UNCHANGED <<cur, loop>>
    BY <1>1, <1>4, SendDoneKeeps DEF TryWrite, pollVars, PollTypes
  <2>2. PollTypes'
    BY <1>4, <2>1 DEF TryWrite, PollTypes
  <2>3. Writing' /\ ThreadTypes'
    BY <1>1, <1>4, <2>1 DEF TryWrite, shareVars, batchVars, sendVars, Writing, ThreadTypes
  <2>4. QED
    BY <1>2, <1>4, <2>2, <2>3 DEF TryWrite
<1>5. ASSUME NEW k \in 1 .. MaxQueued, WriteFails(k)
      PROVE  ThreadInv'
  <2>1. /\ connected' \in [Conns -> BOOLEAN] /\ posted' \in [Conns -> BOOLEAN]
        /\ mask' \in [Conns -> SUBSET {"in", "out"}]
    BY <1>5, CloseAllTypes DEF WriteFails
  <2>2. PollTypes'
    BY <1>5, <2>1 DEF WriteFails, netVars, PollTypes
  <2>3. Writing' /\ ThreadTypes'
    BY <1>5 DEF WriteFails, Loop, Return, shareVars, batchVars, sendVars, Writing,
                ThreadTypes
  <2>4. QED
    BY <1>2, <1>5, <2>2, <2>3 DEF WriteFails
<1>6. QED
  BY <1>3, <1>4, <1>5

---------------------------------------------------------------------------
(* The step.                                                               *)
IInv == QueueInv /\ ThreadInv

(* Every connection starts empty.                                          *)
LEMMA InitInv == Init => IInv
<1> SUFFICES ASSUME Init
             PROVE  IInv
  OBVIOUS
<1>1. << >> \in Seq(1 .. MaxUnits) /\ Len(<< >>) = 0
  BY EmptySeq
<1>2. 0 \in 0 .. MaxUnits /\ 0 \in 0 .. MaxQueued /\ SockBuf \in 0 .. SockBuf
  BY SendAssumption
<1>3. QueueTypes
  BY <1>1, <1>2 DEF Init, QueueTypes
<1>4. AccountIsExact
  BY <1>1, <1>2 DEF Init, AccountIsExact
<1>5. PollTypes /\ ThreadTypes
  BY DEF Init, PollTypes, ThreadTypes
<1>6. Tokens /\ Writing /\ Announcing
  BY DEF Init, Tokens, Writing, Announcing
<1>7. QED
  BY <1>3, <1>4, <1>5, <1>6 DEF IInv, QueueInv, ThreadInv

(* Every step but the four on the queue leaves it alone.                   *)
LEMMA QueueSteps ==
  ASSUME IInv, Next
  PROVE  QueueInv'
<1> DEFINE Kept == UNCHANGED <<send_queue, queued_send_bytes, accepted, wire>>
<1>1. ASSUME NEW t \in Senders, Sender(t)
      PROVE  QueueInv'
  <2>1. ASSUME NEW c \in Conns, NEW n \in FrameSizes, EnqueueSend(t, c, n)
        PROVE  QueueInv'
    BY <2>1, Parts, EnqueueKeepsQueue DEF IInv, QueueInv, ThreadInv
  <2>2. ASSUME NEW c \in Conns, RequestClose(t, c)
        PROVE  QueueInv'
    BY <2>2, OthersKeepQueue DEF IInv, RequestClose, connVars, netVars
  <2>3. CASE SenderStep(t)
    BY <2>3, OthersKeepQueue
    DEF IInv, SenderStep, PendSend, MarkReactor, Wakeup, connVars, netVars
  <2>4. QED
    BY <1>1, <2>1, <2>2, <2>3 DEF Sender
<1>2. ASSUME NEW c \in Conns, ScheduleResume(c)
      PROVE  QueueInv'
  BY <1>2, OthersKeepQueue DEF IInv, ScheduleResume, connVars, netVars
<1>3. CASE Client
  BY <1>3, OthersKeepQueue
  DEF IInv, Client, ClientSends, ClientReads, ClientResets, connVars
<1>4. CASE Flusher
  BY <1>4, OthersKeepQueue
  DEF IInv, Flusher, FlushSwap, FlushWakes, FlushExits, connVars, netVars
<1>5. CASE Stopper
  BY <1>5, OthersKeepQueue
  DEF IInv, Stopper, StopFlusher, LastFlush, StopReactor, StopCloses, connVars, netVars
<1>6. CASE Reactor
  <2>1. CASE EpollWait \/ IdleScan \/ WakeEvent \/ ProcessPendingClose \/ SendSwap
              \/ NothingQueued
    BY <2>1, OthersKeepQueue
    DEF IInv, EpollWait, IdleScan, WakeEvent, ProcessPendingClose, SendSwap,
        NothingQueued, connVars, netVars
  <2>2. ASSUME NEW e \in fetched,
               StaleEvent(e) \/ HangUpEvent(e) \/ ReadEvent(e) \/ WriteEvent(e)
        PROVE  QueueInv'
    <3>1. Kept /\ UNCHANGED <<room, promised>>
      BY <2>2 DEF StaleEvent, HangUpEvent, ReadEvent, WriteEvent, connVars, netVars
    <3>2. QED
      BY <3>1, OthersKeepQueue DEF IInv
  <2>3. ASSUME NEW c \in Conns, Resume(c) \/ SendNext(c)
        PROVE  QueueInv'
    BY <2>3, OthersKeepQueue DEF IInv, Resume, SendNext, connVars, netVars
  <2>4. ASSUME NEW k \in 1 .. MaxQueued, TryWrite(k) \/ WriteFails(k)
        PROVE  QueueInv'
    BY <2>4, TryWriteKeepsQueue, WriteFailsKeepsQueue DEF IInv, ThreadInv
  <2>5. QED
    BY <1>6, <2>1, <2>2, <2>3, <2>4 DEF Reactor
<1>7. QED
  BY <1>1, <1>2, <1>3, <1>4, <1>5, <1>6 DEF Next

(* The invariant is inductive.                                             *)
LEMMA StepInv == IInv /\ [Next]_vars => IInv'
<1> SUFFICES ASSUME IInv, [Next]_vars
             PROVE  IInv'
  OBVIOUS
<1>1. CASE Next
  <2>1. ThreadInv'
    <3>1. CASE Client
      BY <3>1, ClientKeeps DEF IInv, Client
    <3>2. CASE Reactor
      BY <3>2, LoopKeeps, EventKeeps, BucketKeeps, TrySendKeeps DEF IInv, Reactor
    <3>3. ASSUME NEW c \in Conns, ScheduleResume(c)
          PROVE  ThreadInv'
      BY <3>3, ClientKeeps DEF IInv
    <3>4. QED
      BY <1>1, <3>1, <3>2, <3>3, SenderKeeps, FlusherKeeps, StopperKeeps DEF Next, IInv
  <2>2. QED
    BY <1>1, <2>1, QueueSteps DEF IInv
<1>2. CASE UNCHANGED vars
  <2>1. /\ UNCHANGED <<connVars, pollVars, netVars, shareVars, loopVars>>
        /\ UNCHANGED <<batchVars, sendVars, stopper>>
    BY <1>2 DEF vars
  <2>2. QueueInv'
    BY <2>1, OthersKeepQueue DEF IInv, connVars, netVars
  <2>3. PollTypes'
    BY <2>1 DEF IInv, ThreadInv, PollTypes, connVars, pollVars, netVars
  <2>4. ThreadTypes'
    BY <2>1 DEF IInv, ThreadInv, ThreadTypes, shareVars, loopVars, batchVars, sendVars
  <2>5. Tokens' /\ Writing' /\ Announcing'
    BY <2>1 DEF IInv, ThreadInv, Tokens, Writing, Announcing, WakeToken, connVars,
                loopVars, sendVars
  <2>6. QED
    BY <2>2, <2>3, <2>4, <2>5 DEF IInv, ThreadInv
<1>3. QED
  BY <1>1, <1>2

(* The invariant holds throughout.                                         *)
THEOREM Invariant == Spec => []IInv
BY InitInv, StepInv, PTL DEF Spec

(* Every variable keeps its type, for any number of connections.           *)
THEOREM TypeCorrect == Spec => []TypeOK
<1>1. IInv => TypeOK
  BY Parts DEF IInv, QueueInv, ThreadInv
<1>2. QED
  BY <1>1, Invariant, PTL

(* queued_send_bytes is always the length of the queue and never above     *)
(* max_send_queue_bytes: a partial write's put-back restores what the      *)
(* batch took (Reactor.cpp try_send).                                      *)
THEOREM AccountNeverDrifts == Spec => []AccountIsExact
<1>1. IInv => AccountIsExact
  BY DEF IInv, QueueInv
<1>2. QED
  BY <1>1, Invariant, PTL

---------------------------------------------------------------------------
(* Sending on c implements OrderedStream.                                  *)

(* enqueue_send puts in; a closed connection takes nothing.                *)
LEMMA EnqueueIsPut ==
  ASSUME IInv, NEW t \in Senders, NEW c \in Conns, NEW n \in FrameSizes,
         EnqueueSend(t, c, n)
  PROVE  /\ Stream(c)!Put
         /\ \A d \in Conns : d # c => send_queue'[d] = send_queue[d]
         /\ UNCHANGED <<wire, connected>>
<1> USE DEF IInv, QueueInv, QueueTypes
<1>1. n \in Nat /\ n # 0
  BY SendAssumption
<1>2. Units(c, n) \in Seq(1 .. MaxUnits) /\ Len(Units(c, n)) = n
  BY <1>1, NewUnits, Parts DEF EnqueueSend, ThreadInv
<1>3. send_queue[c] \in Seq(1 .. MaxUnits) /\ Len(send_queue[c]) \in Nat
  BY LenProperties
<1>4. /\ Len(send_queue[c] \o Units(c, n)) > Len(send_queue[c])
      /\ SubSeq(send_queue[c] \o Units(c, n), 1, Len(send_queue[c])) = send_queue[c]
  BY <1>1, <1>2, <1>3, Appends
<1>5. send_queue' = [send_queue EXCEPT ![c] = send_queue[c] \o Units(c, n)]
  BY DEF EnqueueSend
<1>6. UNCHANGED <<wire, connected>>
  BY DEF EnqueueSend
<1>8. connected[c]
  BY DEF EnqueueSend
<1>7. QED
  BY <1>4, <1>5, <1>6, <1>8 DEF Stream!Put

(* A write of n > 0 units moves them; a write of none changes nothing.     *)
LEMMA TryWriteIsMove ==
  ASSUME IInv, NEW c \in Conns, NEW k \in Nat, TryWrite(k), cur = c
  PROVE  /\ UNCHANGED connected
         /\ \/ Stream(c)!Move
            \/ send_queue'[c] = send_queue[c] /\ wire'[c] = wire[c]
         /\ \A d \in Conns : d # c => send_queue'[d] = send_queue[d] /\ wire'[d] = wire[d]
<1> USE DEF IInv, QueueInv, QueueTypes
<1> DEFINE n == IF k <= room[c] THEN k ELSE room[c]
           q == send_queue[c]
<1>1. k \in 1 .. Len(q) /\ SockBuf \in Nat
  BY SendAssumption DEF TryWrite
<1>2. Len(q) \in Nat /\ room[c] \in 0 .. SockBuf
  BY <1>1, LenProperties
<1>3. n \in 0 .. Len(q)
  BY <1>1, <1>2
<1> HIDE DEF n
<1>4. /\ send_queue' = [send_queue EXCEPT ![c] = SubSeq(q, n + 1, Len(q))]
      /\ wire' = [wire EXCEPT ![c] = wire[c] \o SubSeq(q, 1, n)]
      /\ UNCHANGED connected
  BY DEF TryWrite, Remainder, n
<1>5. /\ send_queue'[c] = SubSeq(q, n + 1, Len(q))
      /\ wire'[c] = wire[c] \o SubSeq(q, 1, n)
  BY <1>1, <1>4
<1>6. CASE n = 0
  <2>1. q \in Seq(1 .. MaxUnits) /\ wire[c] \in Seq(1 .. MaxUnits)
    BY <1>1
  <2>2. SubSeq(q, 1, Len(q)) = q /\ wire[c] \o SubSeq(q, 1, 0) = wire[c]
    BY <2>1, SplitsNothing
  <2>3. QED
    BY <1>1, <1>4, <1>5, <1>6, <2>2
<1>7. CASE n # 0
  <2>1. n \in 1 .. Len(q)
    BY <1>2, <1>3, <1>7
  <2>2. connected[c]
    BY DEF TryWrite, ThreadInv, Writing
  <2>3. Stream(c)!Move
    BY <1>4, <1>5, <2>1, <2>2 DEF Stream!Move
  <2>4. QED
    BY <1>1, <1>4, <2>3
<1>8. QED
  BY <1>6, <1>7

(* Everything else moves nothing; only a close, or a write that fails on   *)
(* the open connection, may lose what is queued.                           *)
LEMMA OthersOnlyBreak ==
  ASSUME IInv, Next,
         \A t \in Senders, c \in Conns, n \in FrameSizes : ~EnqueueSend(t, c, n),
         \A k \in 1 .. MaxQueued : ~TryWrite(k),
         NEW c \in Conns
  PROVE  [Stream(c)!Break]_<<send_queue[c], wire[c], connected[c]>>
<1> USE DEF IInv, ThreadInv
<1>1. wire' = wire
  BY DEF Next, Client, ClientSends, ClientReads, ClientResets, Flusher, FlushSwap,
         FlushWakes, FlushExits, Stopper, StopFlusher, LastFlush, StopReactor, StopCloses,
         Sender, SenderStep, RequestClose, PendSend, MarkReactor, Wakeup, ScheduleResume,
         Reactor, EpollWait, IdleScan, StaleEvent, HangUpEvent, ReadEvent, WriteEvent,
         NothingQueued, WriteFails, WakeEvent, ProcessPendingClose, SendSwap, Resume,
         SendNext, connVars
<1>2. connected'[c] \in BOOLEAN /\ connected[c] \in BOOLEAN
  BY StepInv DEF PollTypes
<1>3. connected'[c] => connected[c]
  BY <1>2 DEF Next, Client, ClientSends, ClientReads, ClientResets, Flusher, FlushSwap,
         FlushWakes, FlushExits, Stopper, StopFlusher, LastFlush, StopReactor, StopCloses,
         Sender, SenderStep, RequestClose, PendSend, MarkReactor, Wakeup, ScheduleResume,
         Reactor, EpollWait, IdleScan, StaleEvent, HangUpEvent, ReadEvent, WriteEvent,
         NothingQueued, WriteFails, WakeEvent, ProcessPendingClose, SendSwap, Resume,
         SendNext, connVars, HandleRead, CloseAll
<1> DEFINE Dropped(n) == send_queue'[c] = SubSeq(send_queue[c], n + 1, Len(send_queue[c]))
<1>4. \/ UNCHANGED send_queue
      \/ /\ connected[c] /\ ~connected'[c]
         /\ \E n \in 0 .. Len(send_queue[c]) : Dropped(n)
      \/ send_queue'[c] = send_queue[c]
  <2>1. ASSUME NEW k \in 1 .. MaxQueued, WriteFails(k), cur # c
        PROVE  send_queue'[c] = send_queue[c]
    BY <2>1 DEF WriteFails, QueueInv, QueueTypes
  <2>2. ASSUME NEW k \in 1 .. MaxQueued, WriteFails(k), cur = c
        PROVE  /\ connected[c] /\ ~connected'[c]
               /\ \E n \in 0 .. Len(send_queue[c]) : Dropped(n)
    <3>1. connected[c] /\ ~connected'[c]
      BY <2>2 DEF WriteFails, CloseAll, Writing
    <3>2. k \in 1 .. Len(send_queue[c]) /\ Dropped(k)
      BY <2>2 DEF WriteFails, QueueInv, QueueTypes
    <3>3. send_queue[c] \in Seq(1 .. MaxUnits) /\ Len(send_queue[c]) \in Nat
      BY LenProperties DEF QueueInv, QueueTypes
    <3>4. k \in 0 .. Len(send_queue[c])
      BY <3>2, <3>3
    <3>5. QED
      BY <3>1, <3>2, <3>4
  <2>3. UNCHANGED send_queue \/ \E k \in 1 .. MaxQueued : WriteFails(k)
    BY DEF Next, Client, ClientSends, ClientReads, ClientResets, Flusher, FlushSwap,
           FlushWakes, FlushExits, Stopper, StopFlusher, LastFlush, StopReactor,
           StopCloses, Sender, SenderStep, RequestClose, PendSend, MarkReactor, Wakeup,
           ScheduleResume, Reactor, EpollWait, IdleScan, StaleEvent, HangUpEvent,
           ReadEvent, WriteEvent, NothingQueued, WakeEvent, ProcessPendingClose,
           SendSwap, Resume, SendNext, connVars
  <2>4. QED
    BY <2>1, <2>2, <2>3
<1>5. send_queue'[c] = send_queue[c] => \E n \in 0 .. Len(send_queue[c]) : Dropped(n)
  <2>1. send_queue[c] \in Seq(1 .. MaxUnits) /\ Len(send_queue[c]) \in Nat
    BY LenProperties DEF QueueInv, QueueTypes
  <2>2. SubSeq(send_queue[c], 1, Len(send_queue[c])) = send_queue[c]
    BY <2>1, SubSeqFull
  <2>3. 0 \in 0 .. Len(send_queue[c]) /\ 0 + 1 = 1
    BY <2>1
  <2>4. QED
    BY <2>2, <2>3
<1>6. CASE connected'[c] = connected[c]
  BY <1>1, <1>4, <1>6
<1>7. CASE connected'[c] # connected[c]
  <2>1. connected[c] /\ ~connected'[c]
    BY <1>2, <1>3, <1>7
  <2>2. \E n \in 0 .. Len(send_queue[c]) : Dropped(n)
    BY <1>4, <1>5
  <2>3. Stream(c)!Break
    BY <1>1, <2>1, <2>2 DEF Stream!Break
  <2>4. QED
    BY <2>3
<1>8. QED
  BY <1>6, <1>7

(* Sending is an ordered byte stream: what enqueue_send accepted comes out *)
(* once and in order through every partial write and put-back, and only a  *)
(* connection that closes loses the rest.                                  *)
THEOREM SendingIsOrdered == Spec => IsOrderedStream
<1>1. Init => \A c \in Conns : Stream(c)!Init
  BY DEF Init, Stream!Init
<1>2. ASSUME IInv, [Next]_vars, NEW c \in Conns
      PROVE  [Stream(c)!Next]_<<send_queue[c], wire[c], connected[c]>>
  <2>1. ASSUME NEW t \in Senders, NEW d \in Conns, NEW n \in FrameSizes,
               EnqueueSend(t, d, n)
        PROVE  [Stream(c)!Next]_<<send_queue[c], wire[c], connected[c]>>
    BY <1>2, <2>1, EnqueueIsPut DEF Stream!Next
  <2>2. ASSUME NEW k \in 1 .. MaxQueued, TryWrite(k)
        PROVE  [Stream(c)!Next]_<<send_queue[c], wire[c], connected[c]>>
    <3>1. PICK d \in Conns : cur = d
      BY <1>2, <2>2 DEF IInv, ThreadInv, Writing, TryWrite
    <3>2. k \in Nat
      BY SendAssumption
    <3>3. QED
      BY <1>2, <2>2, <3>1, <3>2, TryWriteIsMove DEF Stream!Next
  <2>3. CASE /\ Next
             /\ \A t \in Senders, d \in Conns, n \in FrameSizes : ~EnqueueSend(t, d, n)
             /\ \A k \in 1 .. MaxQueued : ~TryWrite(k)
    BY <1>2, <2>3, OthersOnlyBreak DEF Stream!Next
  <2>4. CASE UNCHANGED vars
    BY <2>4 DEF vars, connVars
  <2>5. QED
    BY <1>2, <2>1, <2>2, <2>3, <2>4
<1>3. IInv /\ [Next]_vars =>
        [\A c \in Conns : [Stream(c)!Next]_<<send_queue[c], wire[c], connected[c]>>]_vars
  BY <1>2
<1>4. QED
  BY <1>1, <1>3, Invariant, PTL DEF Spec, IsOrderedStream

---------------------------------------------------------------------------
(* No queued frame is forgotten.                                           *)

(* What the event loop relies on while the server is up: a connection is   *)
(* written only inside try_send, no event is left when it waits again, and *)
(* only Server::stop clears running_.                                      *)
LoopInv ==
  /\ cur # None => loop = "send"
  /\ loop = "wait" => fetched = {}
  /\ stopper = "up" => running

LEMMA InitLoop == Init => LoopInv
BY DEF Init, LoopInv

(* One step of the Reactor keeps it, and so does everybody else.           *)
LEMMA LoopStep == IInv /\ LoopInv /\ [Next]_vars => LoopInv'
<1> SUFFICES ASSUME IInv, LoopInv, [Next]_vars PROVE LoopInv'
  OBVIOUS
<1> USE DEF LoopInv
<1>0. TypeOK /\ ThreadInv
  BY Parts DEF IInv, QueueInv, ThreadInv
<1>1. CASE UNCHANGED vars
  BY <1>1 DEF vars, loopVars, shareVars
<1>2. CASE Client \/ Flusher \/ Stopper
  BY <1>2 DEF Client, ClientSends, ClientReads, ClientResets, Flusher, FlushSwap, FlushWakes,
     FlushExits, Stopper, StopFlusher, LastFlush, StopReactor, StopCloses, Stage, loopVars,
     shareVars
<1>3. CASE (\E t \in Senders : Sender(t)) \/ (\E c \in Conns : ScheduleResume(c))
  BY <1>3 DEF Sender, SenderStep, EnqueueSend, RequestClose, PendSend, MarkReactor, Wakeup,
     ScheduleResume, loopVars, shareVars
<1>4. CASE EpollWait \/ IdleScan
  BY <1>4 DEF EpollWait, IdleScan, Loop, shareVars
<1>5. CASE \E e \in fetched : StaleEvent(e) \/ HangUpEvent(e) \/ ReadEvent(e) \/ WriteEvent(e)
  BY <1>5 DEF StaleEvent, HangUpEvent, ReadEvent, WriteEvent, Loop, shareVars
<1>6. CASE NothingQueued \/ \E k \in 1 .. MaxQueued : TryWrite(k) \/ WriteFails(k)
  BY <1>6 DEF NothingQueued, TryWrite, WriteFails, SendDone, Return, Loop, shareVars
<1>7. CASE WakeEvent \/ ProcessPendingClose \/ SendSwap
  BY <1>7 DEF WakeEvent, ProcessPendingClose, SendSwap, Loop
<1>8. CASE \E c \in Conns : Resume(c) \/ SendNext(c)
  BY <1>8 DEF Resume, SendNext, Loop, shareVars
<1>9. QED
  BY <1>1, <1>2, <1>3, <1>4, <1>5, <1>6, <1>7, <1>8 DEF Next, Reactor

(* A connection with frames that a mask written over has not lost.         *)
Waiting(c) == stopper = "up" /\ connected[c] /\ send_queue[c] # << >> /\ ~overwritten[c]

(* Whoever closes connections leaves the others' masks and posts alone.    *)
LEMMA CloseAllSpares ==
  ASSUME PollTypes, NEW S, CloseAll(S), NEW c \in Conns, connected'[c]
  PROVE  connected[c] /\ mask'[c] = mask[c] /\ posted'[c] = posted[c]
BY DEF CloseAll, PollTypes

(* A read keeps a connection waiting for room, or says that it did not.    *)
LEMMA HandleReadSpares ==
  ASSUME PollTypes, NEW r \in Conns, NEW m, HandleRead(r, m), NEW c \in Conns,
         connected'[c], ~overwritten'[c]
  PROVE  /\ connected[c] /\ ~overwritten[c] /\ posted'[c] = posted[c]
         /\ "out" \in mask[c] => "out" \in mask'[c]
<1>1. CASE gone[r] /\ CloseAll({r}) /\ UNCHANGED overwritten
  BY <1>1, CloseAllSpares
<1>2. CASE /\ UNCHANGED <<connected, posted>>
           /\ overwritten' = [overwritten EXCEPT ![r] = @ \/ "out" \in mask[r] \ m]
           /\ mask' = [mask EXCEPT ![r] = m]
  BY <1>2 DEF PollTypes
<1>3. CASE /\ UNCHANGED <<connected, posted>>
           /\ overwritten' = [overwritten EXCEPT ![r] = @ \/ "out" \in mask[r]]
           /\ mask' = [mask EXCEPT ![r] = {}]
  BY <1>3 DEF PollTypes
<1>4. QED
  BY <1>1, <1>2, <1>3 DEF HandleRead

(* The clients only add posts and room.                                    *)
LEMMA ClientRevisits ==
  ASSUME IInv, LoopInv, NEW c \in Conns, Waiting(c) => Visited(c), Client, Waiting(c)'
  PROVE  Visited(c)'
<1> USE DEF Waiting
<1>0. PollTypes /\ QueueTypes
  BY DEF IInv, ThreadInv, QueueInv
<1>1. UNCHANGED <<connVars, mask, shareVars, loopVars, batchVars, sendVars, stopper>>
  BY DEF Client, ClientSends, ClientReads, ClientResets
<1>2. Visited(c)
  BY <1>1 DEF connVars
<1>3. "out" \in mask[c] /\ (room[c] = 0 \/ posted[c]) => room'[c] = 0 \/ posted'[c]
  BY <1>0, <1>1 DEF Client, ClientSends, ClientReads, ClientResets, PollTypes, QueueTypes
<1>4. gone[c] => gone'[c]
  BY <1>0 DEF Client, ClientSends, ClientReads, ClientResets, PollTypes
<1>5. QED
  BY <1>1, <1>2, <1>3, <1>4 DEF Visited, WakeComing, shareVars, loopVars, batchVars, sendVars

(* A sender passes its frame on: pending_send_, the mark, the wake-up.     *)
LEMMA SenderRevisits ==
  ASSUME IInv, LoopInv, NEW c \in Conns, Waiting(c) => Visited(c), NEW t \in Senders, Sender(t),
         Waiting(c)'
  PROVE  Visited(c)'
<1> USE DEF Waiting
<1>0. PollTypes /\ QueueTypes /\ ThreadTypes /\ Announcing
  BY DEF IInv, ThreadInv, QueueInv
<1>a. pc \in [Senders -> {"idle", "pend", "mark", "wake"}]
      /\ target \in [Senders -> Conns \union {None}]
  BY <1>0 DEF ThreadTypes
<1>1. ASSUME NEW d \in Conns, NEW n \in FrameSizes, EnqueueSend(t, d, n) PROVE Visited(c)'
  <2>1. UNCHANGED <<connected, overwritten, pollVars, netVars, shareVars, loopVars, batchVars, stopper>>
        /\ pc[t] = "idle" /\ pc' = [pc EXCEPT ![t] = "pend"] /\ target' = [target EXCEPT ![t] = d]
    BY <1>1 DEF EnqueueSend, Goto
  <2>2. CASE d = c
    BY <1>a, <2>1, <2>2 DEF Visited
  <2>3. CASE d # c
    <3>1. send_queue'[c] = send_queue[c]
      BY <1>0, <1>1, <2>3 DEF EnqueueSend, QueueTypes
    <3>2. Visited(c)
      BY <2>1, <3>1
    <3>3. \A x \in Senders : pc[x] \in {"pend", "mark", "wake"}
             => pc'[x] = pc[x] /\ target'[x] = target[x]
      BY <1>a, <2>1
    <3>4. QED
      BY <2>1, <3>2, <3>3 DEF Visited, WakeComing, pollVars, netVars, shareVars, loopVars, batchVars
  <2>4. QED
    BY <2>2, <2>3
<1>2. CASE PendSend(t)
  <2>1. /\ UNCHANGED <<connVars, pollVars, netVars, woken, loopVars, batchVars, target, stopper>>
        /\ pc[t] = "pend" /\ pc' = [pc EXCEPT ![t] = "mark"]
        /\ pending_send' = pending_send \union {target[t]}
    BY <1>2 DEF PendSend, Goto
  <2>2. Visited(c)
    BY <2>1 DEF connVars
  <2>3. \A x \in Senders : x # t => pc'[x] = pc[x]
    BY <1>a, <2>1
  <2>4. pc'[t] = "mark"
    BY <1>a, <2>1
  <2>5. WakeComing'
    BY <2>4 DEF WakeComing
  <2>6. QED
    BY <2>1, <2>2, <2>3, <2>5 DEF Visited, pollVars, netVars, loopVars
<1>3. CASE MarkReactor(t)
  <2>1. /\ UNCHANGED <<connVars, pollVars, netVars, shareVars, loopVars, stopper>>
        /\ pc[t] = "mark" /\ pc' = [pc EXCEPT ![t] = "idle"] /\ target' = [target EXCEPT ![t] = None]
        /\ marked'
    BY <1>3 DEF MarkReactor, Goto
  <2>2. Visited(c)
    BY <2>1 DEF connVars
  <2>3. \A x \in Senders : pc[x] = "pend" => pc'[x] = pc[x] /\ target'[x] = target[x]
    BY <1>a, <2>1
  <2>4. WakeComing'
    BY <2>1 DEF WakeComing
  <2>5. QED
    BY <2>1, <2>2, <2>3, <2>4 DEF Visited, pollVars, netVars, loopVars, shareVars
<1>4. ASSUME NEW d \in Conns, RequestClose(t, d) PROVE Visited(c)'
  <2>1. /\ UNCHANGED <<connVars, pollVars, netVars, pending_send, woken, loopVars, batchVars, target, stopper>>
        /\ pc[t] = "idle" /\ pc' = [pc EXCEPT ![t] = "wake"]
    BY <1>4 DEF RequestClose, Goto
  <2>2. Visited(c)
    BY <2>1 DEF connVars
  <2>3. \A x \in Senders : pc[x] # "idle" => pc'[x] = pc[x]
    BY <1>a, <2>1
  <2>4. QED
    BY <2>1, <2>2, <2>3 DEF Visited, WakeComing, pollVars, netVars, loopVars, batchVars
<1>5. CASE Wakeup(t)
  <2>1. /\ UNCHANGED <<connVars, pollVars, netVars, pending_send, loopVars, batchVars, target, stopper>>
        /\ pc[t] = "wake" /\ pc' = [pc EXCEPT ![t] = "idle"] /\ woken'
    BY <1>5 DEF Wakeup, Goto
  <2>2. Visited(c)
    BY <2>1 DEF connVars
  <2>3. \A x \in Senders : pc[x] = "pend" => pc'[x] = pc[x]
    BY <1>a, <2>1
  <2>4. WakeComing'
    BY <2>1 DEF WakeComing
  <2>5. QED
    BY <2>1, <2>2, <2>3, <2>4 DEF Visited, pollVars, netVars, loopVars
<1>6. QED
  BY <1>1, <1>2, <1>3, <1>4, <1>5 DEF Sender, SenderStep

(* The flusher's hand passes the wake-up on; schedule_resume adds one; and *)
(* once Server::stop has begun nothing is promised any more.               *)
LEMMA OthersRevisit ==
  ASSUME IInv, LoopInv, NEW c \in Conns, Waiting(c) => Visited(c),
         Flusher \/ Stopper \/ (\E d \in Conns : ScheduleResume(d)), Waiting(c)'
  PROVE  Visited(c)'
<1> USE DEF Waiting
<1>1. CASE Flusher
  <2>1. UNCHANGED <<connVars, pollVars, netVars, pending_send, loopVars, sendVars, stopper>>
    BY <1>1 DEF Flusher, FlushSwap, FlushWakes, FlushExits, shareVars
  <2>2. Visited(c)
    BY <2>1 DEF connVars
  <2>3. WakeComing => WakeComing'
    BY <1>1 DEF Flusher, FlushSwap, FlushWakes, FlushExits, WakeComing, shareVars, loopVars, sendVars
  <2>4. QED
    BY <2>1, <2>2, <2>3 DEF Visited, pollVars, netVars, loopVars, sendVars
<1>2. CASE Stopper
  BY <1>2 DEF Stopper, StopFlusher, LastFlush, StopReactor, StopCloses, Stage
<1>3. ASSUME NEW d \in Conns, ScheduleResume(d) PROVE Visited(c)'
  <2>1. /\ UNCHANGED <<connVars, pollVars, netVars, pending_send, loopVars, sendVars, stopper>>
        /\ woken'
    BY <1>3 DEF ScheduleResume
  <2>2. Visited(c) /\ WakeComing'
    BY <2>1 DEF connVars, WakeComing
  <2>3. QED
    BY <2>1, <2>2 DEF Visited, pollVars, netVars, loopVars, sendVars
<1>4. QED
  BY <1>1, <1>2, <1>3

(* epoll_wait reports a post with the EPOLLOUT the mask asks for.          *)
LEMMA WaitRevisits ==
  ASSUME IInv, LoopInv, NEW c \in Conns, Waiting(c) => Visited(c), EpollWait \/ IdleScan,
         Waiting(c)'
  PROVE  Visited(c)'
<1> USE DEF Waiting
<1>0. PollTypes /\ QueueTypes /\ ThreadTypes /\ None \notin Conns
  BY SendAssumption DEF IInv, ThreadInv, QueueInv
<1>1. cur # c
  BY <1>0 DEF LoopInv, EpollWait, IdleScan
<1>2. CASE EpollWait
  <2>1. /\ UNCHANGED <<connVars, mask, netVars, shareVars, bucket, cur, batchVars, sendVars, stopper>>
        /\ loop = "wait" /\ fetched = {}
    BY <1>2 DEF EpollWait, LoopInv
  <2>2. Visited(c)
    BY <2>1 DEF connVars
  <2>3. WakeComing => WakeComing'
    BY <1>2, <2>1 DEF EpollWait, WakeComing, shareVars, batchVars, sendVars
  <2>4. CASE "out" \in mask[c] /\ posted[c] /\ room[c] # 0
    <3>1. room[c] > 0
      BY <1>0, <2>4, SendAssumption DEF QueueTypes
    <3>2. "out" \in Reported(c)
      BY <2>4, <3>1 DEF Reported
    <3>3. [tok |-> c, evs |-> Reported(c)] \in fetched'
      BY <1>2, <2>4, <3>2 DEF EpollWait
    <3>4. QED
      BY <3>2, <3>3 DEF Visited
  <2>5. CASE "out" \in mask[c] /\ room[c] = 0
    BY <2>1, <2>5 DEF Visited, netVars
  <2>6. CASE \/ \E t \in Senders : target[t] = c /\ pc[t] = "pend"
             \/ c \in pending_send /\ WakeComing
             \/ gone[c]
    BY <2>1, <2>3, <2>6 DEF Visited, netVars, sendVars, shareVars
  <2>7. QED
    BY <1>1, <2>1, <2>2, <2>4, <2>5, <2>6 DEF Visited
<1>3. CASE IdleScan
  <2>1. /\ UNCHANGED <<send_queue, overwritten, netVars, shareVars, fetched, bucket, cur,
                       batchVars, sendVars, stopper>>
        /\ loop \in {"wait", "events"} /\ fetched = {}
    BY <1>3 DEF IdleScan, LoopInv
  <2>2. connected[c] /\ mask'[c] = mask[c] /\ posted'[c] = posted[c]
    BY <1>0, <1>3, CloseAllSpares DEF IdleScan
  <2>3. Visited(c)
    BY <2>1, <2>2
  <2>4. WakeComing => WakeComing'
    BY <2>1 DEF WakeComing, shareVars, batchVars, sendVars
  <2>5. QED
    BY <1>1, <2>1, <2>2, <2>3, <2>4 DEF Visited, netVars, sendVars, shareVars
<1>4. QED
  BY <1>2, <1>3

(* An event with EPOLLOUT reaches try_send, after its EPOLLIN.             *)
LEMMA EventRevisits ==
  ASSUME IInv, LoopInv, NEW c \in Conns, Waiting(c) => Visited(c), NEW e \in fetched,
         StaleEvent(e) \/ HangUpEvent(e) \/ ReadEvent(e) \/ WriteEvent(e), Waiting(c)'
  PROVE  Visited(c)'
<1> USE DEF Waiting
<1>0. PollTypes /\ QueueTypes /\ ThreadTypes /\ Tokens /\ None \notin Conns
  BY SendAssumption DEF IInv, ThreadInv, QueueInv
<1>1. cur = None /\ loop = "events" /\ e # WakeToken /\ e.tok \in Conns /\ cur # c
  BY <1>0 DEF LoopInv, Tokens, StaleEvent, HangUpEvent, ReadEvent, WriteEvent
<1>2. WakeToken \in fetched => WakeToken \in fetched'
  BY <1>1 DEF StaleEvent, HangUpEvent, ReadEvent, WriteEvent
<1>3. CASE StaleEvent(e) \/ HangUpEvent(e)
  <2>1. /\ UNCHANGED <<send_queue, overwritten, netVars, shareVars, loop, bucket, cur, batchVars,
                       sendVars, stopper>>
        /\ fetched' = fetched \ {e}
    BY <1>3 DEF StaleEvent, HangUpEvent, connVars
  <2>2. connected[c] /\ mask'[c] = mask[c] /\ posted'[c] = posted[c] /\ e.tok # c
    <3>1. CASE StaleEvent(e)
      BY <3>1 DEF StaleEvent, connVars, pollVars
    <3>2. CASE HangUpEvent(e)
      <4>1. CloseAll({e.tok})
        BY <3>2 DEF HangUpEvent
      <4>2. connected[c] /\ mask'[c] = mask[c] /\ posted'[c] = posted[c]
        BY <1>0, <4>1, CloseAllSpares
      <4>3. QED
        BY <1>0, <4>1, <4>2 DEF CloseAll
    <3>3. QED
      BY <1>3, <3>1, <3>2
  <2>3. Visited(c)
    BY <2>1, <2>2
  <2>4. WakeComing => WakeComing'
    BY <1>1, <1>2, <2>1 DEF WakeComing, shareVars, batchVars, sendVars
  <2>5. QED
    BY <1>1, <2>1, <2>2, <2>3, <2>4 DEF Visited, netVars, sendVars, shareVars
<1>4. CASE ReadEvent(e)
  <2>1. /\ UNCHANGED <<send_queue, room, gone, pending_send, loop, bucket, cur, batchVars, sendVars, stopper>>
        /\ fetched' = (fetched \ {e}) \union
                        (IF "out" \in e.evs THEN {[e EXCEPT !.evs = {"out"}]} ELSE {})
    BY <1>4 DEF ReadEvent, connVars
  <2>2. /\ connected[c] /\ ~overwritten[c] /\ posted'[c] = posted[c]
        /\ "out" \in mask[c] => "out" \in mask'[c]
        /\ woken => woken'
    <3>1. CASE reading_paused[e.tok]
      BY <1>4, <3>1 DEF ReadEvent, connVars, pollVars
    <3>2. CASE ~reading_paused[e.tok]
      <4>1. HandleRead(e.tok, mask[e.tok])
        BY <1>4, <3>2 DEF ReadEvent
      <4>2. woken => woken'
        BY <4>1 DEF HandleRead
      <4>3. QED
        BY <1>0, <1>1, <4>1, <4>2, HandleReadSpares
    <3>3. QED
      BY <3>1, <3>2
  <2>3. Visited(c)
    BY <2>1, <2>2
  <2>4. WakeComing => WakeComing'
    BY <1>1, <1>2, <2>1, <2>2 DEF WakeComing, batchVars, sendVars
  <2>5. (\E x \in fetched : x.tok = c /\ "out" \in x.evs)
          => (\E x \in fetched' : x.tok = c /\ "out" \in x.evs)
    <3>1. SUFFICES ASSUME NEW x \in fetched, x.tok = c, "out" \in x.evs
                   PROVE  \E y \in fetched' : y.tok = c /\ "out" \in y.evs
      OBVIOUS
    <3>2. CASE x # e
      BY <2>1, <3>1, <3>2
    <3>3. CASE x = e
      <4>1. e \in [tok : Conns \union {None}, evs : SUBSET {"in", "out", "hup"}]
        BY <1>0 DEF ThreadTypes
      <4>2. [e EXCEPT !.evs = {"out"}].tok = c /\ "out" \in [e EXCEPT !.evs = {"out"}].evs
        BY <3>1, <3>3, <4>1
      <4>3. [e EXCEPT !.evs = {"out"}] \in fetched'
        BY <2>1, <3>1, <3>3
      <4>4. QED
        BY <4>2, <4>3
    <3>4. QED
      BY <3>2, <3>3
  <2>6. QED
    BY <1>1, <2>1, <2>2, <2>3, <2>4, <2>5 DEF Visited, sendVars
<1>5. CASE WriteEvent(e)
  <2>1. /\ UNCHANGED <<connVars, pollVars, netVars, shareVars, bucket, batchVars, sendVars, stopper>>
        /\ fetched' = fetched \ {e} /\ cur' = e.tok /\ loop' = "send"
    BY <1>5 DEF WriteEvent, Loop
  <2>2. Visited(c)
    BY <2>1 DEF connVars
  <2>3. WakeComing => WakeComing'
    BY <1>1, <1>2, <2>1 DEF WakeComing, shareVars, batchVars, sendVars
  <2>4. QED
    BY <1>1, <2>1, <2>2, <2>3 DEF Visited, pollVars, netVars, sendVars, shareVars
<1>6. QED
  BY <1>3, <1>4, <1>5

(* try_send leaves a connection with frames to EPOLLOUT, and every other   *)
(* connection to who was to visit it.                                      *)
LEMMA TrySendRevisits ==
  ASSUME IInv, LoopInv, NEW c \in Conns, Waiting(c) => Visited(c),
         NothingQueued \/ \E k \in 1 .. MaxQueued : TryWrite(k) \/ WriteFails(k), Waiting(c)'
  PROVE  Visited(c)'
<1> USE DEF Waiting
<1>0. PollTypes /\ QueueTypes /\ ThreadTypes /\ Writing
  BY DEF IInv, ThreadInv, QueueInv
<1>1. /\ loop = "send" /\ cur \in Conns
      /\ UNCHANGED <<gone, shareVars, fetched, bucket, batchVars, sendVars, stopper>>
  BY <1>0 DEF Writing, NothingQueued, TryWrite, WriteFails, netVars
<1>2. (loop' = "send" /\ cur' = cur) \/ (loop' = Return /\ cur' = None)
  BY <1>1 DEF NothingQueued, TryWrite, WriteFails, SendDone, Loop
<1>3. WakeComing => WakeComing'
  BY <1>1 DEF WakeComing, shareVars, batchVars, sendVars
<1>4. CASE cur # c
  <2>1. /\ connected[c] /\ mask'[c] = mask[c] /\ posted'[c] = posted[c] /\ room'[c] = room[c]
        /\ send_queue'[c] = send_queue[c] /\ overwritten'[c] = overwritten[c]
    <3>1. CASE NothingQueued
      BY <1>0, <1>4, <3>1 DEF NothingQueued, SendDone, ModEvent, connVars, netVars, PollTypes
    <3>2. ASSUME NEW k \in 1 .. MaxQueued, TryWrite(k)
          PROVE  /\ connected[c] /\ mask'[c] = mask[c] /\ posted'[c] = posted[c] /\ room'[c] = room[c]
                 /\ send_queue'[c] = send_queue[c] /\ overwritten'[c] = overwritten[c]
      <4>1. mask'[c] = mask[c] /\ posted'[c] = posted[c]
        BY <1>0, <1>4, <3>2 DEF TryWrite, SendDone, ModEvent, pollVars, PollTypes
      <4>2. connected[c] /\ overwritten'[c] = overwritten[c]
        BY <1>0, <1>4, <3>2 DEF TryWrite, PollTypes
      <4>3. room'[c] = room[c] /\ send_queue'[c] = send_queue[c]
        BY <1>0, <1>4, <3>2 DEF TryWrite, QueueTypes
      <4>4. QED
        BY <4>1, <4>2, <4>3
    <3>3. ASSUME NEW k \in 1 .. MaxQueued, WriteFails(k)
          PROVE  /\ connected[c] /\ mask'[c] = mask[c] /\ posted'[c] = posted[c] /\ room'[c] = room[c]
                 /\ send_queue'[c] = send_queue[c] /\ overwritten'[c] = overwritten[c]
      <4>1. CloseAll({cur})
        BY <3>3 DEF WriteFails
      <4>2. connected[c] /\ mask'[c] = mask[c] /\ posted'[c] = posted[c]
        BY <1>0, <4>1, CloseAllSpares
      <4>3. UNCHANGED <<room, overwritten>> /\ send_queue'[c] = send_queue[c]
        BY <1>0, <1>4, <3>3 DEF WriteFails, QueueTypes, netVars
      <4>4. QED
        BY <4>2, <4>3
    <3>4. QED
      BY <3>1, <3>2, <3>3
  <2>2. Visited(c)
    BY <1>1, <2>1
  <2>3. c \in bucket => loop' \in {"bucket", "send"}
    BY <1>2 DEF Return
  <2>4. QED
    BY <1>1, <1>3, <1>4, <2>1, <2>2, <2>3 DEF Visited, sendVars, shareVars
<1>5. CASE cur = c
  <2>1. CASE NothingQueued
    BY <1>5, <2>1 DEF NothingQueued, connVars
  <2>2. ASSUME NEW k \in 1 .. MaxQueued, WriteFails(k) PROVE FALSE
    BY <1>5, <2>2 DEF WriteFails, CloseAll
  <2>3. ASSUME NEW k \in 1 .. MaxQueued, TryWrite(k) PROVE Visited(c)'
    <3>1. CASE k <= room[c]
      <4>1. k <= room[cur]
        BY <1>5, <3>1
      <4>2. ~(k < k)
        OBVIOUS
      <4>3. cur' = cur
        BY <2>3, <4>1, <4>2 DEF TryWrite
      <4>4. QED
        BY <1>5, <4>3 DEF Visited
    <3>2. CASE ~(k <= room[c])
      <4>1. room[c] \in Nat /\ SockBuf \in Nat
        BY <1>0, SendAssumption DEF QueueTypes
      <4>2. room[c] < k
        BY <3>2, <4>1
      <4>3. room' = [room EXCEPT ![c] = @ - room[c]] /\ mask' = [mask EXCEPT ![c] = {"in", "out"}]
        BY <1>5, <2>3, <3>2, <4>2 DEF TryWrite, SendDone, ModEvent
      <4>4. room'[c] = 0
        BY <1>0, <4>1, <4>3 DEF QueueTypes
      <4>5. "out" \in mask'[c]
        BY <1>0, <4>3 DEF PollTypes
      <4>6. QED
        BY <4>4, <4>5 DEF Visited
    <3>3. QED
      BY <3>1, <3>2
  <2>4. QED
    BY <2>1, <2>2, <2>3
<1>6. QED
  BY <1>4, <1>5

(* A wake-up that was fetched ends in the swap of pending_send_.           *)
LEMMA WakeRevisits ==
  ASSUME IInv, LoopInv, NEW c \in Conns, Waiting(c) => Visited(c),
         WakeEvent \/ ProcessPendingClose \/ SendSwap, Waiting(c)'
  PROVE  Visited(c)'
<1> USE DEF Waiting
<1>0. PollTypes /\ QueueTypes /\ ThreadTypes /\ None \notin Conns
  BY SendAssumption DEF IInv, ThreadInv, QueueInv
<1>1. cur # c /\ loop \notin {"bucket", "send"}
  BY <1>0 DEF LoopInv, WakeEvent, ProcessPendingClose, SendSwap
<1>2. CASE WakeEvent
  <2>1. UNCHANGED <<connVars, pollVars, netVars, pending_send, bucket, cur, sendVars, stopper>>
    BY <1>2 DEF WakeEvent
  <2>2. running
    BY <2>1 DEF LoopInv
  <2>3. loop' = "closes" /\ fetched' = fetched \ {WakeToken}
    BY <1>2, <2>2 DEF WakeEvent, Loop
  <2>4. Visited(c)
    BY <2>1 DEF connVars
  <2>5. WakeComing'
    BY <2>3 DEF WakeComing
  <2>6. \A e \in fetched : e.tok = c => e # WakeToken
    BY <1>0 DEF WakeToken
  <2>7. QED
    BY <1>1, <2>1, <2>3, <2>4, <2>5, <2>6 DEF Visited, pollVars, netVars, sendVars
<1>3. CASE ProcessPendingClose
  <2>1. /\ UNCHANGED <<send_queue, overwritten, netVars, pending_send, fetched, cur, sendVars, stopper>>
        /\ loop' = "resumes" /\ CloseAll(pending_close)
    BY <1>3 DEF ProcessPendingClose, Loop
  <2>2. connected[c] /\ mask'[c] = mask[c] /\ posted'[c] = posted[c]
    BY <1>0, <2>1, CloseAllSpares
  <2>3. Visited(c)
    BY <2>1, <2>2
  <2>4. WakeComing'
    BY <2>1 DEF WakeComing
  <2>5. QED
    BY <1>1, <2>1, <2>2, <2>3, <2>4 DEF Visited, netVars, sendVars
<1>4. CASE SendSwap
  <2>1. /\ UNCHANGED <<connVars, pollVars, netVars, fetched, cur, sendVars, stopper>>
        /\ bucket' = pending_send /\ loop' = (IF pending_send # {} THEN "bucket" ELSE "events")
    BY <1>4 DEF SendSwap, Loop
  <2>2. Visited(c)
    BY <2>1 DEF connVars
  <2>3. QED
    BY <1>1, <2>1, <2>2 DEF Visited, pollVars, netVars, sendVars
<1>5. QED
  BY <1>2, <1>3, <1>4

(* Every member of a swapped bucket is visited.                            *)
LEMMA BucketRevisits ==
  ASSUME IInv, LoopInv, NEW c \in Conns, Waiting(c) => Visited(c), NEW d \in Conns,
         Resume(d) \/ SendNext(d), Waiting(c)'
  PROVE  Visited(c)'
<1> USE DEF Waiting
<1>0. PollTypes /\ QueueTypes /\ ThreadTypes /\ None \notin Conns
  BY SendAssumption DEF IInv, ThreadInv, QueueInv
<1>1. cur # c /\ cur = None
  BY <1>0 DEF LoopInv, Resume, SendNext
<1>2. CASE Resume(d)
  <2>1. /\ UNCHANGED <<send_queue, room, gone, pending_send, loop, fetched, cur, sendVars, stopper>>
        /\ loop = "resumes"
    BY <1>2 DEF Resume
  <2>2. /\ connected[c] /\ ~overwritten[c] /\ posted'[c] = posted[c]
        /\ "out" \in mask[c] => "out" \in mask'[c]
    <3>1. CASE connected[d]
      <4>1. HandleRead(d, {"in"})
        BY <1>2, <3>1 DEF Resume
      <4>2. QED
        BY <1>0, <4>1, HandleReadSpares
    <3>2. CASE ~connected[d]
      BY <1>2, <3>2 DEF Resume, pollVars
    <3>3. QED
      BY <3>1, <3>2
  <2>3. Visited(c)
    BY <2>1, <2>2
  <2>4. WakeComing'
    BY <2>1 DEF WakeComing
  <2>5. QED
    BY <1>1, <2>1, <2>2, <2>3, <2>4 DEF Visited, sendVars
<1>3. CASE SendNext(d)
  <2>1. /\ UNCHANGED <<connVars, pollVars, netVars, shareVars, fetched, batchVars, sendVars, stopper>>
        /\ loop = "bucket" /\ bucket' = bucket \ {d}
        /\ IF connected[d] THEN cur' = d /\ loop' = "send"
           ELSE loop' = (IF bucket' = {} THEN "events" ELSE "bucket")
    BY <1>3 DEF SendNext, Loop
  <2>2. Visited(c) /\ connected[c]
    BY <2>1 DEF connVars
  <2>3. WakeComing => WakeComing'
    BY <2>1 DEF WakeComing, shareVars, batchVars, sendVars
  <2>4. c \in bucket => cur' = c \/ (c \in bucket' /\ loop' \in {"bucket", "send"})
    BY <2>1, <2>2
  <2>5. QED
    BY <1>1, <2>1, <2>2, <2>3, <2>4 DEF Visited, pollVars, netVars, sendVars, shareVars
<1>4. QED
  BY <1>2, <1>3

LEMMA RevisitStep == IInv /\ LoopInv /\ QueuedIsRevisited /\ [Next]_vars => QueuedIsRevisited'
<1> SUFFICES ASSUME IInv, LoopInv, QueuedIsRevisited, [Next]_vars, NEW c \in Conns, Waiting(c)'
             PROVE  Visited(c)'
  BY DEF QueuedIsRevisited, Waiting
<1>0. Waiting(c) => Visited(c)
  BY DEF QueuedIsRevisited, Waiting
<1>1. CASE UNCHANGED vars
  <2>1. Visited(c)
    BY <1>0, <1>1 DEF Waiting, vars, connVars
  <2>2. QED
    BY <1>1, <2>1 DEF Visited, WakeComing, vars, connVars, pollVars, netVars, shareVars, loopVars,
       batchVars, sendVars
<1>2. CASE Client
  BY <1>0, <1>2, ClientRevisits
<1>3. ASSUME NEW t \in Senders, Sender(t) PROVE Visited(c)'
  BY <1>0, <1>3, SenderRevisits
<1>4. CASE Flusher \/ Stopper \/ \E d \in Conns : ScheduleResume(d)
  BY <1>0, <1>4, OthersRevisit
<1>5. CASE Reactor
  BY <1>0, <1>5, WaitRevisits, EventRevisits, TrySendRevisits, WakeRevisits, BucketRevisits
     DEF Reactor
<1>6. QED
  BY <1>1, <1>2, <1>3, <1>4, <1>5 DEF Next

(* Frames queued on an open connection always have somebody on the way to  *)
(* write them, until the server stops or a mask was written over: the      *)
(* announcement of the sender, the BatchSender's wake-up, the Reactor's    *)
(* bucket and EPOLLOUT leave no gap between them.                          *)
THEOREM NoQueuedFrameIsForgotten == Spec => []QueuedIsRevisited
<1>1. Init => QueuedIsRevisited
  BY DEF Init, QueuedIsRevisited
<1>2. QED
  BY <1>1, InitLoop, LoopStep, RevisitStep, Invariant, PTL DEF Spec
=============================================================================
