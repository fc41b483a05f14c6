------------------------------ MODULE SendPath ------------------------------
(***************************************************************************)
(* The sending half of one Reactor: business threads queue frames on       *)
(* connections and announce them (Reactor.cpp enqueue_send, send_function),*)
(* the BatchSender gathers the announcements and wakes the Reactor         *)
(* (BatchSender.cpp), the event loop writes what the kernel takes and      *)
(* waits for EPOLLOUT for the rest (try_send), connections close, and      *)
(* Server::stop ends first the BatchSender and then the Reactor.           *)
(*                                                                         *)
(* Bytes are units numbered in the order they were accepted; a frame is a  *)
(* few of them.  send_queue is the sequence of its units: where a frame or *)
(* a 64 KiB batch ends only decides how much one write() is offered, which *)
(* is any prefix here.  Reading is reduced to what it does to the epoll    *)
(* mask (ReadPath has the rest): a read consumes the input and may pause   *)
(* the connection, for which the mask is overwritten; both resume passes   *)
(* overwrite it again.                                                     *)
(***************************************************************************)
EXTENDS Naturals, Sequences, FiniteSets

CONSTANTS Conns,      \* connections of the Reactor
          Senders,    \* threads that call send_function and request_close
          FrameSizes, \* units a frame may have
          MaxQueued,  \* max_send_queue_bytes
          SockBuf,    \* units the kernel holds for a slow client
          MayPause,   \* connections the read path may pause
          MayClose,   \* connections that may be closed
          MayStop,    \* whether Server::stop may be called
          MaxUnits,   \* bound: units offered per connection
          None

ASSUME SendAssumption ==
  /\ FrameSizes \subseteq Nat \ {0} /\ MaxQueued \in Nat \ {0}
  /\ SockBuf \in Nat \ {0} /\ MaxUnits \in Nat
  /\ MayPause \subseteq Conns /\ MayClose \subseteq Conns /\ MayStop \in BOOLEAN
  /\ IsFiniteSet(Senders) /\ None \notin Conns

VARIABLES
  \* the connection: Internalconnection, and history of what was sent
  send_queue,        \* units queued, in order
  queued_send_bytes,
  connected,
  reading_paused,
  accepted,          \* history: how many units enqueue_send took
  promised,          \* history: accepted when flush_and_stop had returned
  wire,              \* history: the units the kernel took
  overwritten,       \* history: a pause or resume took EPOLLOUT from the mask
  \* the kernel's side of it
  mask,              \* subset of {"in", "out"}; errors are always reported
  posted,            \* on the epoll instance's ready list
  room,              \* units the socket's send buffer can take
  input,             \* the socket has something to read
  gone,              \* the client has reset the connection
  \* shared by the Reactor and other threads
  pending_send, pending_close, pending_resume,
  woken,             \* wake_fd_ is readable
  running,
  \* the Reactor's thread
  loop,              \* where event_loop is
  fetched,           \* events_ not handled yet: [tok, evs]
  bucket,            \* swapped-out pending_send_
  cur,               \* the connection try_send is writing on, under its mutex
  \* BatchSender: the Reactor is in pending_reactors_; running_; its thread
  marked, flushing, flusher,
  \* the other threads
  pc, target,        \* a sender's step and connection
  stopper

connVars  == <<send_queue, queued_send_bytes, connected, reading_paused,
               accepted, promised, wire, overwritten>>
pollVars  == <<mask, posted>>
netVars   == <<room, input, gone>>
shareVars == <<pending_send, pending_close, pending_resume, woken, running>>
loopVars  == <<loop, fetched, bucket, cur>>
batchVars == <<marked, flushing, flusher>>
sendVars  == <<pc, target>>
vars == <<connVars, pollVars, netVars, shareVars, loopVars, batchVars, sendVars, stopper>>

Init ==
  /\ send_queue = [c \in Conns |-> << >>]
  /\ queued_send_bytes = [c \in Conns |-> 0]
  /\ connected = [c \in Conns |-> TRUE]
  /\ reading_paused = [c \in Conns |-> FALSE]
  /\ accepted = [c \in Conns |-> 0]
  /\ promised = [c \in Conns |-> 0]
  /\ wire = [c \in Conns |-> << >>]
  /\ overwritten = [c \in Conns |-> FALSE]
  /\ mask = [c \in Conns |-> {"in"}]
  /\ posted = [c \in Conns |-> FALSE]
  /\ room = [c \in Conns |-> SockBuf]
  /\ input = [c \in Conns |-> FALSE]
  /\ gone = [c \in Conns |-> FALSE]
  /\ pending_send = {} /\ pending_close = {} /\ pending_resume = {}
  /\ woken = FALSE /\ running = TRUE
  /\ loop = "wait" /\ fetched = {} /\ bucket = {} /\ cur = None
  /\ marked = FALSE /\ flushing = TRUE /\ flusher = "wait"
  /\ pc = [t \in Senders |-> "idle"]
  /\ target = [t \in Senders |-> None]
  /\ stopper = "up"

---------------------------------------------------------------------------
(* epoll.  An edge-triggered item is reported once each time it is put on  *)
(* the ready list: by a change the mask asks for, or by EPOLL_CTL_MOD when *)
(* the new mask matches the present state.                                 *)
Reported(c) ==
  {e \in {"in", "out", "hup"} :
     \/ e = "in" /\ e \in mask[c] /\ input[c]
     \/ e = "out" /\ e \in mask[c] /\ room[c] > 0
     \/ e = "hup" /\ gone[c]}

\* mod_event: overwrites the mask.  r is the room left when it is called.
Modified(c, m, r) ==
  posted[c] \/ gone[c] \/ ("in" \in m /\ input[c]) \/ ("out" \in m /\ r > 0)

ModEvent(c, m, r) ==
  /\ mask' = [mask EXCEPT ![c] = m]
  /\ posted' = [posted EXCEPT ![c] = Modified(c, m, r)]

Loop(there) == loop' = there
Goto(t, there) == pc' = [pc EXCEPT ![t] = there]

---------------------------------------------------------------------------
(* The clients.                                                            *)
ClientSends(c) ==
  /\ connected[c] /\ ~input[c] /\ ~gone[c] /\ c \in MayPause
  /\ input' = [input EXCEPT ![c] = TRUE]
  /\ posted' = [posted EXCEPT ![c] = @ \/ "in" \in mask[c]]
  /\ UNCHANGED <<connVars, mask, room, gone, shareVars, loopVars, batchVars, sendVars, stopper>>

ClientReads(c) ==
  /\ connected[c] /\ room[c] < SockBuf
  /\ room' = [room EXCEPT ![c] = SockBuf]
  /\ posted' = [posted EXCEPT ![c] = @ \/ "out" \in mask[c]]
  /\ UNCHANGED <<connVars, mask, input, gone, shareVars, loopVars, batchVars, sendVars, stopper>>

ClientResets(c) ==
  /\ connected[c] /\ ~gone[c] /\ c \in MayClose
  /\ gone' = [gone EXCEPT ![c] = TRUE]
  /\ posted' = [posted EXCEPT ![c] = TRUE]
  /\ UNCHANGED <<connVars, mask, room, input, shareVars, loopVars, batchVars, sendVars, stopper>>

---------------------------------------------------------------------------
(* A business thread: send_function and request_close.                     *)
Units(c, n) == [i \in 1 .. n |-> accepted[c] + i]

\* enqueue_send, under send_mutex (which try_send holds while it writes).
EnqueueSend(t, c, n) ==
  /\ pc[t] = "idle" /\ cur # c
  /\ accepted[c] + n <= MaxUnits
  /\ connected[c] /\ queued_send_bytes[c] + n <= MaxQueued
  /\ send_queue' = [send_queue EXCEPT ![c] = @ \o Units(c, n)]
  /\ queued_send_bytes' = [queued_send_bytes EXCEPT ![c] = @ + n]
  /\ accepted' = [accepted EXCEPT ![c] = @ + n]
  /\ target' = [target EXCEPT ![t] = c]
  /\ Goto(t, "pend")
  /\ UNCHANGED <<connected, reading_paused, promised, wire, overwritten, pollVars,
                 netVars, shareVars, loopVars, batchVars, stopper>>

PendSend(t) ==
  /\ pc[t] = "pend"
  /\ pending_send' = pending_send \union {target[t]}
  /\ Goto(t, "mark")
  /\ UNCHANGED <<connVars, pollVars, netVars, pending_close, pending_resume, woken,
                 running, loopVars, batchVars, target, stopper>>

(* mark_reactor.  The notification it may send only shortens the flusher's *)
(* timed wait.                                                             *)
MarkReactor(t) ==
  /\ pc[t] = "mark"
  /\ marked' = TRUE
  /\ Goto(t, "idle")
  /\ target' = [target EXCEPT ![t] = None]
  /\ UNCHANGED <<connVars, pollVars, netVars, shareVars, loopVars, flushing, flusher, stopper>>

RequestClose(t, c) ==
  /\ pc[t] = "idle" /\ c \in MayClose /\ c \notin pending_close /\ connected[c]
  /\ pending_close' = pending_close \union {c}
  /\ Goto(t, "wake")
  /\ UNCHANGED <<connVars, pollVars, netVars, pending_send, pending_resume, woken,
                 running, loopVars, batchVars, target, stopper>>

Wakeup(t) ==
  /\ pc[t] = "wake"
  /\ woken' = TRUE
  /\ Goto(t, "idle")
  /\ UNCHANGED <<connVars, pollVars, netVars, pending_send, pending_close, pending_resume,
                 running, loopVars, batchVars, target, stopper>>

(* A worker or the drain thread: schedule_resume, whose bucket and wake-up *)
(* ReadPath takes apart.  Either the connection is paused, or a worker's   *)
(* task ends after its window was full: then it was never paused, and the  *)
(* resume rewrites its mask all the same.                                  *)
ScheduleResume(c) ==
  /\ reading_paused[c] \/ c \in MayPause
  /\ connected[c] /\ c \notin pending_resume
  /\ pending_resume' = pending_resume \union {c}
  /\ woken' = TRUE
  /\ UNCHANGED <<connVars, pollVars, netVars, pending_send, pending_close, running,
                 loopVars, batchVars, sendVars, stopper>>

---------------------------------------------------------------------------
(* BatchSender's thread: the timed wait ends, by the notification or by    *)
(* itself, and the set is swapped; without a Reactor in it the loop is at  *)
(* its test of running_ again.                                             *)
FlushSwap ==
  /\ flusher = "wait" /\ marked
  /\ marked' = FALSE /\ flusher' = "wake"
  /\ UNCHANGED <<connVars, pollVars, netVars, shareVars, loopVars, flushing, sendVars, stopper>>

FlushWakes ==
  /\ flusher = "wake"
  /\ woken' = TRUE
  /\ flusher' = IF flushing THEN "wait" ELSE "exited"
  /\ UNCHANGED <<connVars, pollVars, netVars, pending_send, pending_close, pending_resume,
                 running, loopVars, marked, flushing, sendVars, stopper>>

FlushExits ==
  /\ flusher = "wait" /\ ~flushing
  /\ flusher' = "exited"
  /\ UNCHANGED <<connVars, pollVars, netVars, shareVars, loopVars, marked, flushing,
                 sendVars, stopper>>

---------------------------------------------------------------------------
(* The Reactor's event loop.                                               *)
WakeToken == [tok |-> None, evs |-> {"in"}]

\* epoll_wait returns what is ready; wake_fd_ is level-triggered.
EpollWait ==
  /\ loop = "wait"
  /\ woken \/ \E c \in Conns : posted[c]
  /\ fetched' = {[tok |-> c, evs |-> Reported(c)] :
                   c \in {x \in Conns : posted[x] /\ Reported(x) # {}}}
                \union (IF woken THEN {WakeToken} ELSE {})
  /\ posted' = [c \in Conns |-> FALSE]
  /\ Loop("events")
  /\ UNCHANGED <<connVars, mask, netVars, shareVars, bucket, cur, batchVars, sendVars, stopper>>

\* close_client: out of connections_ and out of the epoll instance.
CloseAll(S) ==
  /\ connected' = [c \in Conns |-> connected[c] /\ c \notin S]
  /\ posted' = [c \in Conns |-> posted[c] /\ c \notin S]
  /\ mask' = [c \in Conns |-> IF c \in S THEN {} ELSE mask[c]]

(* handle_read on c, entered with mask m: read() fails on a reset client;  *)
(* or the socket is drained; or a message is refused and the connection is *)
(* paused (mask 0), for a divide retry with a resume of the Reactor's own. *)
HandleRead(c, m) ==
  \/ /\ gone[c]
     /\ CloseAll({c})
     /\ UNCHANGED <<reading_paused, overwritten, input, pending_resume, woken>>
  \/ /\ ~gone[c]
     /\ input' = [input EXCEPT ![c] = FALSE]
     /\ reading_paused' = [reading_paused EXCEPT ![c] = FALSE]
     /\ overwritten' = [overwritten EXCEPT ![c] = @ \/ "out" \in mask[c] \ m]
     /\ mask' = [mask EXCEPT ![c] = m]
     /\ UNCHANGED <<connected, posted, pending_resume, woken>>
  \/ /\ ~gone[c] /\ input[c] /\ c \in MayPause
     /\ reading_paused' = [reading_paused EXCEPT ![c] = TRUE]
     /\ overwritten' = [overwritten EXCEPT ![c] = @ \/ "out" \in mask[c]]
     /\ mask' = [mask EXCEPT ![c] = {}]
     /\ \/ UNCHANGED <<pending_resume, woken>>
        \/ pending_resume' = pending_resume \union {c} /\ woken' = TRUE
     /\ UNCHANGED <<connected, posted, input>>

\* An event of a connection no longer in connections_ is skipped.
StaleEvent(e) ==
  /\ loop = "events" /\ e \in fetched /\ e # WakeToken /\ ~connected[e.tok]
  /\ fetched' = fetched \ {e}
  /\ UNCHANGED <<connVars, pollVars, netVars, shareVars, loop, bucket, cur, batchVars,
                 sendVars, stopper>>

HangUpEvent(e) ==
  /\ loop = "events" /\ e \in fetched /\ e # WakeToken /\ connected[e.tok] /\ "hup" \in e.evs
  /\ CloseAll({e.tok})
  /\ fetched' = fetched \ {e}
  /\ UNCHANGED <<send_queue, queued_send_bytes, reading_paused, accepted, promised, wire,
                 overwritten, netVars, shareVars, loop, bucket, cur, batchVars, sendVars, stopper>>

\* EPOLLIN first; the EPOLLOUT of the same event is handled after it.
ReadEvent(e) ==
  /\ loop = "events" /\ e \in fetched /\ e # WakeToken /\ connected[e.tok]
  /\ "in" \in e.evs /\ "hup" \notin e.evs
  /\ fetched' = (fetched \ {e}) \union
                  (IF "out" \in e.evs THEN {[e EXCEPT !.evs = {"out"}]} ELSE {})
  /\ IF reading_paused[e.tok]
     THEN UNCHANGED <<connVars, pollVars, input, pending_resume, woken>>
     ELSE /\ HandleRead(e.tok, mask[e.tok])
          /\ UNCHANGED <<send_queue, queued_send_bytes, accepted, promised, wire>>
  /\ UNCHANGED <<room, gone, pending_send, pending_close, running, loop, bucket, cur,
                 batchVars, sendVars, stopper>>

\* Slip: EPOLLOUT is left to the next EPOLLIN of the connection.
WriteEvent_Skips(e) ==
  /\ loop = "events" /\ e \in fetched /\ e # WakeToken /\ connected[e.tok]
  /\ e.evs = {"out"}
  /\ fetched' = fetched \ {e}
  /\ UNCHANGED <<connVars, pollVars, netVars, shareVars, loop, cur, bucket, batchVars,
                 sendVars, stopper>>

WriteEvent(e) ==
  /\ loop = "events" /\ e \in fetched /\ e # WakeToken /\ connected[e.tok]
  /\ e.evs = {"out"}
  /\ fetched' = fetched \ {e}
  /\ cur' = e.tok /\ Loop("send")
  /\ UNCHANGED <<connVars, pollVars, netVars, shareVars, bucket, batchVars, sendVars, stopper>>

\* Slip: running_ is not looked at.
IdleScan_RunsOn ==
  /\ \/ loop = "events" /\ fetched = {}
     \/ loop = "wait" /\ ~woken /\ \A c \in Conns : ~posted[c]
  /\ \E S \in SUBSET {c \in MayClose : connected[c]} : CloseAll(S)
  /\ Loop("wait")
  /\ UNCHANGED <<send_queue, queued_send_bytes, reading_paused, accepted, promised, wire,
                 overwritten, netVars, shareVars, fetched, bucket, cur, batchVars, sendVars, stopper>>

(* All events are handled, or none came for five seconds: connections      *)
(* silent for too long are closed, and the loop goes on while running_.    *)
IdleScan ==
  /\ \/ loop = "events" /\ fetched = {}
     \/ loop = "wait" /\ ~woken /\ \A c \in Conns : ~posted[c]
  /\ \E S \in SUBSET {c \in MayClose : connected[c]} : CloseAll(S)
  /\ Loop(IF running THEN "wait" ELSE "exited")
  /\ UNCHANGED <<send_queue, queued_send_bytes, reading_paused, accepted, promised, wire,
                 overwritten, netVars, shareVars, fetched, bucket, cur, batchVars, sendVars, stopper>>

---------------------------------------------------------------------------
(* try_send on cur, one write() per step, under send_mutex.                *)
Return == IF bucket # {} THEN "bucket" ELSE "events"

\* Slip: EPOLLOUT is not asked for when the kernel's buffer is full.
SendDone_NeverArms(c, left, blocked, r) ==
  /\ IF left = << >> THEN ModEvent(c, {"in"}, r) ELSE UNCHANGED pollVars
  /\ cur' = None /\ Loop(Return)

\* The loop ends: the mask waits for room, or no longer.  r is the room left.
SendDone(c, left, blocked, r) ==
  /\ ModEvent(c, IF blocked THEN {"in", "out"} ELSE {"in"}, r)
  /\ cur' = None /\ Loop(Return)

\* The queue is empty, at once or after the writes.
NothingQueued ==
  /\ loop = "send" /\ send_queue[cur] = << >>
  /\ SendDone(cur, << >>, FALSE, room[cur])
  /\ UNCHANGED <<connVars, netVars, shareVars, fetched, bucket, batchVars, sendVars, stopper>>

\* Slip: after a partial write the whole batch returns.
Remainder_Whole(q, k, n) == IF n < k THEN q ELSE SubSeq(q, n + 1, Len(q))
\* Of the first k units of q the kernel took n; the others return to the front.
Remainder(q, k, n) == SubSeq(q, n + 1, Len(q))

\* Slip: what returns to the queue is not counted again.
Recounted_Once(bytes, k, n) == bytes - k
\* A batch is no longer counted when it leaves, its rest again when it returns.
Recounted(bytes, k, n) == (bytes - k) + (k - n)

TryWrite(k) ==
  LET c == cur
      n == IF k <= room[c] THEN k ELSE room[c]
      left == Remainder(send_queue[c], k, n)
  IN /\ loop = "send" /\ k \in 1 .. Len(send_queue[c]) /\ ~gone[c]
     /\ wire' = [wire EXCEPT ![c] = @ \o SubSeq(send_queue[c], 1, n)]
     /\ send_queue' = [send_queue EXCEPT ![c] = left]
     /\ queued_send_bytes' = [queued_send_bytes EXCEPT ![c] = Recounted(@, k, n)]
     /\ room' = [room EXCEPT ![c] = @ - n]
     /\ IF n < k THEN SendDone(c, left, TRUE, room[c] - n)
                 ELSE UNCHANGED <<pollVars, cur, loop>>
     /\ overwritten' = [overwritten EXCEPT ![c] = FALSE]
     /\ UNCHANGED <<connected, reading_paused, accepted, promised, input, gone,
                    shareVars, fetched, bucket, batchVars, sendVars, stopper>>

\* write() fails: the batch is lost and the connection closed.
WriteFails(k) ==
  LET c == cur
  IN /\ loop = "send" /\ k \in 1 .. Len(send_queue[c]) /\ gone[c]
     /\ send_queue' = [send_queue EXCEPT ![c] = SubSeq(@, k + 1, Len(@))]
     /\ queued_send_bytes' = [queued_send_bytes EXCEPT ![c] = @ - k]
     /\ CloseAll({c})
     /\ cur' = None /\ Loop(Return)
     /\ UNCHANGED <<reading_paused, accepted, promised, wire, overwritten, netVars,
                    shareVars, fetched, bucket, batchVars, sendVars, stopper>>

---------------------------------------------------------------------------
(* The branch of wake_fd_: closes, resumes, then the sends.                *)
\* The eventfd is read; a Reactor told to stop leaves everything else alone.
WakeEvent ==
  /\ loop = "events" /\ WakeToken \in fetched
  /\ woken' = FALSE
  /\ IF running THEN Loop("closes") /\ fetched' = fetched \ {WakeToken}
     ELSE Loop("events") /\ fetched' = {}
  /\ UNCHANGED <<connVars, pollVars, netVars, pending_send, pending_close, pending_resume,
                 running, bucket, cur, batchVars, sendVars, stopper>>

(* process_pending_close, then process_pending_resume and                  *)
(* process_divide_retry, taken as one bucket.                              *)
ProcessPendingClose ==
  /\ loop = "closes"
  /\ CloseAll(pending_close) /\ pending_close' = {}
  /\ bucket' = pending_resume /\ pending_resume' = {}
  /\ Loop("resumes")
  /\ UNCHANGED <<send_queue, queued_send_bytes, reading_paused, accepted, promised, wire,
                 overwritten, netVars, pending_send, woken, running, fetched,
                 cur, batchVars, sendVars, stopper>>

\* Un-pause, overwrite the mask with EPOLLIN, read.
Resume(c) ==
  /\ loop = "resumes" /\ c \in bucket
  /\ bucket' = bucket \ {c}
  /\ IF connected[c] THEN HandleRead(c, {"in"})
     ELSE UNCHANGED <<connected, reading_paused, overwritten, pollVars, input,
                      pending_resume, woken>>
  /\ UNCHANGED <<send_queue, queued_send_bytes, accepted, promised, wire, room, gone,
                 pending_send, pending_close, running, loop, fetched, cur, batchVars,
                 sendVars, stopper>>

SendSwap ==
  /\ loop = "resumes" /\ bucket = {}
  /\ bucket' = pending_send /\ pending_send' = {}
  /\ Loop(IF pending_send # {} THEN "bucket" ELSE "events")
  /\ UNCHANGED <<connVars, pollVars, netVars, pending_close, pending_resume, woken,
                 running, fetched, cur, batchVars, sendVars, stopper>>

SendNext(c) ==
  /\ loop = "bucket" /\ c \in bucket
  /\ bucket' = bucket \ {c}
  /\ IF connected[c] THEN cur' = c /\ Loop("send")
     ELSE UNCHANGED cur /\ Loop(IF bucket' = {} THEN "events" ELSE "bucket")
  /\ UNCHANGED <<connVars, pollVars, netVars, shareVars, fetched, batchVars, sendVars, stopper>>

---------------------------------------------------------------------------
(* Server::stop: flush_and_stop, then Reactor::stop.                       *)
Stage(from, to) == stopper = from /\ stopper' = to

StopFlusher ==
  /\ MayStop /\ Stage("up", "join flusher")
  /\ flushing' = FALSE
  /\ UNCHANGED <<connVars, pollVars, netVars, shareVars, loopVars, marked, flusher, sendVars>>

\* The thread is joined; what is still marked is woken.
LastFlush ==
  /\ Stage("join flusher", "stop") /\ flusher = "exited"
  /\ woken' = (woken \/ marked) /\ marked' = FALSE
  /\ promised' = [c \in Conns |-> IF \E t \in Senders : target[t] = c THEN 0 ELSE accepted[c]]
  /\ UNCHANGED <<send_queue, queued_send_bytes, connected, reading_paused, accepted, wire,
                 overwritten, pollVars, netVars, pending_send, pending_close, pending_resume,
                 running, loopVars, flushing, flusher, sendVars>>

\* running_ = false, then the wake-up.
StopReactor ==
  /\ Stage("stop", "join")
  /\ running' = FALSE /\ woken' = TRUE
  /\ UNCHANGED <<connVars, pollVars, netVars, pending_send, pending_close, pending_resume,
                 loopVars, batchVars, sendVars>>

\* The event thread is joined and every connection left is closed.
StopCloses ==
  /\ Stage("join", "done") /\ loop = "exited"
  /\ CloseAll(Conns)
  /\ UNCHANGED <<send_queue, queued_send_bytes, reading_paused, accepted, promised, wire,
                 overwritten, netVars, shareVars, loopVars, batchVars, sendVars>>

---------------------------------------------------------------------------
Client == \E c \in Conns : ClientSends(c) \/ ClientReads(c) \/ ClientResets(c)
SenderStep(t) == PendSend(t) \/ MarkReactor(t) \/ Wakeup(t)
Sender(t) == \/ \E c \in Conns, n \in FrameSizes : EnqueueSend(t, c, n)
             \/ \E c \in Conns : RequestClose(t, c)
             \/ SenderStep(t)
Flusher == FlushSwap \/ FlushWakes \/ FlushExits
Reactor ==
  \/ EpollWait \/ IdleScan
  \/ \E e \in fetched : StaleEvent(e) \/ HangUpEvent(e) \/ ReadEvent(e) \/ WriteEvent(e)
  \/ NothingQueued
  \/ \E k \in 1 .. MaxQueued : TryWrite(k) \/ WriteFails(k)
  \/ WakeEvent \/ ProcessPendingClose \/ SendSwap
  \/ \E c \in Conns : Resume(c) \/ SendNext(c)
Stopper == StopFlusher \/ LastFlush \/ StopReactor \/ StopCloses

Next == \/ Client \/ Flusher \/ Reactor \/ Stopper
        \/ \E t \in Senders : Sender(t)
        \/ \E c \in Conns : ScheduleResume(c)

(* The threads keep running, an open client reads on, a paused connection  *)
(* is resumed, and Server::stop, once begun, goes on.  Nobody has to send, *)
(* to close or to stop anything.                                           *)
Fairness ==
  /\ WF_vars(Reactor) /\ WF_vars(Flusher)
  /\ \A t \in Senders : WF_vars(SenderStep(t))
  /\ \A c \in Conns : WF_vars(ClientReads(c)) /\ WF_vars(reading_paused[c] /\ ScheduleResume(c))
  /\ WF_vars(Stopper /\ stopper # "up")

Spec == Init /\ [][Next]_vars /\ Fairness

---------------------------------------------------------------------------
(* Properties.                                                             *)

(* Every variable keeps its type.                                          *)
TypeOK ==
  /\ send_queue \in [Conns -> Seq(1 .. MaxUnits)]
  /\ queued_send_bytes \in [Conns -> 0 .. MaxQueued]
  /\ connected \in [Conns -> BOOLEAN] /\ reading_paused \in [Conns -> BOOLEAN]
  /\ accepted \in [Conns -> 0 .. MaxUnits] /\ promised \in [Conns -> 0 .. MaxUnits]
  /\ wire \in [Conns -> Seq(1 .. MaxUnits)] /\ overwritten \in [Conns -> BOOLEAN]
  /\ mask \in [Conns -> SUBSET {"in", "out"}] /\ posted \in [Conns -> BOOLEAN]
  /\ room \in [Conns -> 0 .. SockBuf]
  /\ input \in [Conns -> BOOLEAN] /\ gone \in [Conns -> BOOLEAN]
  /\ pending_send \in SUBSET Conns /\ pending_close \in SUBSET Conns
  /\ pending_resume \in SUBSET Conns
  /\ woken \in BOOLEAN /\ running \in BOOLEAN
  /\ loop \in {"wait", "events", "send", "bucket", "closes", "resumes", "exited"}
  /\ fetched \in SUBSET [tok : Conns \union {None}, evs : SUBSET {"in", "out", "hup"}]
  /\ bucket \in SUBSET Conns /\ cur \in Conns \union {None}
  /\ marked \in BOOLEAN /\ flushing \in BOOLEAN
  /\ flusher \in {"wait", "wake", "exited"}
  /\ pc \in [Senders -> {"idle", "pend", "mark", "wake"}]
  /\ target \in [Senders -> Conns \union {None}]
  /\ stopper \in {"up", "join flusher", "stop", "join", "done"}

(* queued_send_bytes, which enqueue_send tests against its limit, is what  *)
(* is in the queue, whatever partial writes and put-backs came before, and *)
(* no put-back exceeds the limit.                                          *)
AccountIsExact ==
  \A c \in Conns : /\ queued_send_bytes[c] = Len(send_queue[c])
                   /\ queued_send_bytes[c] <= MaxQueued

\* Somebody is on the way to wake the Reactor, or it has not swapped yet.
WakeComing ==
  \/ woken \/ marked \/ flusher = "wake"
  \/ \E t \in Senders : pc[t] \in {"mark", "wake"}
  \/ WakeToken \in fetched
  \/ loop \in {"closes", "resumes"}

\* Somebody will call try_send for c.
Visited(c) ==
  \/ \E t \in Senders : target[t] = c /\ pc[t] = "pend"
  \/ c \in pending_send /\ WakeComing
  \/ c \in bucket /\ loop \in {"bucket", "send"}
  \/ cur = c
  \/ "out" \in mask[c] /\ (room[c] = 0 \/ posted[c])
  \/ gone[c]
  \/ \E e \in fetched : e.tok = c /\ "out" \in e.evs

(* Until the server stops, frames queued on an open connection are never   *)
(* forgotten: a thread, a bucket, a wake-up or an EPOLLOUT will bring the  *)
(* Reactor to write them - unless a pause or resume overwrote the mask.    *)
QueuedIsRevisited ==
  \A c \in Conns : stopper = "up" /\ connected[c] /\ send_queue[c] # << >> /\ ~overwritten[c]
                     => Visited(c)

(* Sending on a connection is an ordered byte stream: every step of the    *)
(* threads puts in, moves or breaks as OrderedStream allows.               *)
Stream(c) == INSTANCE OrderedStream WITH
  pipe <- send_queue[c], out <- wire[c], open <- connected[c]
IsOrderedStream ==
  /\ \A c \in Conns : Stream(c)!Init
  /\ [][\A c \in Conns : [Stream(c)!Next]_<<send_queue[c], wire[c], connected[c]>>]_vars

(* What a connection accepted reaches its client unless the connection is  *)
(* closed, a pause overwrote the mask, or the server stops.                *)
AcceptedIsWritten ==
  \A c \in Conns : send_queue[c] # << >>
    ~> send_queue[c] = << >> \/ ~connected[c] \/ overwritten[c] \/ stopper # "up"

(* Server::stop gets through the BatchSender and the Reactor whatever the  *)
(* other threads do.                                                       *)
StopEnds == stopper # "up" ~> stopper = "done"

(* What was accepted and marked when flush_and_stop returned is written    *)
(* before the socket of a client that has room is closed (the comment at   *)
(* BatchSender.cpp:30).                                                    *)
LastFlushIsWritten ==
  [][stopper' = "done" /\ stopper # "done" =>
       \A c \in Conns : connected[c] /\ room[c] > 0 => Len(wire[c]) >= promised[c]]_vars
=============================================================================
