# server_framework: TLA+ models, checks and proofs

A C++ server framework (`src/aggregation`): an Acceptor and N Reactors (epoll, edge
triggered) in front of a *divide* pool, a *work* pool and a *DB* pool, with C++20
coroutines for database calls, two levels of back pressure, and a registry through which
business code addresses other connections. This directory holds TLA+ models of it, TLC
runs on small instances and TLAPS proofs for all sizes. All paths below are relative to
the repository; `src/` is left out, and file names without a directory are under
`aggregation/`.

    tlc -config Queue.cfg MCBoundedTaskQueue.tla      tlapm BoundedTaskQueueProofs.tla
    tlc -config ReadPath.cfg MCReadPath.tla           tlapm ReadPathProofs.tla
    tlc -config Book.cfg MCConnectBook.tla            tlapm ConnectBookProofs.tla
    tlc -config Send.cfg MCSendPath.tla               tlapm SendPathProofs.tla
    tlc -config Coroutine.cfg MCCoroutineDB.tla       tlapm CoroutineDBProofs.tla
    tlc -config Life.cfg MCConnLifecycle.tla          tlapm ConnLifecycleProofs.tla
    tlc -config Stop.cfg MCAdmission.tla              tlapm AdmissionProofs.tla
    tlc -config Parts.cfg MCObservationAndFraming.tla
                                                      tlapm ObservationAndFramingProofs.tla

## 1. Inventory of the system

| Component | State | Operations | Talks to | What is hard | What makes it correct |
|---|---|---|---|---|---|
| `bounded_task_queue.h` | `queue_`, `closed_`, `high_`, `low_`, a mutex, two condition variables | `push`, `try_push`, `pop`, `close`, low-water callback | used by all three pools | three different notify rules; waiters on both sides; close against sleepers | bounded FIFO; no lost wake-up; close releases everybody and drains |
| Reactor, reading (`Reactor.cpp`) | `reading_paused`, `pending_resume_`, `pending_divide_retry_`, epoll masks, `read_buffer` | `handle_read`, `pause_reading`, `schedule_resume`, `schedule_divide_retry`, `process_*` | kernel, divide queue, work workers, drain thread | edge triggered events; two reasons to pause; a resume is requested by other threads | a pause is always ended; no message lost or read out of turn |
| `ConnectionFlow.h` | `in_flight_`, `full_`, `resume_pending_` under one mutex | `try_take`, `finish_one`, `consume_resume`, `release_slot` | Reactor takes, work workers finish | the answer of one call is acted on after its lock is gone | the window bounds requests in flight; a full window is always re-opened |
| DB admission (`backpressure.h`, `Handler_epoll_make.cpp`) | `available_`, `waiting_tasks_`, `DB_credit_token` | `try_acquire`, `wait_acquire`, `release`, `add_waiting_task`, drain thread | Reactor, divide queue, work workers | a credit crosses four threads and any number of suspensions | a credit is held from admission to the end of the business, and given back once |
| divide pool (`divide_pool.cpp`, `Handler_divide_make.cpp`) | its queue, unfinished count | `try_add_task`, `add_task`, worker loop, `wait_idle` | Reactor, drain, work queue | exceptions of user code | each message becomes one work task |
| work pool (`thread_pool.cpp`, `work_pool.cpp`) | its queue, guard queue, unfinished count | `add_task`, worker loop, `on_event` | divide, DB, Reactor | its workers push into their own bounded queue | no starvation: a resumed coroutine is requeued |
| DB pool (`DB_pool.cpp`, `connect_pool.cpp`) | its queue, connections | `submit`, worker loop | coroutines, MySQL, work queue | blocking on the work queue; `get()` with no connection at all | every query is answered once |
| coroutine layer (`Box.h`, `EventAwaiter.cpp`, `EventTask.h`, `blockingqueue.cpp`) | box, `g_coroutine_suspended`, guard queue | `await_suspend`, `await_resume`, `process_first` | work worker and DB worker | the DB worker may answer before `await_suspend` has returned | a coroutine is resumed once, never twice, never while running |
| Reactor, sending (`Reactor.cpp:340-392`, `BatchSender.cpp`) | `send_queue`, `pending_send_`, `EPOLLOUT`, `pending_reactors_` | `enqueue_send`, `try_send`, `mark_reactor`, `flush_loop` | any business worker | partial writes; `mod_event` calls of the reading side overwrite the mask | accepted bytes are written in order |
| connection life (`Acceptor.cpp`, `NetworkServer.cpp`, `Reactor.cpp:126-166, 394-480`) | `connections_`, `connected`, `pending_close_` | accept, `add_connection`, `close_client`, `request_close`, idle scan | acceptor thread, Reactor, business | close while tasks are in flight; ids against reused socket numbers | closed once; a late event never reaches a new connection |
| `connect_book.cpp` | `virtual_map_`, `sock_to_virtual_`, `group_map_`, `changes_`, `version_` | `on_connection`, `dis_connection`, `rebind`, `set_group`, `assign_group`, `take_changes`, `wait_version_change` | Reactor, business workers, sessions | three maps that must agree; socket numbers are reused while business tasks live on | a virtual fd routes to the connection that bound it |
| `FrameworkCall.cpp`, `ConnectionSession.cpp`, `context.cpp` | handler table; thread-local "current connection" | `call`, queries | the book, send functions, `request_close` | runs in work workers | stateless over the book |
| `Server.cpp` | `started_`, all of the above | `start`, `stop`, `settle_pending` | everything | the order of shutdown against work in flight | accepted work is finished or reported |
| `Metrics.cpp`, `Logger.cpp` | counters, sampler thread; line queue, writer thread | `on_*`, sampling; `log`, `flush_and_stop` | everything | final flush | no line lost; window statistics right |
| message framing (`Reactor.cpp:58-112`) | `read_buffer` | `take_one_message` | `handle_read` | lengths at a boundary | frames are cut where the client cut them |

Interaction of one request: `handle_read` takes a slot of the connection's window and
calls `on_message`. A DB request needs a credit; without one it is parked in the DB
waiting queue and the connection is paused. Then `try_add_task` into the divide queue; if
it is full, slot and credit go back, the message stays in `read_buffer`, the connection is
paused and put down for a retry. A divide worker turns the message into a business for the
work queue. The business runs, may suspend any number of times in a DB query (DB queue, DB
worker, work queue, `on_event`, work queue again), ends, gives its credit back and its slot
(`finish_one`), and asks the Reactor to resume reading when the window had been full.

## 2. Structure and plan

| # | Modules | Relation to the others | State |
|---|---|---|---|
| 1 | `BoundedFifo`, `BoundedTaskQueue`, `BoundedTaskQueueProofs` | the second implements the first, and every pool relies on the first | complete |
| 2 | `ReadPath`, `ReadPathProofs`: reading, window, admission, three pools | composes Reactor, `ConnectionFlow`, gate, drain thread and pools; takes the queues as the bounded FIFOs of 1; shutdown is 9's | complete |
| 3 | `ConnectBook`, `ConnectBookProofs` | its environment (accept, close, descriptor reuse) is 6's subject | complete |
| 4 | `OrderedStream`, `SendPath`, `SendPathProofs` | sending implements the first; composes senders, BatchSender, event loop and the last part of `Server::stop`; shares the epoll mask with 2, whose reading it reduces to what it does to the mask | complete |
| 5 | `CoroutineDB`, `CoroutineDBProofs` | details the "submit / query / event" hops of 2; composes work pool, DB pool, connection pool and the first part of `Server::stop` | complete |
| 6 | `ConnLifecycle`, `ConnLifecycleProofs` | composes Acceptor, Reactors, `request_close` and `NetworkServer::stop` | complete |
| 7 | `Framing`; `ObservationAndFramingProofs` | the bytes behind the message positions of 2 | complete |
| 8 | `Observation`; `ObservationAndFramingProofs` | composes workers, sampler, Logger and the end of `Server::stop`; its log implements 4's `OrderedStream` | complete for one of each kind of counter |
| 9 | `Admission`, `AdmissionProofs` | details admission to the divide pool of 2 down to the condition variables; composes Reactors, credit gate, waiting queue, drain thread, divide pool and the ends of `Server::stop` that stop them | complete |

Abstract specifications: the bounded FIFO for the queue, the ordered stream for the send
queue and again for the log. The order of `Server::stop` is cut where one component is done
before the next is touched: divide pool, gate and drain thread (9), work and DB pools (5),
BatchSender and Reactors (4), Acceptor and Reactors (6), sampler and Logger (8). Each module runs its part of `stop` against the threads that
are still alive at that time.

`Framing` and `Observation` have nothing to do with each other, but their proofs have: both are
about functions defined by recursion, and share a module and its stand-in for induction (section 5).
So that a module can extend both, the first calls its specification `FrameSpec`. One run checks both:
in each of its behaviours one of the two runs and the other stands still.

## 3. The modules

### BoundedTaskQueue, BoundedFifo
Everything a thread does while it holds `mutex_` is one action. `pc[t]` says where a thread
is: asleep on a condition variable (`not_full`, `not_empty`), notified and on its way back
to the mutex (`push`, `pop`), in the low-water callback, or out of the queue (`idle`).
`NotifyOne` picks any waiter; `Spurious` wakes a waiter nobody notified. `push` is
`PushSleeps`, `PushRefused` or `PushQueues`, at its call and after every wake-up; `pop` is
`PopSleeps`, `PopEnds` or `PopTakes`. `close()` sets the flag under the mutex and then makes
its two `notify_all` outside it: three actions. It may be called again (`shutdown()` and the
destructor both do). Left out: `full_count_`, statistics.

`BoundedFifo` is what the pools rely on: accept only while open and with room, hand out the
oldest, closed for good. `IsBoundedFifo` says the queue implements it.

### ReadPath
One Reactor, its connections, the drain thread and the three pools. A message is its
connection, its class (`fast` or `db`), the number of queries its business may still make
and, in the work queue, whether the item is a business or the `on_event` call that requeues
one. One action is what a thread does between two accesses to state another thread can see.
So `consume_resume` and `reading_paused.exchange` are two actions (`ResumeConsume`,
`ResumeUnpause`), and so are `finish_one`, the test of `reading_paused` and
`schedule_resume` (`WorkFinish`, `WorkCheck`, `WorkNotify`), `add_waiting_task` and
`pause_reading` (`Park`, `Pause`), the bucket's `push_back` and the write of the eventfd that
follows it outside the lock (`ScheduleResume`, `Wakeup`), the Reactor's read of the eventfd
and its swap of the bucket (`WakeEvent`, `ResumeSwap`), and a divide worker's `pop` and the
low-water callback it then runs (`DividePop`, `LowWater`). Of the events that are ready
the Reactor may handle any one next, as one `epoll_wait` may return any of them first. A condition-variable wait is a guard here; that this
is right is what `BoundedTaskQueue` shows. The kernel is `interest` and `edge`: an edge is
raised by arriving bytes while `EPOLLIN` is in the mask, or by arming the mask over unread
bytes; `read` returns any non-empty part of what has arrived.

The counters `sent`, `received`, `taken` are positions in the client's `Script`; the bytes
of a message, and how they are framed, are abstracted to them. `dropped` is a history
variable: the messages whose divide function threw.

Simplifications: `process_pending_resume` removes duplicates from `pending_resume_`, so
the bucket is a set; `last_active_us`, metrics and logs are left out; the mask's `EPOLLOUT`
bit is `SendPath`'s; nothing is closed but connections (`Admission` has the rest); `g_coroutine_suspended` is which of
`WorkAwaits` and `WorkEnds` is taken. The pools' `wait_idle` counters, which only `stop`
reads, are `CoroutineDB`'s.
`CloseClient` covers the idle timeout, socket errors, `request_close` and the peer's EOF.

### ConnectBook
Every method is one critical section, so one action; the interest is in the three maps and
in the environment: a socket number is free again as soon as its connection is closed, but
`Internalconnection::sock` is not cleared, and a business task holds its connection past
the close. A reader of `wait_version_change` sleeps on a version it has seen
(`waiting[r]`), is notified (`told`) by a change or by `shutdown`, or times out; `shutdown`
sets its flag under the mutex and notifies outside it, two actions. `send_to`, `send_group`
and the queries read one or more entries under the mutex (`connection_info`,
`group_snapshot`) and are used in the properties. `overwritten` is a history variable: a new
connection has taken over an entry that was bound under its socket number.

### OrderedStream, SendPath
`OrderedStream` is what a connection promises for its output: units go in and come out only while
it is open, once and in order; a break throws away some or all of what is left, and of that nothing
comes out any more. `SendPath` is the code. Bytes are units numbered
in the order of acceptance, and one `write()` is offered any prefix of the queue, which
covers frame and 64 KiB batch boundaries. A sender is `EnqueueSend` (under `send_mutex`),
`PendSend`, `MarkReactor`; the BatchSender `FlushSwap` and `FlushWakes`; the event loop
takes its batch in `EpollWait`, handles the events in any order and goes through the
branches of the wake-up one after another. The kernel is `mask`, `posted`
(on the ready list) and `room`: an item is reported once for each time it is put on the
list, by a change the mask asks for or by `mod_event` when the state already matches. In
the wake-up branch a Reactor whose `running_` is false skips everything else, as
`Reactor.cpp:422` does. `overwritten` is a history variable: a pause or resume took
`EPOLLOUT` from the mask, and `try_send` has not tried to write since. A resume is scheduled for a paused
connection, or for one whose window was full and which was never paused (`ScheduleResume`); both
rewrite the mask.

### CoroutineDB
A worker resumes a business with `WorkPop`, which then suspends (`AwaitSuspend`: the
coroutine enters the guard queue and the guard is held; `Submit`, `SubmitOk` or
`SubmitClosed`: the push into the DB queue; `Leave`: the guard is finished) or ends (`Ends`).
A DB worker gets a connection, runs the query, waits for the guard
(`WaitFinished`) and pushes an `on_event` task. Each pool's push is two steps, the count and
the queue, since `wait_idle` reads the count. `Server::stop` is `Stop`, `WaitIdle`,
`TakeAll`, `Settle`, `CloseWork`, `CloseDb`, `ClosePool`, `ClearGlobals`, in that order.
`established` is how many database connections came up at start: any number up to
`DbConns`, none included. Rows and SQL are left out; a query that fails is answered like one
that succeeds. The five-second limit of `wait_idle` is `GivesUp`.

### ConnLifecycle
Connections are numbered as they are accepted; a new one gets any free descriptor number (the
kernel takes the lowest, which is one of them), and numbers are reused. `add_connection` is four steps of the Acceptor's thread (`OnConnect` up to
its registration in the book, `OnConnectReturns`, `Publish`, `EpollAdd`); `close_client` is
three of the Reactor's (`CloseBegin`, `CloseFd`, `CloseErase`), since other threads see the
flag, the descriptor and the table change one after another. An event carries the token it
was registered with; `Found` is the lookup. `NetworkServer::stop` wakes and joins the Acceptor,
then stops one Reactor after another. A business may close any connection of `MayClose` it has
heard from or finds in the registry, where `on_connect` enters it at once. `astray` and `wrong` are
history variables that note where an event or a `close()` went, `early` the connections a business
asked to close before `add_connection` was done with them.

### Admission
A message is in a read buffer, at a Reactor, parked, with the drain thread, queued, at a
divide worker, a running business, or past (`fate`); only classes and places are kept. A
Reactor's `on_message` is its steps between two critical sections: `TryAcquire`,
`AddWaitingTask` and its notify, the count, the push, the count again, the credit. The gate's
and the waiting queue's condition variables are explicit: the drain thread is asleep
("no task", "no credit") until `Notified`, and `notify_one` is a step of its own where the
code calls it after the mutex is released. `noting` stands for any number of releases that are
about to notify; `Spurious` covers the others. `Server::stop` closes the divide pool, waits
(`WaitIdle`, with its five-second way out recorded in `gave_up`), closes the work pool, stops
and joins the Reactors, closes the gate and the waiting queue and joins the drain thread. What
runs in the work pool is one step, `WorkEnds`: `CoroutineDB` has its inside.

### Framing
`send_preview`, `spilit_message` and `take_one_message` as functions on byte sequences,
with a header of `Width` digits in base `Base` for the four decimal digits, and
`handle_read`'s buffer: bytes arrive in any pieces, a message may be put back any number of
times. The branch for a length above the limit is kept although four digits cannot say one.
What is recursive - the number digits stand for, the digits of a length by repeated division, the
messages from a position on - is a recursive function, so that the proofs can reason about it.

`FrameAssumption` says what the code relies on. `max_frame_bytes` is 9999 (`Reactor.h:87`), the most
that four digits say. And nobody frames a message longer than that: `docs/API.md:31` states it as a
rule, and `send_preview` does not enforce it. A longer message gets a five-digit header and is read
as another one (hazard `Reactor.cpp:35`); `Framing` leaves it out of `Talks`. A client that
sends any bytes at all is in the model too.

### Observation
One request counter, one latency histogram and one module counter through the windows of
the sampler, with each relaxed load of a bucket a step of its own; and the log with its
writer thread and `flush_and_stop`. The other histograms and pools go through the same code.
Its properties add up buckets with `Sums`, a recursive function, so that the proofs can reason
about them.

## 4. The runs

| Run | Bounds | Distinct states | Shows |
|---|---|---|---|
| `Queue` | 3 pushers, 2 workers, one thread of which is both; 2 tasks; capacity 4, low water 2 | 172,544 | `FreeSlotsCovered`, `QueuedTasksCovered`, `NobodySleepsAfterClose`, `IsBoundedFifo`, `ClosedQueueIsDrained` |
| `ReadPath` | 2 connections, one with a DB and a fast message, one with a DB message; window 1, 1 credit, divide queue 1, work queue 4, DB queue 2; one worker per pool; connections may close, divide may throw; fair | 417,863 | `SlotsConserved`, `CreditsConserved`, `WindowSound`, `PausedIsRevisited`, `BucketsAreAnnounced`, `EveryMessageServed` |
| `Book` | 3 connections (symmetric), 2 socket numbers, 3 ids, one of them a socket number, groups -1, 1, 2; 1 reader; 2 buffered changes; 5 changes | 694,941 | `EachConnectionHasOneId`, `GroupsAgree`, `ChangesAreLatest`, `WaitersAreTold` |
| `Send` | 1 connection, 1 sender, frames of 2 units; send limit 2, kernel buffer 1, 4 units in all; may pause, close, stop; fair | 578,965 | `AccountIsExact`, `QueuedIsRevisited`, `IsOrderedStream`, `AcceptedIsWritten`, `StopEnds` |
| `Coroutine` | 2 businesses, one with 2 queries and one with 1; 2 work, 2 DB workers; work queue 1, DB queue 1; 0 or 1 database connection; stop at any time before the second business is there; fair | 182,181 | `OneThreadUnlessUnguarded`, `ResumedOnce`, `SuspendedIsAnswered`, `CountsAreExact`, `SleeperHasReason`, `BusinessEnds`, `StopEnds` |
| `Life` | 3 connections on 1 descriptor number, 2 Reactors; one may be idle, one closed by a business at any time; stop at any time; fair | 135,431 | `EventReachesItsConnection`, `RegistryFollows`, `HandlerOutlivesOnConnect`, `DeadClientIsReleased`, `StopLeavesNothing` |
| `Stop` | 3 messages, one without a credit and one whose parser may throw; 2 Reactors, 1 divide worker; 1 credit, divide queue 1; stop at any time; fair | 349,836 | `NothingIsLost`, `DrainIsTold`, `StopEnds` |
| `Parts`, framing | all streams of up to 8 bits, and all short conversations in frames; messages up to 3, reads up to 3 bytes | 2,221,619 in all | `TypeOK` with the buffer's bound, `DeliveredAsSent` |
| `Parts`, log | 2 workers, 2 buckets, 2 requests, which may fail and log; windows until stop (at most 1 before it); fair | | `P99IsBracketed`, `WindowsAreDisjoint`, `IsOrderedLog` |
| `Parts`, metrics | the same with 3 requests, none of which logs | | the same |

Why these are enough. Capacity 4 puts free levels above, at and below low water, which is
what the notify rules tell apart; with three pushers a notify leaves somebody asleep; two
tasks let FIFO order be seen. Window 1, one credit and a divide queue of one make every
refusal happen with three messages: window full, no credit, queue full, and each while
another is being undone. Three connections on two socket numbers (`Book`) or one (`Life`)
give a number successive owners, while the one before is still held by a business or is in an
event batch; a single number makes the reuse happen as early as the kernel can, and makes
`accept` fail for want of descriptors. A frame larger than the kernel's buffer makes every
write partial and needs `EPOLLOUT` for its rest; a limit of one frame makes `enqueue_send`
refuse. Connections share nothing in `SendPath` but the buckets and the wake-up, and the proof
covers any number. Two queries are what it takes to
resume a coroutine twice for different reasons; two workers of each kind let one hold the
guard while the other answers. In `Coroutine` the work queue has one place for two businesses and
two workers, so that a worker, `on_work` and the DB workers all come to wait for room in it; with
one business more than that, or one worker less, everybody may wait (`CoroutineStarves`). `stop` is
not called there once both businesses are there, for the sake of the size: one business is what it
finds, with up to two queries, at any of its steps. In `ReadPath` the work queue does not fill.
Three requests are the least for which a p99 target above none leaves one to be counted between the
two passes. Two Reactors and three messages in
`Stop` let one be refused while the drain thread blocks on the full queue and another message is
parked behind it. Type invariants that are proved for every size (section 5) are not checked
again by the runs. Base 2 and width 2
in `Parts` keep the header's ambiguity (bytes that look like digits) and a partial header.

`CHECK_DEADLOCK FALSE` is used where the system may come to rest: everything served,
stopped, or the bound of changes, connections, units or requests reached.

Fairness (`FairSpec` in the queue and the read path, `Spec` elsewhere). A thread that holds or has been
notified for a mutex gets on; every thread of the program is scheduled; business functions
return and the database answers (`connect_pool` sets five-second timeouts on every MySQL call);
an open client reads what it is sent (`SendPath`); `stop`, once begun, goes on. Nobody has to
push, close, connect, send, leave or stop. Weak fairness is enough: the only
guards of another thread's making that can flicker are the credits the drain thread waits for
and the room the queues' pushers wait for; `EveryMessageServed` holds although the Reactor may
take a credit ahead of the drain thread, because a client's messages are finite there.

`MCSpec` (`Coroutine`) and `PartsSpec` (`Parts`) are the specification of the module with the bound
that the table names.

Conditions in the properties stand for what the code does not promise: `AcceptedIsWritten` and
`QueuedIsRevisited` exempt a connection whose `EPOLLOUT` was taken away (see below),
`EveryMessageServed` one that the race of `ReadPathLostResume` hits, `EachConnectionHasOneId` and
`GroupsAgree` what comes after a take-over (`overwritten`), `RegistryFollows` and
`HandlerOutlivesOnConnect` the connections in `early`,
`OneThreadUnlessUnguarded` those businesses that were answered without asking the guard,
`SleeperHasReason` the refused push of `thread_pool.cpp:84`.

### Slips
Operators named `X_Something` are the action `X` with one plausible mistake (a dropped
test, a forgotten call, a swapped comparison). No specification uses them. For each property
of each passing run one of them, put in the place of its action, makes TLC find the property
violated: the property depends on that part of the code.

### Disagreements found
Each of these runs checks one property that states what a document or a comment says, and
TLC refutes it.

| Run | Says | Does |
|---|---|---|
| `ReadPathLostResume` | `README.md:422`: when a full window gets a free slot, `resume_pending_` is set and the Reactor is notified to read on | a worker that calls `finish_one` between the Reactor's `consume_resume` and its `reading_paused.exchange` sets `resume_pending_`, sees `reading_paused` still set and does not notify; `resume_pending_` then stays set with nobody on the way, and `try_take` refuses from then on until something else resumes the connection |
| `SendLastFlush` | `BatchSender.cpp:30`: the last wake-up guarantees that everything is sent before the sockets close | `Server::stop` goes on to `Reactor::stop`; a loop that comes to the wake-up after `running_` was cleared leaves `pending_send_` alone (`Reactor.cpp:422`), and the sockets are closed |

| `QueueLeftTasks` | `README.md:463`: after `close()` the tasks left in the queue are not executed | `pop` hands out what is left in a closed queue and ends a worker only when it is empty (`bounded_task_queue.h:68`); `ClosedQueueIsDrained` says so, and holds |
| `CoroutineStarves` | `README.md:414`: who completes a query does not resume the coroutine but queues it again, which avoids starving the business pool | the queueing itself can starve it: `on_event` runs on a work worker and pushes with the blocking `add_task` (`work_pool.cpp:28`); with as many businesses as workers and places in the queue all workers wait for room that only they make. The run has 2 businesses, 1 worker and 1 place; `BusinessEnds` holds in `Coroutine` with one worker more |

`EveryMessageServed` excepts exactly the connections the lost resume hits (`Race`); without the
exception TLC refutes it with that race, after which the second message of the first connection
stays in `read_buffer` for good.

The models also show, without a run of their own (each follows from the named definition, or
from the named run with the bound given):

- `README.md:440-455` gives the order of `Server::stop` as: parse pool, work pool shut down and
  waited for, `settle_pending`, work pool waited for again, BatchSender, Reactors, book, DB pool,
  sampler, Logger. `Server.cpp:197-216` waits for the DB pool after the parse pool, settles *before*
  it shuts the work pool down, waits for that once, and between Reactors and book ends the credit
  gate and the waiting queue, which the document does not have. The models follow the code.
- `on_connect` itself enters the connection in the registry before `add_connection` publishes
  it. A business that finds it there at once and calls `close_conn` (`early`) makes the Reactor run
  `close_client`, handler included, while the Acceptor's thread is still in `on_connect`; the
  closed connection is published afterwards and stays in `connections_` until `stop` closes its
  old socket number a second time. `Life` goes through this, and `RegistryFollows`,
  `HandlerOutlivesOnConnect` and `DeadClientIsReleased` except it. The comment at `Reactor.cpp:149`
  speaks of the client that leaves early, for which the order is right.
- A message parked for a credit when the divide pool closes is dropped without an answer
  (`DrainGivesUp`), or stays in the waiting queue (`DrainAcquires` on a closed gate).
- The drain thread is joined after `network_->stop()` has destroyed the Reactors
  (`Server.cpp:207`, 209), and ends a dispatch with `schedule_resume` of the connection's Reactor
  (`DrainResumes`): a push that ends in between uses a Reactor that is gone.
- A divide function that throws keeps the slot and the credit of its message
  (`divide_pool.cpp:40`, `DivideThrows`); `SlotsConserved` and `CreditsConserved` count them
  in `dropped`.
- `schedule_divide_retry` wakes its own Reactor, which retries at once, not after low water as
  `README_EN.md:181` says; and a resume left over from the window un-pauses a connection whose
  message is still parked (`README_EN.md:166`).
- `rebind` looks the connection up by `sock` without `connection_info`'s identity test
  (`connect_book.cpp:67`): a task that binds after its connection was closed renames the
  number's next owner. `EachConnectionHasOneId` survives it; the routes agree, but are not what
  the client asked for.
- A new connection registers under its socket number without looking whether somebody has bound
  that number as an id (`connect_book.cpp:38`), and takes the entry over: the connection that had
  bound it is no longer found, and its groups still name the number. `Book` goes through this and
  notes it in `overwritten`; of `EachConnectionHasOneId` what is left then is that the registered
  socket numbers are those of the open connections, of `GroupsAgree` nothing.
- `settle_pending` and the answer of a DB worker without a connection do not ask the suspend
  guard (`DB_pool.cpp:134`): without the exemption, `OneThreadUnlessUnguarded` fails.
- `mod_event` overwrites the whole mask: a pause or resume may take away the `EPOLLOUT` a
  blocked send waits for, and the data waits for the next `enqueue_send`.
- `total * 99 / 100` rounds down (`Metrics.cpp:99`; `README.md:630` rounds up): of fewer than
  100 samples the slowest may be left out, and of a single one nothing is said. And a latency
  counted between the two passes of `calc_window_p99` may lower the bucket, so that it covers none of
  those the first pass counted: `P99IsBracketed` says what does hold.
- The window's buckets are read again at its end (`KeepBucket`): what was counted while the
  line was printed is in no window.
- In code that is not modelled in that detail: a column buffer grown in `DB_pool.cpp:59` is not
  bound again, so later rows are fetched into the old one; `Reactor::stop` called twice closes
  its descriptor numbers twice (`Reactor.cpp:501`); `request_close` uses `owner_reactor` as a
  raw pointer (`NetworkServer.cpp:57`), which a business outliving `reactors_.clear()` would follow.

## 5. What is proved

For every value of the constants (threads, tasks, capacities, windows, scripts):

`BoundedTaskQueueProofs`, from `ThreadAssumption` and `CapacityAssumption`:
- `TypeCorrect`: `Spec => []TypeOK`, which includes that the queue never exceeds `High`.
- `NoLostNotFull`, `NoLostNotEmpty`: the two no-lost-wake-up invariants. Each is inductive
  together with `TypeOK`; the argument is about cardinalities of wait sets: a step that
  frees a slot moves one sleeper to the awake side, or all of them, and a step that takes an
  awake thread away fills the slot it stood for or puts the thread to sleep on a full queue.
- `CloseReachesEverySleeper`: after each `notify_all` of `close` nobody sleeps on that
  condition variable. It is inductive since no thread goes to sleep on a closed queue.
- `ImplementsBoundedFifo`: step simulation under `TypeOK` (the capacity bound is not needed
  for the abstract step, the test `Len(queue) < High` is).

`ReadPathProofs`, from `SizeAssumption`, `ScriptAssumption` and `ThreadAssumption`:
- `TypeCorrect`: `Spec => []TypeOK`. `TypeInv` adds that every thread at a step that works on
  a message has one (`Carrying`), that a business about to suspend has a query left, and that
  the message in the Reactor's hands counts as taken (`TakenInv`), without which putting it back
  would have no type. `ThreadGoesOn`, `ThreadPuts`, `ThreadGets` are the three things a step
  does to a thread; then one lemma per group of threads, one step per action.
- `WindowIsSound`: `Spec => []WindowSound`. `WindowSound` is not inductive alone; the
  strengthening `WindowInv` adds what the steps need of `flow`'s type. Lemmas
  about the operators (`TryTakeSound`, `FinishOneSound`, `ReleaseSlotSound`, `ConsumeSound`)
  show that each transition of `ConnectionFlow` keeps `Sound`, in whatever order the
  threads call them; `WindowStep` puts them together.
- `NoBucketSleptOn`: `Spec => []BucketsAreAnnounced`. `BucketInv` adds where in its loop the
  Reactor may have un-announced work of its own (`ReactorStep`); `OtherThreadStep` shows that
  another thread that fills a bucket is then about to write the eventfd (`Announced`).
- `NobodyStaysPaused`: `Spec => []PausedIsRevisited`. `PauseInv` adds what the property alone
  loses between two accesses: from parking a message to the end of `pause_reading` its connection
  is with the drain thread or already in the resumes (the drain thread may be done first), and no
  bucket is swapped out while the Reactor waits or is about to swap. Lemmas for the Reactor
  (`ReactorPauseStep`), the drain thread (`DrainPauseStep`) and all others (`OthersEndNoPause`).

- `EverySlotHasItsMessage`, `NoCreditIsLost`: `Spec => []SlotsConserved` and
  `Spec => []CreditsConserved`. Both properties are equations between a counter and the number of
  messages of a kind (a connection's; those that need the database) in queues and in hands.
  `QueueCount`, `HandCount` and `StepCount` say what one append, one take and one step of a
  thread does to such a number; `Piped` is the part inside the pools, which is neither raised
  nor lowered by a divide worker, a work worker before `finish_one` and a DB worker
  (`DivideKeepsPiped` and its like). What is left are the Reactor and the drain thread, where a message
  is taken, parked, refused or put back; there `MassInv` is needed: the Reactor's message is one of
  the connection it is reading, and only messages that need the database are parked.

`ConnectBookProofs`, from `BookAssumption`:
- `TypeCorrect`: `Spec => []TypeOK`. `BookInv` adds that open connections have different
  socket numbers and that just theirs are registered; without that `dis_connection`'s lookup
  would have no type.
- `LatestChanges`: `Spec => []ChangesAreLatest`, inductive with the types (`StepNotifies` shows
  that every operation reports at most one change).
- `OneIdEach`, `GroupsStayInAgreement`: `Spec => []EachConnectionHasOneId` and
  `Spec => []GroupsAgree`, whatever ids are bound. `AgreeInv` is inductive until a take-over: every
  open connection's entry is its own (`OpenIsRouted`), there are no others (`OnlyOpenIsRouted`), and
  the two directions of membership (`MembersSaySo`, `GroupsHoldThem`). That no two numbers share a
  virtual fd (`OwnersDiffer`) is what `rebind` and `dis_connection` need. `on_connection` needs that
  its socket number is no key yet, which is just what `overwritten` records otherwise. One lemma per
  operation, put together in `StepUntilTakeOver`; what holds of the socket numbers after a
  take-over is `BookInv`'s.
- `NobodySleepsThrough`: `Spec => []WaitersAreTold`, for any number of readers: inductive with
  `BookInv`, since a change and the shutdown notify every reader that sleeps.

`SendPathProofs`, from `SendAssumption`, for any connections, senders, frame sizes, limits and
socket buffers:
- `TypeCorrect`: `Spec => []TypeOK`.
- `AccountNeverDrifts`: `Spec => []AccountIsExact`: `queued_send_bytes` is the length of the queue
  and within the limit through every partial, refused and failing write.
- `SendingIsOrdered`: `Spec => IsOrderedStream`, the refinement. Three lemmas show which step is
  which step of the abstract stream (`EnqueueIsPut`, `TryWriteIsMove`, `OthersOnlyBreak`); all
  others leave a connection's stream alone (`QueueSteps`).
- The inductive invariant `IInv` is the types, the account, and three facts of the threads that
  the types alone do not give: every event but the wake-up has a connection (`Tokens`), the
  connection `try_send` is writing is open (`Writing`; without it a late write would be a step
  of a broken stream), and a sender about to announce knows whose frame it has (`Announcing`).
  One lemma per group of actions: `Splits`, `Appends`, `Parts` about sequences, then
  `EnqueueKeepsQueue`, `TryWriteKeepsQueue`, `WriteFailsKeepsQueue`, `HandleReadTypes`, ...,
  combined in `StepInv`.

- `NoQueuedFrameIsForgotten`: `Spec => []QueuedIsRevisited`. With `LoopInv` (a connection is written
  only inside `try_send`, the Reactor waits with no event left over, only `stop` clears `running_`)
  the property is inductive: one lemma per group of actions shows that whoever was on the way to
  the connection leaves another on the way when it is done (`SenderRevisits`, `OthersRevisit`,
  `EventRevisits`, `TrySendRevisits`, `WakeRevisits`, `BucketRevisits`).

`AdmissionProofs`, from `AdmissionAssumption`:
- `TypeCorrect`: `Spec => []TypeOK`, in which every thread has a message exactly where it works
  on one.
- `DrainIsNotForgotten`: `Spec => []DrainIsTold`, from two invariants, one for each condition
  variable (`TaskSleeper`, `CreditSleeper`): what could give the drain thread a reason to go on
  either finds it awake or leaves somebody who is about to notify.

- `NoMessageOrCreditIsLost`: `Spec => []NothingIsLost`, from five invariants. `PlaceInv` says that a
  message is in one kind of place (`OnePlace`) and there once (`NoTwins`), which is what the
  cardinality in the property comes from; `RefusedInv` that nobody has found the pool closed
  before it was; `CountInv` that the divide pool's count is exact; `StopInv`, which rests on it,
  that `stop` goes past `wait_idle` with an empty pool unless it gave up; `ParkInv` that only messages
  that need a credit wait for one. The credits are then a cardinality that every step keeps, or
  changes with `available` (`CreditKept`, `CreditGiven`).

`CoroutineDBProofs`, from `PoolAssumption`:
- `TypeCorrect`: `Spec => []TypeOK`. The inductive `PoolInv` adds what each thread has in its
  hands at each step (a worker in a coroutine has its business' task, a DB worker a query's key).
- `CountsNeverDrift`: `Spec => []CountsAreExact`. The counts are sums of cardinalities, so the
  invariant `CountInv` is stated with named counts (`Working`, `Pushing`, `Submitting`, ...), and a
  lemma for each kind of thread says how its step changes them (`WorkerCounted`, `DbWorkerCounted`,
  `OtherCounted`). A refused push is where the equation could break; `finish_task`'s test for 0
  never fails (`FinisherIsCounted`).
- `SleeperIsTold`: `Spec => []SleeperHasReason`, from the exact counts: whoever takes a count to 0
  wakes the sleeper (`SleepEnds`), everybody else leaves the count up or notes the refusal
  (`SleepKept`).

- `SuspendedIsNotForgotten`: `Spec => []SuspendedIsAnswered`. `HandInv` says which kind of task a
  thread has at each step (a worker in `on_event` an event, a pusher of `stop` a resume); then each
  step hands a query on to the next place in `Underway` or resumes its coroutine.
- `NoQueryResumesTwice`: `Spec => []ResumedOnce`. The difficult step is the one that makes a new query:
  its key must be new in every queue, hand and set, though these forget nothing. `KnownInv` says
  that a key is only anywhere when its business has started and has asked that many queries; the
  counting is done per place (`OneResume`, `Single`, `Out`).
- `CoroutinesAreNotShared`: `Spec => []OneThreadUnlessUnguarded`. `GuardInv` says that a query whose
  guard is held has no event yet and is not being settled, unless somebody passed the guard by; with
  it a business has at most one *turn* (`Turns`, `OneTurn`): a task that starts or resumes it, queued
  or in a thread's hands, or a suspended query whose guard has been dropped.

`ConnLifecycleProofs`, from `LifeAssumption`:
- `TypeCorrect`: `Spec => []TypeOK`; `LifeInv` adds that the Acceptor works on a connection there
  is and `stop` joins a Reactor there is.
- `EventsDoNotStray`: `Spec => []EventReachesItsConnection`. Tokens are injective (`Token` numbers a
  Reactor's connections for ever), and `EventInv` says that an event fetched in a batch names the
  connection it was registered for: a lookup finds that one or nobody.

- `RegistryIsFollowed`, `HandlerIsKept`: `Spec => []RegistryFollows` and
  `Spec => []HandlerOutlivesOnConnect`, for any businesses. `KnownInv` says who may act on a
  connection: before `add_connection` has entered it in `connections_` only a business, which makes
  it `early`. `Orderly` ties together the descriptor table, the registry and the open connections,
  and who is in the middle of closing one (`Descriptors`, `OpenOnes`, `Closing`, `Tabled`, `Added`,
  `Followed`). Every step keeps it but a sweep of `Reactor::stop` that finds a closed connection in its
  table (`OrderlyStep`), and such a one is early (`Tabled`); no other step's `close()` hits another
  descriptor (`RightNumber`). So `RegInv` has `Orderly` until a `close()` has gone wrong, and none does
  without an early connection. `HandlerInv` needs `KnownInv` only.

`ObservationAndFramingProofs`, on `Observation`, from `ObservationAssumption`:
- `P99ErrsWithinTheChange`: `Spec => []P99IsBracketed`. `P99Inv` says how far each of the two passes
  is: the first pass's total is at most what the buckets behind it hold now, and in the second pass
  what is not read yet makes up for what is missing of the total. `CountedInv` does the same from
  below: what the first pass found in a bucket is still there when the second comes to it, so the
  second has not gone on where the first was not short of the target. Both stay true when a work
  thread counts a latency between any two reads, since buckets only grow (`LatencyGrows`).
- `NothingIsCountedTwice`: `Spec => []WindowsAreDisjoint`. `SampledInv` limits what the windows have
  counted by a sum over `Seen`: the counters where the sampler has already been in this window,
  the last window's elsewhere. Each step moves this limit exactly as far as the figure
  (`SampledStep`). `ReqInv` and `DoneInv` do the same for the two counters.
- `LogIsOrdered`: `Spec => Stream!Spec`, the safety part of the refinement. `LogInv`: the thread holds
  lines only while it writes, and `flush_and_stop` only when the thread has exited, so there is
  one holder, and its first line is the first of all. `LogIsPut`, `TakesNothing`, `WritesTheFirst`
  and `StopOnlyBreaks` say which step is which step of `OrderedStream`.
- The library's induction theorems take an operator as a parameter and cannot be cited. `LeastNat`
  replaces them: a set of naturals that is not empty has a least member (from
  `NatLessThanWellFounded` and `WFMin`), so that a claim about every number is proved by
  contradiction from the least one it fails for. With it `Sums` is shown to exist and to satisfy
  its equation (`SumsExist`, `SumsAre`), and what a change of one bucket does to every sum
  (`SumsChange`, `SumsGrow`).

`ObservationAndFramingProofs`, on `Framing`, from `SizeAssumption` and `FrameAssumption`:
- `BufferIsBounded`: `FrameSpec => []TypeOK`, with it that `read_buffer` holds less than a header, the
  largest frame and one read, so that `handle_read` never closes a connection for its size.
- `MessagesArriveAsSent`: `FrameSpec => []DeliveredAsSent`, for every way to cut the bytes, every
  number of times a message is put back, and every base, width and length. The two together
  (`FrameInv`) are inductive; the argument is in the lemmas about the parser:
  - `Found(s, pos)`, the messages from a position on, depends on the bytes from there on only
    (`FoundInSuffix`): the scan, the header, its length and whether the message is complete are the
    same in a suffix (`SuffixTurn`). The scan may begin anywhere before it stops (`FoundOn`).
  - Bytes behind the buffer do not change where the scan of the buffer stops (`FoundFromStop`). So
    a turn that takes nothing loses no message and leaves less than a frame (`TakesNothingIs`),
    and one that takes something takes the first (`TakesFirst`).
  - What `send_preview` puts in front of any bytes is their first message (`PutInFront`), which is
    why a message put back is found again, and why a framed talk stands for itself
    (`TalkIsFound`). It needs that `Width` digits of a length say that length (`HeaderIs`) and that a
    length read from `Width` digits can be written in as many (`WhatDigitsSay`).
- The recursive functions are shown to exist and to satisfy their equations (`ValuesAre`,
  `QuotientsAre`, `FlattenIs`, `SplitsAre`). `UpTo` is induction up to a bound, with a set in the
  place of the predicate.

Only model-checked: every liveness property, the fairness part of `IsOrderedLog` included, because
fairness and `ENABLED` are outside what TLAPS proves. Every safety property that a run checks and
finds to hold is proved.
