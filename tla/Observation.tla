----------------------------- MODULE Observation -----------------------------
(***************************************************************************)
(* What the server notes about itself: the work threads count requests and *)
(* log failures, the sampler thread of Metrics turns the counters into one *)
(* log line per window (Metrics.cpp), the thread of Logger writes the lines*)
(* (Logger.cpp), and the end of Server::stop ends first the sampler and    *)
(* then the Logger.  The counters are atomics: every access is a step.     *)
(*                                                                         *)
(* One histogram and one module counter stand for the code's four          *)
(* histograms and three modules, which are handled alike.  Latency sums,   *)
(* averages, the 60-window average and the error, queue and system figures *)
(* are only printed and left out; lines are numbered in the order logged.  *)
(***************************************************************************)
EXTENDS Integers, Sequences, FiniteSetsExt

CONSTANTS Workers,
          Upper,       \* the bounds of the latency buckets (upper[], BUCKET_COUNT)
          Latencies,   \* latencies a request may have
          MaxRequests, \* bound: requests
          MaxWindows   \* bound: windows while the sampler is not being stopped

BUCKET_COUNT == Len(Upper)
Buckets == 1 .. BUCKET_COUNT

ASSUME ObservationAssumption ==
  /\ Upper \in Seq(Nat) /\ Upper # << >>
  /\ Latencies \subseteq Nat /\ MaxRequests \in Nat /\ MaxWindows \in Nat

VARIABLES
  \* Metrics: the counters
  total_requests, inflight, lat_buckets, module_done,
  \* Metrics: what the last window ended with
  last_requests, last_buckets, last_module_done,
  \* Metrics: running_, and the sampler thread in snapshot()
  sampling, sampler, i, req, total, acc, p99, windows,
  \* Logger: queue_, running_, and its thread with its batch
  queue, writing, writer, batch,
  \* the work threads: step, and latency of the request they have
  pc, latency,
  stage,     \* of Server::stop
  last,      \* the last batch, in flush_and_stop
  \* history
  started,   \* requests
  logged,    \* lines
  written,   \* lines, in order
  req_sum, done_sum, sampled, \* counted in the windows: requests, module tasks, latencies
  counted    \* what the first pass found in each bucket of this window

countVars   == <<total_requests, inflight, lat_buckets, module_done>>
lastVars    == <<last_requests, last_buckets, last_module_done>>
samplerVars == <<sampling, sampler, i, req, total, acc, p99, windows, counted>>
logVars     == <<queue, logged>>
writerVars  == <<writing, writer, batch, written>>
workVars    == <<pc, latency, started>>
stopVars    == <<stage, last>>
sumVars     == <<req_sum, done_sum, sampled>>
vars == <<countVars, lastVars, samplerVars, logVars, writerVars, workVars, stopVars, sumVars>>

Zeroes == [b \in Buckets |-> 0]

Init ==
  /\ total_requests = 0 /\ inflight = 0 /\ lat_buckets = Zeroes /\ module_done = 0
  /\ last_requests = 0 /\ last_buckets = Zeroes /\ last_module_done = 0
  /\ sampling = TRUE /\ sampler = "sleep" /\ i = 1 /\ req = 0 /\ total = 0 /\ acc = 0
  /\ p99 = 0 /\ windows = 0
  /\ queue = << >> /\ writing = TRUE /\ writer = "wait" /\ batch = << >>
  /\ pc = [w \in Workers |-> "idle"] /\ latency = [w \in Workers |-> 0]
  /\ stage = "up" /\ last = << >>
  /\ started = 0 /\ logged = 0 /\ written = << >>
  /\ req_sum = 0 /\ done_sum = 0 /\ sampled = 0 /\ counted = Zeroes

---------------------------------------------------------------------------
\* Logger::log, under its mutex; the writer's wait_for ends by itself.
Log == queue' = Append(queue, logged + 1) /\ logged' = logged + 1

Goto(w, there) == pc' = [pc EXCEPT ![w] = there]

(* A work thread's request (thread_pool::worker).                          *)
RequestStarts(w) ==
  /\ pc[w] = "idle" /\ started < MaxRequests
  /\ started' = started + 1
  /\ inflight' = inflight + 1
  /\ \E us \in Latencies : latency' = [latency EXCEPT ![w] = us]
  /\ Goto(w, "run")
  /\ UNCHANGED <<total_requests, lat_buckets, module_done, lastVars, samplerVars, logVars,
                 writerVars, stopVars, sumVars>>

\* The business throws: one line for the log.
RequestFails(w) ==
  /\ pc[w] = "run"
  /\ Log
  /\ Goto(w, "module")
  /\ UNCHANGED <<countVars, lastVars, samplerVars, writerVars, latency, started, stopVars, sumVars>>

\* on_module_task_done.
ModuleTaskDone(w) ==
  /\ pc[w] \in {"run", "module"}
  /\ module_done' = module_done + 1
  /\ Goto(w, "count")
  /\ UNCHANGED <<total_requests, inflight, lat_buckets, lastVars, samplerVars, logVars, writerVars,
                 latency, started, stopVars, sumVars>>

\* on_request_done, its three counters.
CountRequest(w) ==
  /\ pc[w] = "count"
  /\ total_requests' = total_requests + 1
  /\ Goto(w, "bucket")
  /\ UNCHANGED <<inflight, lat_buckets, module_done, lastVars, samplerVars, logVars, writerVars,
                 latency, started, stopVars, sumVars>>

bucket_index(us) == 1 + Quantify(1 .. BUCKET_COUNT - 1, LAMBDA b : us >= Upper[b])

\* The bucket and inflight_, which only the log line shows, in one step.
CountLatency(w) ==
  /\ pc[w] = "bucket"
  /\ lat_buckets' = [lat_buckets EXCEPT ![bucket_index(latency[w])] = @ + 1]
  /\ inflight' = inflight - 1
  /\ latency' = [latency EXCEPT ![w] = 0]
  /\ Goto(w, "idle")
  /\ UNCHANGED <<total_requests, module_done, lastVars, samplerVars, logVars, writerVars, started,
                 stopVars, sumVars>>

---------------------------------------------------------------------------
(* The sampler thread: snapshot() after every sleep.                       *)
Sampler(there) == sampler' = there
InWindow(b) == lat_buckets[b] - last_buckets[b]

SnapshotBegins ==
  /\ sampler = "sleep" /\ (windows < MaxWindows \/ ~sampling)
  /\ windows' = windows + 1
  /\ req' = total_requests
  /\ Sampler("total")
  /\ UNCHANGED <<countVars, lastVars, sampling, i, total, acc, p99, counted, logVars, writerVars,
                 workVars, stopVars, sumVars>>

\* calc_window_p99, the first pass over the buckets ...
P99Total ==
  /\ sampler = "total"
  /\ total' = total + InWindow(i)
  /\ counted' = [counted EXCEPT ![i] = InWindow(i)]
  /\ IF i < BUCKET_COUNT
       THEN i' = i + 1 /\ UNCHANGED <<sampler, p99>>
       ELSE IF total' = 0
         THEN p99' = 0 /\ i' = 1 /\ Sampler("module")
         ELSE i' = 1 /\ Sampler("acc") /\ UNCHANGED p99
  /\ UNCHANGED <<countVars, lastVars, sampling, req, acc, windows, logVars, writerVars, workVars,
                 stopVars, sumVars>>

Target == (total * 99) \div 100

\* Slip: the bound reported is the lower one of the bucket.
P99Acc_BelowIt ==
  /\ sampler = "acc"
  /\ acc' = acc + InWindow(i)
  /\ IF acc' >= Target \/ i = BUCKET_COUNT
       THEN p99' = i - 1 /\ i' = 1 /\ Sampler("module")
       ELSE i' = i + 1 /\ UNCHANGED <<sampler, p99>>
  /\ UNCHANGED <<countVars, lastVars, sampling, req, total, windows, counted, logVars, writerVars,
                 workVars, stopVars, sumVars>>

(* ... and the second, which reads them again: p99 is the bucket that      *)
(* brings the sum to the target.                                           *)
P99Acc ==
  /\ sampler = "acc"
  /\ acc' = acc + InWindow(i)
  /\ IF acc' >= Target \/ i = BUCKET_COUNT
       THEN p99' = i /\ i' = 1 /\ Sampler("module")
       ELSE i' = i + 1 /\ UNCHANGED <<sampler, p99>>
  /\ UNCHANGED <<countVars, lastVars, sampling, req, total, windows, counted, logVars, writerVars,
                 workVars, stopVars, sumVars>>

\* The module counter's figure; the window's figures are complete.
ReadModule ==
  /\ sampler = "module"
  /\ req_sum' = req_sum + (req - last_requests)
  /\ done_sum' = done_sum + (module_done - last_module_done)
  /\ sampled' = sampled + total
  /\ Sampler("log")
  /\ UNCHANGED <<countVars, lastVars, sampling, i, req, total, acc, p99, windows, counted, logVars,
                 writerVars, workVars, stopVars>>

LogWindow ==
  /\ sampler = "log"
  /\ Log
  /\ total' = 0 /\ acc' = 0 /\ p99' = 0 /\ counted' = Zeroes
  /\ Sampler("buckets")
  /\ UNCHANGED <<countVars, lastVars, sampling, i, req, windows, writerVars, workVars, stopVars,
                 sumVars>>

(* The end of snapshot: the window ends with the count it began with, but  *)
(* with buckets and module counter read anew.                              *)
KeepBucket ==
  /\ sampler = "buckets"
  /\ last_requests' = req
  /\ last_buckets' = [last_buckets EXCEPT ![i] = lat_buckets[i]]
  /\ IF i < BUCKET_COUNT THEN i' = i + 1 /\ UNCHANGED sampler
                         ELSE i' = 1 /\ Sampler("keep")
  /\ UNCHANGED <<countVars, last_module_done, sampling, req, total, acc, p99, windows, counted,
                 logVars, writerVars, workVars, stopVars, sumVars>>

\* Slip: the module counter's last value is never taken.
KeepModule_Forgets ==
  /\ sampler = "keep"
  /\ Sampler(IF sampling THEN "sleep" ELSE "exited")
  /\ UNCHANGED <<countVars, lastVars, sampling, i, req, total, acc, p99, windows, counted,
                 logVars, writerVars, workVars, stopVars, sumVars>>

KeepModule ==
  /\ sampler = "keep"
  /\ last_module_done' = module_done
  /\ Sampler(IF sampling THEN "sleep" ELSE "exited")
  /\ UNCHANGED <<countVars, last_requests, last_buckets, sampling, i, req, total, acc, p99,
                 windows, counted, logVars, writerVars, workVars, stopVars, sumVars>>

---------------------------------------------------------------------------
(* The thread of Logger (worker_loop): it wakes when notified or after     *)
(* 50 ms, takes the whole queue and writes it.                             *)
WriterTakes ==
  /\ writer = "wait" /\ (queue # << >> \/ ~writing)
  /\ batch' = queue /\ queue' = << >>
  /\ writer' = "write"
  /\ UNCHANGED <<countVars, lastVars, samplerVars, logged, writing, written, workVars, stopVars,
                 sumVars>>

WriteLine ==
  /\ writer = "write" /\ batch # << >>
  /\ written' = Append(written, Head(batch)) /\ batch' = Tail(batch)
  /\ UNCHANGED <<countVars, lastVars, samplerVars, logVars, writing, writer, workVars, stopVars,
                 sumVars>>

BatchDone ==
  /\ writer = "write" /\ batch = << >>
  /\ writer' = IF writing THEN "wait" ELSE "exited"
  /\ UNCHANGED <<countVars, lastVars, samplerVars, logVars, writing, batch, written, workVars,
                 stopVars, sumVars>>

---------------------------------------------------------------------------
(* The end of Server::stop.  The work threads are not joined yet: one      *)
(* whose task outlived wait_idle may still count and log.                  *)
StopSampler ==
  /\ stage = "up" /\ stage' = "join sampler"
  /\ sampling' = FALSE
  /\ UNCHANGED <<countVars, lastVars, sampler, i, req, total, acc, p99, windows, counted,
                 logVars, writerVars, workVars, last, sumVars>>

StopWriter ==
  /\ stage = "join sampler" /\ sampler = "exited" /\ stage' = "join writer"
  /\ writing' = FALSE
  /\ UNCHANGED <<countVars, lastVars, samplerVars, logVars, writer, batch, written, workVars,
                 last, sumVars>>

\* Slip: flush_and_stop takes the last batch without waiting for the thread.
TakeLast_Unjoined ==
  /\ stage = "join writer" /\ stage' = "flush"
  /\ last' = queue /\ queue' = << >>
  /\ UNCHANGED <<countVars, lastVars, samplerVars, logged, writerVars, workVars, sumVars>>

TakeLast ==
  /\ stage = "join writer" /\ writer = "exited" /\ stage' = "flush"
  /\ last' = queue /\ queue' = << >>
  /\ UNCHANGED <<countVars, lastVars, samplerVars, logged, writerVars, workVars, sumVars>>

FlushLine ==
  /\ stage = "flush" /\ last # << >>
  /\ written' = Append(written, Head(last)) /\ last' = Tail(last)
  /\ UNCHANGED <<countVars, lastVars, samplerVars, logVars, writing, writer, batch, workVars,
                 stage, sumVars>>

StopDone ==
  /\ stage = "flush" /\ last = << >> /\ stage' = "done"
  /\ UNCHANGED <<countVars, lastVars, samplerVars, logVars, writerVars, workVars, last, sumVars>>

---------------------------------------------------------------------------
Request(w) == RequestFails(w) \/ ModuleTaskDone(w) \/ CountRequest(w) \/ CountLatency(w)
Snapshot == \/ SnapshotBegins \/ P99Total \/ P99Acc \/ ReadModule \/ LogWindow \/ KeepBucket
            \/ KeepModule
Writer == WriterTakes \/ WriteLine \/ BatchDone
Stop == StopWriter \/ TakeLast \/ FlushLine \/ StopDone

Next == \/ \E w \in Workers : RequestStarts(w) \/ Request(w)
        \/ Snapshot \/ Writer \/ StopSampler \/ Stop

\* The threads keep running; nobody has to bring a request or to stop.
Fairness == WF_vars(Snapshot) /\ WF_vars(Writer) /\ WF_vars(Stop)

Spec == Init /\ [][Next]_vars /\ Fairness

---------------------------------------------------------------------------
(* Properties.                                                             *)

\* Sums(f)[n] is f[1] + ... + f[n].
Sums(f) == LET s[n \in 0 .. BUCKET_COUNT] == IF n = 0 THEN 0 ELSE s[n - 1] + f[n]
           IN s
Window == [b \in Buckets |-> InWindow(b)]

(* The buckets change between the two passes of calc_window_p99, and it    *)
(* still errs only within their change.  Up to the bucket reported as p99  *)
(* the window holds, by now, what the target asks for; and what the first  *)
(* pass itself found falls short of it below that bucket.  So a latency    *)
(* counted between the passes may lower the bucket, never raise it, and    *)
(* the second pass never runs out of buckets before the target.  Of the    *)
(* latencies the first pass counted none need be in it or below: after two *)
(* slow ones a fast one between the passes makes it the fast one's.        *)
(* (README.md:630 says 99 in 100 or more; the code rounds the target down, *)
(* so that of fewer than 100 latencies the slowest may be left out.)       *)
P99IsBracketed ==
  sampler \in {"module", "log"} /\ total > 0 =>
    /\ Sums(Window)[p99] >= Target
    /\ p99 > 1 => Sums(counted)[p99 - 1] < Target

(* Nothing is counted in two windows.  The request figures cover every     *)
(* request once; what changes while a window is being printed is missing   *)
(* from the module and latency figures, but never there twice.             *)
WindowsAreDisjoint ==
  sampler = "sleep" =>
    /\ req_sum = last_requests /\ last_requests <= total_requests
    /\ done_sum <= last_module_done /\ last_module_done <= module_done
    /\ sampled <= Sums(last_buckets)[BUCKET_COUNT]

(* The log is an ordered stream: every line comes out once, in the order   *)
(* it was logged, whether the thread or flush_and_stop writes it, and      *)
(* while the Logger has not stopped it does come out.                      *)
Stream == INSTANCE OrderedStream WITH
  pipe <- IF stage = "done" THEN << >> ELSE batch \o last \o queue,
  out <- written,
  open <- stage # "done"
IsOrderedLog == Stream!Delivers
==============================================================================
