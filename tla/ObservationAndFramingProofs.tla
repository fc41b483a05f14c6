-------------------- MODULE ObservationAndFramingProofs ----------------------
(***************************************************************************)
(* Observation, for every set of work threads, every list of bucket bounds *)
(* and every number of requests and windows: the counters change between   *)
(* any two reads of them, and the percentile snapshot() prints errs within *)
(* that change only, and nothing is counted in two windows; and the log is *)
(* an ordered stream whoever writes it.                                    *)
(*                                                                         *)
(* Framing, for every base, header width, frame and read size, and every   *)
(* talk: the messages that arrive are the ones that were sent, however the *)
(* bytes are cut and however often a message is put back, and the buffer   *)
(* holds less than a frame and a read.                                     *)
(*                                                                         *)
(* Both are about functions defined by recursion - sums over the buckets,  *)
(* the numbers digits stand for, the messages from a position on.  The     *)
(* prover has no induction; a claim about every number is proved by taking *)
(* the least one it fails for (LeastNat).                                  *)
(***************************************************************************)
EXTENDS Observation, Framing, FiniteSetTheorems, SequenceTheorems, WellFoundedInduction, TLAPS

---------------------------------------------------------------------------
(* The least of some natural numbers: what stands in for induction.        *)
LEMMA LeastNat ==
  ASSUME NEW T, T \subseteq Nat, T # {}
  PROVE  \E x \in T : \A y \in T : x <= y
<1> DEFINE R == {ss \in Nat \X Nat : ss[1] < ss[2]}
<1>1. \A x, y \in Nat : x < y => <<x, y>> \in R
  OBVIOUS
<1>2. OpToRel(<, Nat) = R
  BY DEF OpToRel
<1> HIDE DEF R
<1>3. IsWellFoundedOn(R, Nat)
  BY <1>2, NatLessThanWellFounded, Zenon
<1>4. PICK x \in T : \A y \in T : ~ (<<y, x>> \in R)
  BY <1>3, WFMin
<1>5. \A y \in T : ~(y < x)
  BY <1>1, <1>4
<1>6. QED
  BY <1>5

\* There is a bucket.
LEMMA Bounds == BUCKET_COUNT \in Nat \ {0}
  BY ObservationAssumption, LenProperties, EmptySeq DEF BUCKET_COUNT

IsSums(s, f, n) == s = [k \in 0 .. n |-> IF k = 0 THEN 0 ELSE s[k - 1] + f[k]]

(* The sums exist ...                                                      *)
LEMMA SumsExist ==
  ASSUME NEW f, NEW n \in Nat
  PROVE  \E s : IsSums(s, f, n)
<1> DEFINE T == {m \in Nat : ~ \E s : IsSums(s, f, m)}
<1>1. SUFFICES ASSUME T # {} PROVE FALSE
  OBVIOUS
<1>2. PICK m \in T : \A y \in T : m <= y
  BY <1>1, LeastNat
<1>3. CASE m = 0
  <2>1. IsSums([k \in 0 .. 0 |-> 0], f, 0)
    BY DEF IsSums
  <2>2. QED
    BY <1>3, <2>1
<1>4. CASE m # 0
  <2>1. m \in Nat /\ m - 1 \in Nat /\ m - 1 \notin T
    BY <1>2, <1>4
  <2>2. PICK s : IsSums(s, f, m - 1)
    BY <2>1
  <2> DEFINE r == [k \in 0 .. m |-> IF k = m THEN s[m - 1] + f[m] ELSE s[k]]
  <2>3. ASSUME NEW k \in 0 .. m PROVE r[k] = IF k = 0 THEN 0 ELSE r[k - 1] + f[k]
    <3>1. CASE k = m
      BY <1>4, <2>1, <3>1
    <3>2. CASE k # m
      <4>1. k \in 0 .. (m - 1) /\ r[k] = s[k]
        BY <2>1, <3>2
      <4>2. s[k] = IF k = 0 THEN 0 ELSE s[k - 1] + f[k]
        BY <2>2, <4>1 DEF IsSums
      <4>3. k # 0 => r[k - 1] = s[k - 1]
        BY <2>1, <4>1
      <4>4. QED
        BY <4>1, <4>2, <4>3
    <3>3. QED
      BY <3>1, <3>2
  <2>4. IsSums(r, f, m)
    BY <2>3 DEF IsSums
  <2>5. QED
    BY <2>4
<1>5. QED
  BY <1>3, <1>4

(* ... and are what their definition says.                                 *)
LEMMA SumsAre ==
  ASSUME NEW f
  PROVE  IsSums(Sums(f), f, BUCKET_COUNT)
  BY SumsExist, Bounds DEF Sums, IsSums

\* The equation of Sums, as the proofs use it.
LEMMA SumsAt ==
  ASSUME NEW f
  PROVE  /\ Sums(f)[0] = 0
         /\ \A n \in Buckets : n - 1 \in 0 .. BUCKET_COUNT /\ Sums(f)[n] = Sums(f)[n - 1] + f[n]
<1>1. \A n \in 0 .. BUCKET_COUNT : Sums(f)[n] = IF n = 0 THEN 0 ELSE Sums(f)[n - 1] + f[n]
  BY SumsAre DEF IsSums
<1>2. 0 \in 0 .. BUCKET_COUNT
  BY Bounds
<1>3. \A n \in Buckets : n \in 0 .. BUCKET_COUNT /\ n # 0 /\ n - 1 \in 0 .. BUCKET_COUNT
  BY Bounds DEF Buckets
<1>4. QED
  BY <1>1, <1>2, <1>3

(* The sums of two functions that differ at one place.                     *)
LEMMA SumsChange ==
  ASSUME NEW f \in [Buckets -> Int], NEW g \in [Buckets -> Int], NEW b \in Buckets,
         \A c \in Buckets : c # b => g[c] = f[c]
  PROVE  \A n \in 0 .. BUCKET_COUNT :
           /\ Sums(f)[n] \in Int /\ Sums(g)[n] \in Int
           /\ Sums(g)[n] = Sums(f)[n] + (IF b <= n THEN g[b] - f[b] ELSE 0)
<1> DEFINE P(n) == /\ Sums(f)[n] \in Int /\ Sums(g)[n] \in Int
                   /\ Sums(g)[n] = Sums(f)[n] + (IF b <= n THEN g[b] - f[b] ELSE 0)
           T == {n \in 0 .. BUCKET_COUNT : ~P(n)}
<1>0. BUCKET_COUNT \in Nat /\ b \in 1 .. BUCKET_COUNT
  BY Bounds DEF Buckets
<1>1. SUFFICES ASSUME T # {} PROVE FALSE
  OBVIOUS
<1>2. T \subseteq Nat
  BY <1>0
<1>3. PICK m \in T : \A y \in T : m <= y
  <2> HIDE DEF T
  <2>1. QED
    BY <1>1, <1>2, LeastNat
<1>4. m # 0
  <2>1. SUFFICES ASSUME m = 0 PROVE FALSE
    OBVIOUS
  <2>2. ~P(0)
    BY <1>3, <2>1
  <2>3. Sums(f)[0] = 0 /\ Sums(g)[0] = 0 /\ ~(b <= 0)
    BY <1>0, SumsAt
  <2>4. QED
    BY <2>2, <2>3
<1>5. m \in Buckets /\ m - 1 \in 0 .. BUCKET_COUNT /\ m - 1 \notin T
  BY <1>0, <1>3, <1>4 DEF Buckets
<1>6. P(m - 1)
  BY <1>5
<1>7. Sums(f)[m] = Sums(f)[m - 1] + f[m] /\ Sums(g)[m] = Sums(g)[m - 1] + g[m]
  BY <1>5, SumsAt
<1>8. f[m] \in Int /\ g[m] \in Int /\ f[b] \in Int /\ g[b] \in Int /\ (m # b => g[m] = f[m])
  BY <1>5
<1>9. P(m)
  <2>1. Sums(f)[m] \in Int /\ Sums(g)[m] \in Int
    BY <1>6, <1>7, <1>8
  <2>2. CASE m = b
    <3>1. ~(b <= m - 1) /\ b <= m
      BY <1>0, <2>2
    <3>2. Sums(g)[m - 1] = Sums(f)[m - 1]
      BY <1>6, <3>1
    <3>3. QED
      BY <1>6, <1>7, <1>8, <2>1, <2>2, <3>1, <3>2
  <2>3. CASE m # b
    <3>1. (b <= m - 1) <=> (b <= m)
      BY <1>0, <1>5, <2>3 DEF Buckets
    <3>2. QED
      BY <1>6, <1>7, <1>8, <2>1, <2>3, <3>1
  <2>4. QED
    BY <2>2, <2>3
<1>10. QED
  BY <1>3, <1>9

\* Sums of integers are integers.
LEMMA SumsInt ==
  ASSUME NEW f \in [Buckets -> Int], NEW n \in 0 .. BUCKET_COUNT
  PROVE  Sums(f)[n] \in Int
<1>1. 1 \in Buckets
  BY Bounds DEF Buckets
<1>2. QED
  BY <1>1, SumsChange

\* One more somewhere: no sum gets less, and the later ones keep up.
LEMMA SumsGrow ==
  ASSUME NEW f \in [Buckets -> Int], NEW g \in [Buckets -> Int], NEW b \in Buckets,
         \A c \in Buckets : c # b => g[c] = f[c], g[b] = f[b] \/ g[b] = f[b] + 1
  PROVE  /\ \A n \in 0 .. BUCKET_COUNT : Sums(f)[n] <= Sums(g)[n]
         /\ \A m, n \in 0 .. BUCKET_COUNT : m <= n =>
              Sums(f)[n] - Sums(f)[m] <= Sums(g)[n] - Sums(g)[m]
<1>0. b \in Int /\ f[b] \in Int
  BY Bounds DEF Buckets
<1>1. \A n \in 0 .. BUCKET_COUNT :
           /\ Sums(f)[n] \in Int /\ Sums(g)[n] \in Int
           /\ Sums(g)[n] = Sums(f)[n] + (IF b <= n THEN g[b] - f[b] ELSE 0)
  BY SumsChange
<1>2. \A n \in 0 .. BUCKET_COUNT : Sums(f)[n] <= Sums(g)[n]
  BY <1>0, <1>1
<1>3. ASSUME NEW m \in 0 .. BUCKET_COUNT, NEW n \in 0 .. BUCKET_COUNT, m <= n
      PROVE  Sums(f)[n] - Sums(f)[m] <= Sums(g)[n] - Sums(g)[m]
  BY <1>0, <1>1, <1>3, Bounds
<1>4. QED
  BY <1>2, <1>3

\* bucket_index finds a bucket, whatever the latency.
LEMMA BucketOf == ASSUME NEW us PROVE bucket_index(us) \in Buckets
<1> DEFINE S == {b \in 1 .. BUCKET_COUNT - 1 : us >= Upper[b]}
<1>1. BUCKET_COUNT - 1 \in Nat
  BY Bounds
<1>2. IsFiniteSet(1 .. BUCKET_COUNT - 1) /\ Cardinality(1 .. BUCKET_COUNT - 1) = BUCKET_COUNT - 1
  <2>1. IsFiniteSet(1 .. BUCKET_COUNT - 1)
        /\ Cardinality(1 .. BUCKET_COUNT - 1)
             = IF 1 > BUCKET_COUNT - 1 THEN 0 ELSE (BUCKET_COUNT - 1) - 1 + 1
    BY <1>1, FS_Interval
  <2>2. QED
    BY <1>1, <2>1
<1>3. Cardinality(S) \in Nat /\ Cardinality(S) <= BUCKET_COUNT - 1
  <2>1. IsFiniteSet(S) /\ Cardinality(S) <= Cardinality(1 .. BUCKET_COUNT - 1)
    BY <1>2, FS_Subset
  <2>2. QED
    BY <1>2, <2>1, FS_CardinalityType
<1>4. bucket_index(us) = 1 + Cardinality(S)
  BY DEF bucket_index, Quantify
<1> DEFINE c == Cardinality(S)
<1> HIDE DEF S
<1>5. c \in Nat /\ c <= BUCKET_COUNT - 1
  BY <1>3
<1> HIDE DEF c
<1>6. 1 + c \in 1 .. BUCKET_COUNT
  BY <1>5, Bounds
<1>7. QED
  BY <1>4, <1>6 DEF Buckets, c

SamplerSteps == {"sleep", "total", "acc", "module", "log", "buckets", "keep", "exited"}

Counts == lat_buckets \in [Buckets -> Nat] /\ last_buckets \in [Buckets -> Nat]
          /\ \A b \in Buckets : last_buckets[b] <= lat_buckets[b]
Figures == /\ sampler \in SamplerSteps /\ i \in Buckets
           /\ total \in Nat /\ acc \in Nat /\ sampled \in Nat
           /\ p99 \in 0 .. BUCKET_COUNT
           /\ sampler \in {"sleep", "module", "log", "keep", "exited"} => i = 1
           /\ sampler \in {"sleep", "buckets", "keep", "exited"} => total = 0
           /\ sampler \in {"sleep", "total", "buckets", "keep", "exited"} => acc = 0

(* The requests: the figures add up to what the last window ended with, or *)
(* from ReadModule on to what this one will end with.                      *)
ReqInv == /\ total_requests \in Nat /\ last_requests \in Nat /\ req \in Nat
          /\ last_requests <= req /\ req <= total_requests
          /\ req_sum = IF sampler \in {"log", "buckets", "keep"} THEN req ELSE last_requests
          /\ sampler = "keep" => last_requests = req

(* The module tasks: what was read before the line is not above what is    *)
(* read after it.                                                          *)
DoneInv == /\ module_done \in Nat /\ last_module_done \in Nat /\ done_sum \in Int
           /\ last_module_done <= module_done
           /\ done_sum <= IF sampler \in {"log", "buckets", "keep"} THEN module_done
                                                                   ELSE last_module_done

(* How far the figures of the latencies may reach: where the sampler has   *)
(* already been, up to the counter, elsewhere up to the last window's end. *)
SeenNow(b) == \/ sampler = "total" /\ b < i
              \/ sampler \in {"acc", "module", "log"}
              \/ sampler = "buckets" /\ i <= b
Seen == [b \in Buckets |-> IF SeenNow(b) THEN lat_buckets[b] ELSE last_buckets[b]]
Unsummed == IF sampler \in {"total", "acc", "module"} THEN total ELSE 0
SampledInv == sampled + Unsummed <= Sums(Seen)[BUCKET_COUNT]

(* The second pass: what it has not read yet makes up for what it still    *)
(* misses of the first pass's total.                                       *)
P99Inv ==
  /\ sampler = "total" => total <= Sums(Window)[i - 1]
  /\ sampler = "acc" =>
       /\ acc <= Sums(Window)[i - 1]
       /\ total <= acc + Sums(Window)[BUCKET_COUNT] - Sums(Window)[i - 1]
  /\ sampler \in {"module", "log"} /\ total > 0 => Sums(Window)[p99] >= Target

(* What the first pass found is still there when the second comes to it:   *)
(* its sum is not behind, and where it goes on it is short of the target.  *)
SeenFirst(b) == sampler = "acc" \/ (sampler = "total" /\ b < i)
CountedInv ==
  /\ counted \in [Buckets -> Nat]
  /\ \A b \in Buckets : SeenFirst(b) => counted[b] <= InWindow(b)
  /\ sampler = "acc" => Sums(counted)[i - 1] <= acc /\ (i > 1 => acc < Target)
  /\ sampler \in {"module", "log"} /\ total > 0 /\ p99 > 1 => Sums(counted)[p99 - 1] < Target

SampleInv == Counts /\ Figures /\ ReqInv /\ DoneInv /\ SampledInv /\ P99Inv /\ CountedInv

---------------------------------------------------------------------------
sampleVars == <<total_requests, lat_buckets, module_done, lastVars, sampler, i, req, total, acc,
                p99, counted, sumVars>>

\* What a step is to the sampler.
LEMMA StepKinds ==
  ASSUME [Next]_vars
  PROVE  \/ UNCHANGED sampleVars \/ Snapshot
         \/ \E w \in Workers : ModuleTaskDone(w) \/ CountRequest(w) \/ CountLatency(w)
<1>1. CASE UNCHANGED vars
  BY <1>1 DEF vars, sampleVars, countVars, lastVars, samplerVars, sumVars
<1>2. ASSUME NEW w \in Workers, RequestStarts(w) \/ RequestFails(w)
      PROVE  UNCHANGED sampleVars
  BY <1>2 DEF RequestStarts, RequestFails, sampleVars, countVars, lastVars, samplerVars, sumVars
<1>3. CASE Writer
  BY <1>3 DEF Writer, WriterTakes, WriteLine, BatchDone, sampleVars, countVars, lastVars,
              samplerVars, sumVars
<1>4. CASE StopSampler \/ Stop
  <2>1. StopSampler => UNCHANGED sampleVars
    BY DEF StopSampler, sampleVars, countVars, lastVars, sumVars
  <2>2. StopWriter => UNCHANGED sampleVars
    BY DEF StopWriter, sampleVars, countVars, lastVars, samplerVars, sumVars
  <2>3. TakeLast => UNCHANGED sampleVars
    BY DEF TakeLast, sampleVars, countVars, lastVars, samplerVars, sumVars
  <2>4. FlushLine \/ StopDone => UNCHANGED sampleVars
    BY DEF FlushLine, StopDone, sampleVars, countVars, lastVars, samplerVars, sumVars
  <2>5. QED
    BY <1>4, <2>1, <2>2, <2>3, <2>4 DEF Stop
<1>5. QED
  BY <1>1, <1>2, <1>3, <1>4 DEF Next, Request

\* The last window's buckets never pass the counters.
LEMMA CountsStep == Counts /\ i \in Buckets /\ [Next]_vars => Counts'
<1>1. SUFFICES ASSUME Counts, i \in Buckets, [Next]_vars PROVE Counts'
  OBVIOUS
<1>2. CASE UNCHANGED <<lat_buckets, last_buckets>>
  BY <1>1, <1>2 DEF Counts
<1>3. ASSUME NEW w \in Workers, CountLatency(w) PROVE Counts'
  <2>1. lat_buckets' = [lat_buckets EXCEPT ![bucket_index(latency[w])] = @ + 1]
        /\ last_buckets' = last_buckets
    BY <1>3 DEF CountLatency, lastVars
  <2>2. bucket_index(latency[w]) \in Buckets
    BY BucketOf
  <2>3. QED
    BY <1>1, <2>1, <2>2 DEF Counts
<1>4. CASE KeepBucket
  <2>1. last_buckets' = [last_buckets EXCEPT ![i] = lat_buckets[i]] /\ lat_buckets' = lat_buckets
    BY <1>4 DEF KeepBucket, countVars
  <2>2. QED
    BY <1>1, <2>1 DEF Counts
<1>5. UNCHANGED sampleVars => UNCHANGED <<lat_buckets, last_buckets>>
  BY DEF sampleVars, lastVars
<1>6. ASSUME NEW w \in Workers, ModuleTaskDone(w) \/ CountRequest(w)
      PROVE UNCHANGED <<lat_buckets, last_buckets>>
  BY <1>6 DEF ModuleTaskDone, CountRequest, lastVars
<1>7. SnapshotBegins \/ P99Total \/ P99Acc => UNCHANGED <<lat_buckets, last_buckets>>
  BY DEF SnapshotBegins, P99Total, P99Acc, countVars, lastVars
<1>8. ReadModule \/ LogWindow \/ KeepModule => UNCHANGED <<lat_buckets, last_buckets>>
  BY DEF ReadModule, LogWindow, KeepModule, countVars, lastVars
<1>9. QED
  BY <1>1, <1>2, <1>3, <1>4, <1>5, <1>6, <1>7, <1>8, StepKinds DEF Snapshot

\* What a bucket holds of this window.
LEMMA InWindowNat == ASSUME Counts, NEW b \in Buckets PROVE InWindow(b) \in Nat
  BY DEF Counts, InWindow

\* The sampler's own variables, through snapshot().
LEMMA FiguresStep == Counts /\ Figures /\ [Next]_vars => Figures'
<1>1. SUFFICES ASSUME Counts, Figures, [Next]_vars PROVE Figures'
  OBVIOUS
<1>0. BUCKET_COUNT \in Nat \ {0} /\ 1 \in Buckets /\ i \in 1 .. BUCKET_COUNT
      /\ InWindow(i) \in Nat
  BY <1>1, Bounds, InWindowNat DEF Buckets, Figures
<1>2. CASE UNCHANGED <<sampler, i, total, acc, p99, sampled>>
  BY <1>1, <1>2 DEF Figures
<1>3. CASE SnapshotBegins
  BY <1>1, <1>3 DEF SnapshotBegins, Figures, SamplerSteps, Sampler, sumVars
<1>4. CASE P99Total
  <2>1. /\ sampler = "total" /\ total' = total + InWindow(i) /\ acc' = acc /\ sampled' = sampled
        /\ IF i < BUCKET_COUNT
             THEN i' = i + 1 /\ sampler' = sampler /\ p99' = p99
             ELSE i' = 1 /\ IF total' = 0 THEN p99' = 0 /\ sampler' = "module"
                                          ELSE sampler' = "acc" /\ p99' = p99
    BY <1>4 DEF P99Total, Sampler, sumVars
  <2>2. i < BUCKET_COUNT => i + 1 \in Buckets
    BY <1>0 DEF Buckets
  <2>3. total' \in Nat /\ 0 \in 0 .. BUCKET_COUNT
    BY <1>0, <1>1, <2>1 DEF Figures
  <2>4. QED
    BY <1>0, <1>1, <2>1, <2>2, <2>3 DEF Figures, SamplerSteps
<1>5. CASE P99Acc
  <2>1. /\ sampler = "acc" /\ acc' = acc + InWindow(i) /\ total' = total /\ sampled' = sampled
        /\ \/ p99' = i /\ i' = 1 /\ sampler' = "module"
           \/ i < BUCKET_COUNT /\ i' = i + 1 /\ sampler' = sampler /\ p99' = p99
    BY <1>0, <1>5 DEF P99Acc, Sampler, sumVars
  <2>2. i < BUCKET_COUNT => i + 1 \in Buckets
    BY <1>0 DEF Buckets
  <2>3. acc' \in Nat /\ i \in 0 .. BUCKET_COUNT
    BY <1>0, <1>1, <2>1 DEF Figures
  <2>4. QED
    BY <1>0, <1>1, <2>1, <2>2, <2>3 DEF Figures, SamplerSteps
<1>6. CASE ReadModule
  BY <1>1, <1>6 DEF ReadModule, Figures, SamplerSteps, Sampler
<1>7. CASE LogWindow
  BY <1>0, <1>1, <1>7 DEF LogWindow, Figures, SamplerSteps, Sampler, sumVars
<1>8. CASE KeepBucket
  <2>1. /\ sampler = "buckets" /\ UNCHANGED <<total, acc, p99, sampled>>
        /\ \/ i < BUCKET_COUNT /\ i' = i + 1 /\ sampler' = sampler
           \/ i' = 1 /\ sampler' = "keep"
    BY <1>8 DEF KeepBucket, Sampler, sumVars
  <2>2. i < BUCKET_COUNT => i + 1 \in Buckets
    BY <1>0 DEF Buckets
  <2>3. QED
    BY <1>0, <1>1, <2>1, <2>2 DEF Figures, SamplerSteps
<1>9. CASE KeepModule
  BY <1>1, <1>9 DEF KeepModule, Figures, SamplerSteps, Sampler, sumVars
<1>10. UNCHANGED sampleVars => UNCHANGED <<sampler, i, total, acc, p99, sampled>>
  BY DEF sampleVars, sumVars
<1>11. ASSUME NEW w \in Workers, ModuleTaskDone(w) \/ CountRequest(w) \/ CountLatency(w)
       PROVE UNCHANGED <<sampler, i, total, acc, p99, sampled>>
  BY <1>11 DEF ModuleTaskDone, CountRequest, CountLatency, samplerVars, sumVars
<1>12. QED
  BY <1>1, <1>2, <1>3, <1>4, <1>5, <1>6, <1>7, <1>8, <1>9, <1>10, <1>11, StepKinds DEF Snapshot

\* The window ends with the count of requests it began with.
LEMMA ReqStep == Figures /\ ReqInv /\ [Next]_vars => ReqInv'
<1>1. SUFFICES ASSUME Figures, ReqInv, [Next]_vars PROVE ReqInv'
  OBVIOUS
<1>2. CASE UNCHANGED <<total_requests, last_requests, req, req_sum, sampler>>
  BY <1>1, <1>2 DEF ReqInv
<1>3. ASSUME NEW w \in Workers, CountRequest(w) PROVE ReqInv'
  BY <1>1, <1>3 DEF CountRequest, ReqInv, lastVars, samplerVars, sumVars
<1>4. CASE SnapshotBegins
  BY <1>1, <1>4 DEF SnapshotBegins, ReqInv, Sampler, countVars, lastVars, sumVars
<1>5. CASE P99Total \/ P99Acc
  <2>1. sampler \in {"total", "acc"} /\ sampler' \in {"total", "acc", "module"}
        /\ UNCHANGED <<total_requests, last_requests, req, req_sum>>
    BY <1>5 DEF P99Total, P99Acc, Sampler, countVars, lastVars, sumVars
  <2>2. QED
    BY <1>1, <2>1 DEF ReqInv
<1>6. CASE ReadModule
  BY <1>1, <1>6 DEF ReadModule, ReqInv, Sampler, countVars, lastVars
<1>7. CASE LogWindow
  BY <1>1, <1>7 DEF LogWindow, ReqInv, Sampler, countVars, lastVars, sumVars
<1>8. CASE KeepBucket
  <2>1. sampler = "buckets" /\ sampler' \in {"buckets", "keep"} /\ last_requests' = req
        /\ UNCHANGED <<total_requests, req, req_sum>>
    BY <1>8 DEF KeepBucket, Sampler, countVars, sumVars
  <2>2. QED
    BY <1>1, <2>1 DEF ReqInv
<1>9. CASE KeepModule
  BY <1>1, <1>9 DEF KeepModule, ReqInv, Sampler, countVars, sumVars
<1>10. UNCHANGED sampleVars => UNCHANGED <<total_requests, last_requests, req, req_sum, sampler>>
  BY DEF sampleVars, lastVars, sumVars
<1>11. ASSUME NEW w \in Workers, ModuleTaskDone(w) \/ CountLatency(w)
       PROVE UNCHANGED <<total_requests, last_requests, req, req_sum, sampler>>
  BY <1>11 DEF ModuleTaskDone, CountLatency, samplerVars, sumVars, lastVars
<1>12. QED
  BY <1>1, <1>2, <1>3, <1>4, <1>5, <1>6, <1>7, <1>8, <1>9, <1>10, <1>11, StepKinds DEF Snapshot

\* The module counter is read for the line and read anew for the next window.
LEMMA DoneStep == Figures /\ DoneInv /\ [Next]_vars => DoneInv'
<1>1. SUFFICES ASSUME Figures, DoneInv, [Next]_vars PROVE DoneInv'
  OBVIOUS
<1>2. CASE UNCHANGED <<module_done, last_module_done, done_sum, sampler>>
  BY <1>1, <1>2 DEF DoneInv
<1>3. ASSUME NEW w \in Workers, ModuleTaskDone(w) PROVE DoneInv'
  BY <1>1, <1>3 DEF ModuleTaskDone, DoneInv, lastVars, samplerVars, sumVars
<1>4. CASE SnapshotBegins \/ P99Total \/ P99Acc
  <2>1. sampler \in {"sleep", "total", "acc"} /\ sampler' \in {"total", "acc", "module"}
        /\ UNCHANGED <<module_done, last_module_done, done_sum>>
    BY <1>4 DEF SnapshotBegins, P99Total, P99Acc, Sampler, countVars, lastVars, sumVars
  <2>2. QED
    BY <1>1, <2>1 DEF DoneInv
<1>5. CASE ReadModule
  BY <1>1, <1>5 DEF ReadModule, DoneInv, Sampler, countVars, lastVars
<1>6. CASE LogWindow \/ KeepBucket
  <2>1. sampler \in {"log", "buckets"} /\ sampler' \in {"buckets", "keep"}
        /\ UNCHANGED <<module_done, last_module_done, done_sum>>
    BY <1>6 DEF LogWindow, KeepBucket, Sampler, countVars, lastVars, sumVars
  <2>2. QED
    BY <1>1, <2>1 DEF DoneInv
<1>7. CASE KeepModule
  BY <1>1, <1>7 DEF KeepModule, DoneInv, Sampler, countVars, sumVars
<1>8. UNCHANGED sampleVars => UNCHANGED <<module_done, last_module_done, done_sum, sampler>>
  BY DEF sampleVars, lastVars, sumVars
<1>9. ASSUME NEW w \in Workers, CountRequest(w) \/ CountLatency(w)
      PROVE UNCHANGED <<module_done, last_module_done, done_sum, sampler>>
  BY <1>9 DEF CountRequest, CountLatency, samplerVars, sumVars, lastVars
<1>10. QED
  BY <1>1, <1>2, <1>3, <1>4, <1>5, <1>6, <1>7, <1>8, <1>9, StepKinds DEF Snapshot

\* What is summed here are integers.
LEMMA CountsAre ==
  ASSUME Counts
  PROVE  Window \in [Buckets -> Int] /\ Seen \in [Buckets -> Int]
         /\ lat_buckets \in [Buckets -> Int] /\ last_buckets \in [Buckets -> Int]
<1>1. lat_buckets \in [Buckets -> Int] /\ last_buckets \in [Buckets -> Int]
  BY DEF Counts
<1>2. Seen \in [Buckets -> Int]
  BY <1>1 DEF Seen
<1>3. Window \in [Buckets -> Int]
  BY InWindowNat DEF Window
<1>4. QED
  BY <1>1, <1>2, <1>3

\* Functions that agree on the buckets have the same sums.
LEMMA SumsSame ==
  ASSUME NEW f \in [Buckets -> Int], NEW g \in [Buckets -> Int], \A b \in Buckets : g[b] = f[b]
  PROVE  Sums(g) = Sums(f)
<1>1. g = f
  OBVIOUS
<1>2. QED
  BY <1>1

\* A request's latency: one bucket is one higher, of all and of the window.
LEMMA LatencyGrows ==
  ASSUME Counts, Counts', NEW w \in Workers, CountLatency(w)
  PROVE  /\ \A n \in 0 .. BUCKET_COUNT :
              Sums(Window)[n] <= Sums(Window')[n] /\ Sums(Seen)[n] <= Sums(Seen')[n]
         /\ \A m, n \in 0 .. BUCKET_COUNT : m <= n =>
              Sums(Window)[n] - Sums(Window)[m] <= Sums(Window')[n] - Sums(Window')[m]
<1> DEFINE b == bucket_index(latency[w])
<1>1. b \in Buckets
  BY BucketOf
<1> HIDE DEF b
<1>2. /\ lat_buckets' = [lat_buckets EXCEPT ![b] = @ + 1] /\ last_buckets' = last_buckets
      /\ sampler' = sampler /\ i' = i
  BY DEF CountLatency, b, lastVars, samplerVars
<1>3. \A c \in Buckets : /\ lat_buckets[c] \in Int /\ last_buckets[c] \in Int
                         /\ lat_buckets'[c] = IF c = b THEN lat_buckets[b] + 1 ELSE lat_buckets[c]
                         /\ last_buckets'[c] = last_buckets[c]
  BY <1>1, <1>2 DEF Counts
<1>4. Window \in [Buckets -> Int] /\ Seen \in [Buckets -> Int]
  BY CountsAre
<1>5. Window' \in [Buckets -> Int] /\ Seen' \in [Buckets -> Int]
  <2>1. Window' = [c \in Buckets |-> lat_buckets'[c] - last_buckets'[c]]
    BY DEF Window, InWindow
  <2>2. Seen' = [c \in Buckets |-> IF SeenNow(c)' THEN lat_buckets'[c] ELSE last_buckets'[c]]
    BY DEF Seen
  <2>3. QED
    BY <1>3, <2>1, <2>2
<1>6. \A c \in Buckets : c # b => Window'[c] = Window[c]
  BY <1>3 DEF Window, InWindow
<1>7. Window'[b] = Window[b] + 1
  BY <1>1, <1>3 DEF Window, InWindow
<1>8. \A c \in Buckets : SeenNow(c)' <=> SeenNow(c)
  BY <1>2 DEF SeenNow
<1>9. \A c \in Buckets : c # b => Seen'[c] = Seen[c]
  BY <1>3, <1>8 DEF Seen
<1>10. Seen'[b] = Seen[b] \/ Seen'[b] = Seen[b] + 1
  BY <1>1, <1>3, <1>8 DEF Seen
<1>11. /\ \A n \in 0 .. BUCKET_COUNT : Sums(Window)[n] <= Sums(Window')[n]
       /\ \A m, n \in 0 .. BUCKET_COUNT : m <= n =>
              Sums(Window)[n] - Sums(Window)[m] <= Sums(Window')[n] - Sums(Window')[m]
  BY <1>1, <1>4, <1>5, <1>6, <1>7, SumsGrow
<1>12. \A n \in 0 .. BUCKET_COUNT : Sums(Seen)[n] <= Sums(Seen')[n]
  BY <1>1, <1>4, <1>5, <1>9, <1>10, SumsGrow
<1>13. QED
  BY <1>11, <1>12

\* A step that leaves Seen alone leaves its sum alone.
LEMMA SeenSame ==
  ASSUME Counts, Counts', \A b \in Buckets : Seen'[b] = Seen[b]
  PROVE  Sums(Seen') = Sums(Seen)
<1>1. Seen \in [Buckets -> Int]
  BY CountsAre
<1>2. Seen' \in [Buckets -> Int]
  <2>1. Seen' = [c \in Buckets |-> IF SeenNow(c)' THEN lat_buckets'[c] ELSE last_buckets'[c]]
    BY DEF Seen
  <2>2. QED
    BY <2>1 DEF Counts
<1>3. QED
  BY <1>1, <1>2, SumsSame

\* The latencies: each step of the sampler moves the limit as far as the figure.
LEMMA SampledStep ==
  ASSUME Counts, Counts', Figures, Figures', SampledInv, [Next]_vars
  PROVE  SampledInv'
<1> DEFINE S == Sums(Seen)[BUCKET_COUNT]
<1>0. /\ BUCKET_COUNT \in Nat \ {0} /\ i \in 1 .. BUCKET_COUNT /\ S \in Int
      /\ BUCKET_COUNT \in 0 .. BUCKET_COUNT
      /\ total \in Nat /\ sampled \in Nat /\ Seen \in [Buckets -> Int]
  <2>1. BUCKET_COUNT \in Nat \ {0} /\ BUCKET_COUNT \in 0 .. BUCKET_COUNT
    BY Bounds
  <2>2. QED
    BY <2>1, CountsAre, SumsInt DEF Figures, Buckets
<1>s. SUFFICES sampled' + Unsummed' <= Sums(Seen')[BUCKET_COUNT]
  BY DEF SampledInv
<1>h. sampled + Unsummed <= S
  BY DEF SampledInv
\* a step that moves no figure
<1>k. ASSUME sampled' + Unsummed' <= sampled + Unsummed,
             \A b \in Buckets : Seen'[b] = Seen[b]
      PROVE  sampled' + Unsummed' <= Sums(Seen')[BUCKET_COUNT]
  <2>1. Sums(Seen') = Sums(Seen)
    BY <1>k, SeenSame
  <2>2. sampled \in Int /\ Unsummed \in Int /\ sampled' \in Int /\ Unsummed' \in Int
    BY DEF Figures, Unsummed
  <2>3. QED
    BY <1>0, <1>h, <1>k, <2>1, <2>2
<1>2. CASE UNCHANGED <<lat_buckets, last_buckets, sampler, i, total, sampled>>
  <2>1. sampled' = sampled /\ Unsummed' = Unsummed /\ Seen' = Seen
    BY <1>2 DEF Unsummed, Seen, SeenNow
  <2>2. QED
    BY <2>1, <1>h
<1>3. ASSUME NEW w \in Workers, CountLatency(w)
      PROVE sampled' + Unsummed' <= Sums(Seen')[BUCKET_COUNT]
  <2>1. sampled' = sampled /\ Unsummed' = Unsummed
    BY <1>3 DEF CountLatency, samplerVars, sumVars, Unsummed
  <2>2. S <= Sums(Seen')[BUCKET_COUNT]
    BY <1>0, <1>3, LatencyGrows
  <2>3. Sums(Seen')[BUCKET_COUNT] \in Int
    <3>1. Seen' = [c \in Buckets |-> IF SeenNow(c)' THEN lat_buckets'[c] ELSE last_buckets'[c]]
      BY DEF Seen
    <3>2. Seen' \in [Buckets -> Int]
      BY <3>1 DEF Counts
    <3>3. QED
      BY <1>0, <3>2, SumsInt
  <2>4. Unsummed \in Int
    BY <1>0 DEF Unsummed
  <2>5. QED
    BY <1>0, <1>h, <2>1, <2>2, <2>3, <2>4
<1>4. CASE SnapshotBegins
  <2>1. sampler = "sleep" /\ sampler' = "total" /\ i = 1 /\ total = 0
        /\ UNCHANGED <<lat_buckets, last_buckets, i, total, sampled>>
    BY <1>4 DEF SnapshotBegins, Sampler, Figures, countVars, lastVars, sumVars
  <2>2. \A b \in Buckets : ~ SeenNow(b) /\ ~ SeenNow(b)'
    BY <2>1 DEF SeenNow, Buckets
  <2>3. \A b \in Buckets : Seen'[b] = Seen[b]
    BY <2>1, <2>2 DEF Seen
  <2>4. sampled' + Unsummed' <= sampled + Unsummed
    BY <1>0, <2>1 DEF Unsummed
  <2>5. QED
    BY <1>k, <2>3, <2>4
<1>5. CASE P99Total
  <2>1. /\ sampler = "total" /\ total' = total + InWindow(i) /\ sampled' = sampled
        /\ UNCHANGED <<lat_buckets, last_buckets>>
        /\ \/ i < BUCKET_COUNT /\ i' = i + 1 /\ sampler' = "total"
           \/ i = BUCKET_COUNT /\ sampler' \in {"acc", "module"}
    BY <1>0, <1>5 DEF P99Total, Sampler, countVars, lastVars, sumVars
  <2>2. \A b \in Buckets : SeenNow(b) <=> b < i
    BY <2>1 DEF SeenNow
  <2>3. \A b \in Buckets : SeenNow(b)' <=> b <= i
    <3>1. CASE i < BUCKET_COUNT /\ i' = i + 1 /\ sampler' = "total"
      <4>1. \A b \in Buckets : SeenNow(b)' <=> b < i + 1
        BY <3>1 DEF SeenNow
      <4>2. QED
        BY <1>0, <4>1 DEF Buckets
    <3>2. CASE i = BUCKET_COUNT /\ sampler' \in {"acc", "module"}
      BY <1>0, <3>2 DEF SeenNow, Buckets
    <3>3. QED
      BY <2>1, <3>1, <3>2
  <2>4. i \in Buckets /\ lat_buckets[i] \in Int /\ last_buckets[i] \in Int
    BY DEF Figures, Counts
  <2>5. \A b \in Buckets : b # i => Seen'[b] = Seen[b]
    <3>1. \A b \in Buckets : b # i => (SeenNow(b)' <=> SeenNow(b))
      BY <1>0, <2>2, <2>3 DEF Buckets
    <3>2. QED
      BY <2>1, <3>1 DEF Seen
  <2>6. ASSUME NEW b \in Buckets, b = i
        PROVE  Seen[b] = last_buckets[b] /\ Seen'[b] = lat_buckets[b]
    <3>1. ~ SeenNow(b) /\ SeenNow(b)'
      BY <1>0, <2>2, <2>3, <2>6
    <3>2. QED
      BY <2>1, <3>1 DEF Seen
  <2>7. Seen' \in [Buckets -> Int]
    <3>1. Seen' = [c \in Buckets |-> IF SeenNow(c)' THEN lat_buckets'[c] ELSE last_buckets'[c]]
      BY DEF Seen
    <3>2. QED
      BY <3>1 DEF Counts
  <2>8. Sums(Seen')[BUCKET_COUNT] = S + (Seen'[i] - Seen[i])
    <3>1. Sums(Seen')[BUCKET_COUNT]
            = Sums(Seen)[BUCKET_COUNT] + (IF i <= BUCKET_COUNT THEN Seen'[i] - Seen[i] ELSE 0)
      BY <1>0, <2>4, <2>5, <2>7, SumsChange
    <3>2. i <= BUCKET_COUNT
      BY <1>0
    <3>3. QED
      BY <3>1, <3>2
  <2>9. Unsummed = total /\ Unsummed' = total + (lat_buckets[i] - last_buckets[i])
    BY <2>1 DEF Unsummed, InWindow
  <2>10. QED
    BY <1>0, <1>h, <2>1, <2>4, <2>6, <2>8, <2>9
<1>6. CASE P99Acc
  <2>1. sampler = "acc" /\ sampler' \in {"acc", "module"}
        /\ UNCHANGED <<lat_buckets, last_buckets, total, sampled>>
    BY <1>6 DEF P99Acc, Sampler, countVars, lastVars, sumVars
  <2>2. \A b \in Buckets : SeenNow(b) /\ SeenNow(b)'
    BY <2>1 DEF SeenNow
  <2>3. \A b \in Buckets : Seen'[b] = Seen[b]
    BY <2>1, <2>2 DEF Seen
  <2>4. sampled' + Unsummed' <= sampled + Unsummed
    BY <1>0, <2>1 DEF Unsummed
  <2>5. QED
    BY <1>k, <2>3, <2>4
<1>7. CASE ReadModule
  <2>1. sampler = "module" /\ sampler' = "log" /\ sampled' = sampled + total
        /\ UNCHANGED <<lat_buckets, last_buckets>>
    BY <1>7 DEF ReadModule, Sampler, countVars, lastVars
  <2>2. \A b \in Buckets : SeenNow(b) /\ SeenNow(b)'
    BY <2>1 DEF SeenNow
  <2>3. \A b \in Buckets : Seen'[b] = Seen[b]
    BY <2>1, <2>2 DEF Seen
  <2>4. sampled' + Unsummed' <= sampled + Unsummed
    BY <1>0, <2>1 DEF Unsummed
  <2>5. QED
    BY <1>k, <2>3, <2>4
<1>8. CASE LogWindow
  <2>1. sampler = "log" /\ sampler' = "buckets" /\ i = 1
        /\ UNCHANGED <<lat_buckets, last_buckets, i, sampled>>
    BY <1>8 DEF LogWindow, Sampler, Figures, countVars, lastVars, sumVars
  <2>2. \A b \in Buckets : SeenNow(b) /\ SeenNow(b)'
    BY <1>0, <2>1 DEF SeenNow, Buckets
  <2>3. \A b \in Buckets : Seen'[b] = Seen[b]
    BY <2>1, <2>2 DEF Seen
  <2>4. sampled' + Unsummed' <= sampled + Unsummed
    BY <1>0, <2>1 DEF Unsummed
  <2>5. QED
    BY <1>k, <2>3, <2>4
<1>9. CASE KeepBucket
  <2>1. /\ sampler = "buckets" /\ lat_buckets' = lat_buckets
        /\ last_buckets' = [last_buckets EXCEPT ![i] = lat_buckets[i]]
        /\ UNCHANGED <<total, sampled>>
        /\ \/ i < BUCKET_COUNT /\ i' = i + 1 /\ sampler' = "buckets"
           \/ i = BUCKET_COUNT /\ sampler' = "keep"
    BY <1>0, <1>9 DEF KeepBucket, Sampler, countVars, sumVars
  <2>2. \A b \in Buckets : SeenNow(b) <=> i <= b
    BY <2>1 DEF SeenNow
  <2>3. \A b \in Buckets : SeenNow(b)' <=> i < b
    <3>1. CASE i < BUCKET_COUNT /\ i' = i + 1 /\ sampler' = "buckets"
      <4>1. \A b \in Buckets : SeenNow(b)' <=> i + 1 <= b
        BY <3>1 DEF SeenNow
      <4>2. QED
        BY <1>0, <4>1 DEF Buckets
    <3>2. CASE i = BUCKET_COUNT /\ sampler' = "keep"
      BY <1>0, <3>2 DEF SeenNow, Buckets
    <3>3. QED
      BY <2>1, <3>1, <3>2
  <2>4. \A b \in Buckets : last_buckets'[b] = IF b = i THEN lat_buckets[i] ELSE last_buckets[b]
    BY <2>1 DEF Counts, Figures
  <2>5. ASSUME NEW b \in Buckets PROVE Seen'[b] = Seen[b]
    <3>1. Seen'[b] = IF i < b THEN lat_buckets[b] ELSE last_buckets'[b]
      BY <2>1, <2>3 DEF Seen
    <3>2. Seen[b] = IF i <= b THEN lat_buckets[b] ELSE last_buckets[b]
      BY <2>2 DEF Seen
    <3>3. CASE b = i
      BY <1>0, <2>4, <3>1, <3>2, <3>3
    <3>4. CASE b # i
      BY <1>0, <2>4, <3>1, <3>2, <3>4 DEF Buckets
    <3>5. QED
      BY <3>3, <3>4
  <2>6. sampled' + Unsummed' <= sampled + Unsummed
    BY <1>0, <2>1 DEF Unsummed
  <2>7. QED
    BY <1>k, <2>5, <2>6
<1>10. CASE KeepModule
  <2>1. sampler = "keep" /\ sampler' \in {"sleep", "exited"}
        /\ UNCHANGED <<lat_buckets, last_buckets, sampled, total>>
    BY <1>10 DEF KeepModule, Sampler, countVars, lastVars, sumVars
  <2>2. \A b \in Buckets : ~ SeenNow(b) /\ ~ SeenNow(b)'
    BY <2>1 DEF SeenNow
  <2>3. \A b \in Buckets : Seen'[b] = Seen[b]
    BY <2>1, <2>2 DEF Seen
  <2>4. sampled' + Unsummed' <= sampled + Unsummed
    BY <1>0, <2>1 DEF Unsummed
  <2>5. QED
    BY <1>k, <2>3, <2>4
<1>11. UNCHANGED sampleVars => UNCHANGED <<lat_buckets, last_buckets, sampler, i, total, sampled>>
  BY DEF sampleVars, lastVars, sumVars
<1>12. ASSUME NEW w \in Workers, ModuleTaskDone(w) \/ CountRequest(w)
       PROVE UNCHANGED <<lat_buckets, last_buckets, sampler, i, total, sampled>>
  BY <1>12 DEF ModuleTaskDone, CountRequest, lastVars, samplerVars, sumVars
<1>13. QED
  BY <1>2, <1>3, <1>4, <1>5, <1>6, <1>7, <1>8, <1>9, <1>10, <1>11, <1>12, StepKinds
     DEF Snapshot

\* The target is a number, and not more than the total.
LEMMA TargetIsLess ==
  ASSUME total \in Nat
  PROVE  Target \in Int /\ Target <= total
  BY DEF Target

\* The two passes of calc_window_p99, with latencies counted between any two reads.
LEMMA P99Step ==
  ASSUME Counts, Counts', Figures, Figures', P99Inv, [Next]_vars
  PROVE  P99Inv'
<1>0. /\ BUCKET_COUNT \in Nat \ {0} /\ i \in 1 .. BUCKET_COUNT /\ i \in Buckets
      /\ BUCKET_COUNT \in 0 .. BUCKET_COUNT /\ 0 \in 0 .. BUCKET_COUNT
      /\ i - 1 \in 0 .. BUCKET_COUNT /\ i \in 0 .. BUCKET_COUNT
      /\ total \in Nat /\ acc \in Nat /\ p99 \in 0 .. BUCKET_COUNT
  BY Bounds DEF Figures, Buckets
<1>w. \A n \in 0 .. BUCKET_COUNT : Sums(Window)[n] \in Int
  BY CountsAre, SumsInt
<1>a. /\ Sums(Window)[0] = 0
      /\ Sums(Window)[i] = Sums(Window)[i - 1] + InWindow(i)
      /\ InWindow(i) \in Nat
  BY <1>0, SumsAt, InWindowNat DEF Window
<1>2. CASE UNCHANGED <<lat_buckets, last_buckets, sampler, i, total, acc, p99>>
  <2>1. Window' = Window /\ Target' = Target
    BY <1>2 DEF Window, InWindow, Target
  <2>2. QED
    BY <1>2, <2>1 DEF P99Inv
<1>3. ASSUME NEW w \in Workers, CountLatency(w) PROVE P99Inv'
  <2>1. UNCHANGED <<sampler, i, total, acc, p99>>
    BY <1>3 DEF CountLatency, samplerVars
  <2>2. /\ \A n \in 0 .. BUCKET_COUNT : Sums(Window)[n] <= Sums(Window')[n]
        /\ \A m, n \in 0 .. BUCKET_COUNT : m <= n =>
              Sums(Window)[n] - Sums(Window)[m] <= Sums(Window')[n] - Sums(Window')[m]
    BY <1>3, LatencyGrows
  <2>3. \A n \in 0 .. BUCKET_COUNT : Sums(Window')[n] \in Int
    <3>1. Window' = [c \in Buckets |-> lat_buckets'[c] - last_buckets'[c]]
      BY DEF Window, InWindow
    <3>2. Window' \in [Buckets -> Int]
      BY <3>1 DEF Counts
    <3>3. QED
      BY <3>2, SumsInt
  <2>4. sampler = "total" => total <= Sums(Window')[i - 1]
    BY <1>0, <1>w, <2>2, <2>3 DEF P99Inv
  <2>5. sampler = "acc" => acc <= Sums(Window')[i - 1]
    BY <1>0, <1>w, <2>2, <2>3 DEF P99Inv
  <2>6. sampler = "acc" => total <= acc + Sums(Window')[BUCKET_COUNT] - Sums(Window')[i - 1]
    <3>1. i - 1 <= BUCKET_COUNT
      BY <1>0
    <3>2. Sums(Window)[BUCKET_COUNT] - Sums(Window)[i - 1]
            <= Sums(Window')[BUCKET_COUNT] - Sums(Window')[i - 1]
      BY <1>0, <2>2, <3>1
    <3>3. QED
      BY <1>0, <1>w, <2>3, <3>2 DEF P99Inv
  <2>7. sampler \in {"module", "log"} /\ total > 0 => Sums(Window')[p99] >= Target
    <3>1. Sums(Window)[p99] <= Sums(Window')[p99] /\ Sums(Window)[p99] \in Int
          /\ Sums(Window')[p99] \in Int
      BY <1>0, <1>w, <2>2, <2>3
    <3>2. QED
      BY <1>0, <3>1, TargetIsLess DEF P99Inv
  <2>8. Target' = Target
    BY <2>1 DEF Target
  <2>9. QED
    BY <2>1, <2>4, <2>5, <2>6, <2>7, <2>8 DEF P99Inv
<1>4. CASE SnapshotBegins
  <2>1. sampler' = "total" /\ i' = 1 /\ total' = 0
        /\ UNCHANGED <<lat_buckets, last_buckets>>
    BY <1>4 DEF SnapshotBegins, Sampler, Figures, countVars, lastVars
  <2>2. Window' = Window
    BY <2>1 DEF Window, InWindow
  <2>3. QED
    BY <1>a, <2>1, <2>2 DEF P99Inv
<1>5. CASE P99Total
  <2>1. /\ sampler = "total" /\ total' = total + InWindow(i) /\ acc' = 0
        /\ UNCHANGED <<lat_buckets, last_buckets>>
        /\ \/ i' = i + 1 /\ sampler' = "total"
           \/ i = BUCKET_COUNT /\ i' = 1 /\ sampler' = "acc"
           \/ total' = 0 /\ sampler' = "module"
    BY <1>0, <1>5 DEF P99Total, Sampler, Figures, countVars, lastVars
  <2>2. Window' = Window
    BY <2>1 DEF Window, InWindow
  <2>3. total' <= Sums(Window)[i]
    BY <1>0, <1>w, <1>a, <2>1 DEF P99Inv
  <2>4. CASE i' = i + 1 /\ sampler' = "total"
    <3>1. i' - 1 = i
      BY <1>0, <2>4
    <3>2. QED
      BY <2>2, <2>3, <2>4, <3>1 DEF P99Inv
  <2>5. CASE i = BUCKET_COUNT /\ i' = 1 /\ sampler' = "acc"
    <3>1. total' <= 0 + Sums(Window)[BUCKET_COUNT] - Sums(Window)[0]
      BY <1>0, <1>w, <1>a, <2>3, <2>5
    <3>2. i' - 1 = 0
      BY <2>5
    <3>3. QED
      BY <1>a, <2>1, <2>2, <2>5, <3>1, <3>2 DEF P99Inv
  <2>6. CASE total' = 0 /\ sampler' = "module"
    BY <2>6 DEF P99Inv
  <2>7. QED
    BY <2>1, <2>4, <2>5, <2>6
<1>6. CASE P99Acc
  <2>1. /\ sampler = "acc" /\ acc' = acc + InWindow(i) /\ total' = total
        /\ UNCHANGED <<lat_buckets, last_buckets>>
        /\ \/ i' = i + 1 /\ sampler' = "acc"
           \/ /\ acc' >= Target \/ i = BUCKET_COUNT
              /\ p99' = i /\ sampler' = "module"
    BY <1>6 DEF P99Acc, Sampler, countVars, lastVars
  <2>2. Window' = Window
    BY <2>1 DEF Window, InWindow
  <2>3. acc <= Sums(Window)[i - 1]
        /\ total <= acc + Sums(Window)[BUCKET_COUNT] - Sums(Window)[i - 1]
    BY <2>1 DEF P99Inv
  <2>4. acc' <= Sums(Window)[i] /\ acc' \in Int
    BY <1>0, <1>w, <1>a, <2>1, <2>3
  <2>5. total <= acc' + Sums(Window)[BUCKET_COUNT] - Sums(Window)[i]
    <3>1. Sums(Window)[BUCKET_COUNT] \in Int /\ Sums(Window)[i - 1] \in Int
      BY <1>0, <1>w
    <3>2. QED
      BY <1>0, <1>a, <2>1, <2>3, <3>1
  <2>6. CASE i' = i + 1 /\ sampler' = "acc"
    <3>1. i' - 1 = i
      BY <1>0, <2>6
    <3>2. QED
      BY <2>1, <2>2, <2>4, <2>5, <2>6, <3>1 DEF P99Inv
  <2>7. CASE /\ acc' >= Target \/ i = BUCKET_COUNT
             /\ p99' = i /\ sampler' = "module"
    <3>1. Sums(Window)[i] \in Int
      BY <1>0, <1>w
    <3>2. Sums(Window)[i] >= Target
      <4>1. Target \in Int /\ Target <= total
        BY <1>0, TargetIsLess
      <4>2. CASE acc' >= Target
        BY <2>4, <3>1, <4>1, <4>2
      <4>3. CASE i = BUCKET_COUNT
        BY <1>0, <2>4, <2>5, <3>1, <4>1, <4>3
      <4>4. QED
        BY <2>7, <4>2, <4>3
    <3>3. QED
      BY <2>1, <2>2, <2>7, <3>2 DEF P99Inv, Target
  <2>8. QED
    BY <2>1, <2>6, <2>7
<1>7. CASE ReadModule
  <2>1. sampler = "module" /\ sampler' = "log"
        /\ UNCHANGED <<lat_buckets, last_buckets, total, p99>>
    BY <1>7 DEF ReadModule, Sampler, countVars, lastVars
  <2>2. Window' = Window /\ Target' = Target
    BY <2>1 DEF Window, InWindow, Target
  <2>3. QED
    BY <2>1, <2>2 DEF P99Inv
<1>8. CASE LogWindow \/ KeepBucket \/ KeepModule
  <2>1. sampler' \in {"buckets", "keep", "sleep", "exited"}
    BY <1>8 DEF LogWindow, KeepBucket, KeepModule, Sampler
  <2>2. QED
    BY <2>1 DEF P99Inv
<1>9. UNCHANGED sampleVars
        => UNCHANGED <<lat_buckets, last_buckets, sampler, i, total, acc, p99>>
  BY DEF sampleVars, lastVars
<1>10. ASSUME NEW w \in Workers, ModuleTaskDone(w) \/ CountRequest(w)
       PROVE UNCHANGED <<lat_buckets, last_buckets, sampler, i, total, acc, p99>>
  BY <1>10 DEF ModuleTaskDone, CountRequest, lastVars, samplerVars
<1>11. QED
  BY <1>2, <1>3, <1>4, <1>5, <1>6, <1>7, <1>8, <1>9, <1>10, StepKinds DEF Snapshot

(* The same of what the first pass found: no bucket falls below it before  *)
(* the second pass has read it.                                            *)
LEMMA CountedStep ==
  ASSUME Counts, Counts', Figures, Figures', CountedInv, [Next]_vars
  PROVE  CountedInv'
<1>0. /\ BUCKET_COUNT \in Nat \ {0} /\ i \in 1 .. BUCKET_COUNT /\ i \in Buckets /\ i - 1 \in Int
      /\ i - 1 \in 0 .. BUCKET_COUNT /\ total \in Nat /\ acc \in Nat /\ Target \in Int
  BY Bounds, TargetIsLess DEF Figures, Buckets
<1>c. counted \in [Buckets -> Nat] /\ \A b \in Buckets : InWindow(b) \in Nat /\ b \in Int
  BY InWindowNat, Bounds DEF CountedInv, Buckets
<1>s. Sums(counted)[i - 1] \in Int
  BY <1>0, <1>c, SumsInt
<1>a. Sums(counted)[0] = 0 /\ Sums(counted)[i] = Sums(counted)[i - 1] + counted[i]
  BY <1>0, SumsAt
<1>2. CASE UNCHANGED <<lat_buckets, last_buckets, sampler, i, total, acc, p99, counted>>
  <2>1. Target' = Target /\ \A b \in Buckets : InWindow(b)' = InWindow(b) /\ SeenFirst(b)' = SeenFirst(b)
    BY <1>2 DEF InWindow, Target, SeenFirst
  <2>2. QED
    BY <1>2, <2>1 DEF CountedInv
<1>3. ASSUME NEW w \in Workers, CountLatency(w) PROVE CountedInv'
  <2>1. UNCHANGED <<last_buckets, sampler, i, total, acc, p99, counted>>
        /\ lat_buckets' = [lat_buckets EXCEPT ![bucket_index(latency[w])] = @ + 1]
    BY <1>3 DEF CountLatency, samplerVars, lastVars
  <2>2. \A b \in Buckets : InWindow(b)' \in Nat /\ InWindow(b)' >= InWindow(b)
    BY <2>1 DEF InWindow, Counts
  <2>3. Target' = Target /\ \A b \in Buckets : SeenFirst(b)' = SeenFirst(b)
    BY <2>1 DEF Target, SeenFirst
  <2>4. \A b \in Buckets : SeenFirst(b)' => counted'[b] <= InWindow(b)'
    BY <1>c, <2>1, <2>2, <2>3 DEF CountedInv
  <2>5. QED
    BY <2>1, <2>3, <2>4 DEF CountedInv
<1>4. CASE SnapshotBegins
  <2>1. sampler' = "total" /\ i' = 1 /\ counted' = counted
    BY <1>4 DEF SnapshotBegins, Sampler, Figures
  <2>2. \A b \in Buckets : ~SeenFirst(b)'
    BY <2>1, Bounds DEF SeenFirst, Buckets
  <2>3. QED
    BY <1>c, <2>1, <2>2 DEF CountedInv
<1>5. CASE P99Total
  <2>1. /\ sampler = "total" /\ counted' = [counted EXCEPT ![i] = InWindow(i)] /\ acc' = 0
        /\ UNCHANGED <<lat_buckets, last_buckets>>
        /\ \/ i' = i + 1 /\ sampler' = "total"
           \/ i = BUCKET_COUNT /\ i' = 1 /\ sampler' = "acc"
           \/ total' = 0 /\ sampler' = "module"
    BY <1>0, <1>5 DEF P99Total, Sampler, Figures, countVars, lastVars
  <2>2. \A b \in Buckets : InWindow(b)' = InWindow(b)
    BY <2>1 DEF InWindow
  <2>3. counted' \in [Buckets -> Nat]
    BY <1>0, <1>c, <2>1
  <2>4. \A b \in Buckets : b <= i => counted'[b] <= InWindow(b)'
    <3>1. SUFFICES ASSUME NEW b \in Buckets, b <= i PROVE counted'[b] <= InWindow(b)
      BY <2>2
    <3>2. CASE b = i
      BY <1>c, <2>1, <3>2
    <3>3. CASE b # i
      BY <1>0, <1>c, <2>1, <3>1, <3>3 DEF CountedInv, SeenFirst
    <3>4. QED
      BY <3>2, <3>3
  <2>5. CASE i' = i + 1 /\ sampler' = "total"
    <3>1. \A b \in Buckets : SeenFirst(b)' => b <= i
      BY <1>0, <1>c, <2>5 DEF SeenFirst
    <3>2. QED
      BY <2>3, <2>4, <2>5, <3>1 DEF CountedInv
  <2>6. CASE i = BUCKET_COUNT /\ i' = 1 /\ sampler' = "acc"
    <3>1. \A b \in Buckets : b <= i
      BY <2>6 DEF Buckets
    <3>2. i' - 1 = 0 /\ ~(i' > 1) /\ Sums(counted')[0] = 0
      BY <2>6, SumsAt
    <3>3. Sums(counted')[i' - 1] <= acc'
      BY <2>1, <3>2
    <3>4. QED
      BY <2>3, <2>4, <2>6, <3>1, <3>2, <3>3 DEF CountedInv
  <2>7. CASE total' = 0 /\ sampler' = "module"
    BY <2>3, <2>7 DEF CountedInv, SeenFirst
  <2>8. QED
    BY <2>1, <2>5, <2>6, <2>7
<1>6. CASE P99Acc
  <2>1. /\ sampler = "acc" /\ acc' = acc + InWindow(i) /\ counted' = counted /\ Target' = Target
        /\ UNCHANGED <<lat_buckets, last_buckets>>
        /\ \/ ~(acc' >= Target) /\ i' = i + 1 /\ sampler' = "acc"
           \/ p99' = i /\ sampler' = "module"
    BY <1>6 DEF P99Acc, Sampler, Target, countVars, lastVars
  <2>2. \A b \in Buckets : InWindow(b)' = InWindow(b) /\ counted[b] <= InWindow(b)
    BY <2>1 DEF InWindow, CountedInv, SeenFirst
  <2>3. Sums(counted)[i - 1] <= acc /\ (i > 1 => acc < Target)
    BY <2>1 DEF CountedInv
  <2>4. CASE ~(acc' >= Target) /\ i' = i + 1 /\ sampler' = "acc"
    <3>1. counted[i] <= InWindow(i) /\ counted[i] \in Nat /\ InWindow(i) \in Nat
      BY <1>0, <1>c, <2>2
    <3>2. Sums(counted)[i] <= acc' /\ acc' < Target
      BY <1>0, <1>a, <1>s, <2>1, <2>3, <2>4, <3>1
    <3>3. i' - 1 = i
      BY <1>0, <2>4
    <3>4. QED
      BY <1>c, <2>1, <2>2, <2>4, <3>2, <3>3 DEF CountedInv
  <2>5. CASE p99' = i /\ sampler' = "module"
    <3>1. i > 1 => Sums(counted)[i - 1] < Target
      BY <1>0, <1>s, <2>3
    <3>2. QED
      BY <1>c, <2>1, <2>5, <3>1 DEF CountedInv, SeenFirst
  <2>6. QED
    BY <2>1, <2>4, <2>5
<1>7. CASE ReadModule
  <2>1. sampler = "module" /\ sampler' = "log" /\ UNCHANGED <<total, p99, counted>> /\ Target' = Target
    BY <1>7 DEF ReadModule, Sampler, Target
  <2>2. QED
    BY <2>1 DEF CountedInv, SeenFirst
<1>8. CASE LogWindow \/ KeepBucket \/ KeepModule
  <2>1. sampler' \in {"buckets", "keep", "sleep", "exited"}
        /\ (counted' = counted \/ counted' = Zeroes)
    BY <1>8 DEF LogWindow, KeepBucket, KeepModule, Sampler
  <2>2. counted' \in [Buckets -> Nat]
    BY <1>c, <2>1 DEF Zeroes
  <2>3. QED
    BY <2>1, <2>2 DEF CountedInv, SeenFirst
<1>9. UNCHANGED sampleVars
        => UNCHANGED <<lat_buckets, last_buckets, sampler, i, total, acc, p99, counted>>
  BY DEF sampleVars, lastVars
<1>10. ASSUME NEW w \in Workers, ModuleTaskDone(w) \/ CountRequest(w)
       PROVE UNCHANGED <<lat_buckets, last_buckets, sampler, i, total, acc, p99, counted>>
  BY <1>10 DEF ModuleTaskDone, CountRequest, lastVars, samplerVars
<1>11. QED
  BY <1>2, <1>3, <1>4, <1>5, <1>6, <1>7, <1>8, <1>9, <1>10, StepKinds DEF Snapshot

---------------------------------------------------------------------------
\* Nothing is counted yet.
LEMMA SampleInit == Init => SampleInv
<1>1. SUFFICES ASSUME Init PROVE SampleInv
  OBVIOUS
<1>2. 1 \in Buckets /\ 0 \in 0 .. BUCKET_COUNT /\ BUCKET_COUNT \in Buckets
      /\ BUCKET_COUNT \in 0 .. BUCKET_COUNT
  BY Bounds DEF Buckets
<1>3. Counts
  BY <1>1 DEF Init, Counts, Zeroes
<1>4. Figures /\ ReqInv /\ DoneInv
  BY <1>1, <1>2 DEF Init, Figures, ReqInv, DoneInv, SamplerSteps
<1>5. SampledInv
  <2>1. Seen = Zeroes /\ sampled + Unsummed = 0
    BY <1>1, <1>2 DEF Init, Seen, SeenNow, Unsummed, Zeroes
  <2>2. Zeroes \in [Buckets -> Int]
    BY DEF Zeroes
  <2> DEFINE T == {n \in 0 .. BUCKET_COUNT : Sums(Zeroes)[n] # 0}
  <2>3. T = {}
    <3>1. SUFFICES ASSUME T # {} PROVE FALSE
      OBVIOUS
    <3>2. T \subseteq Nat
      BY Bounds
    <3>3. PICK m \in T : \A y \in T : m <= y
      <4> HIDE DEF T
      <4>1. QED
        BY <3>1, <3>2, LeastNat
    <3>4. m # 0
      BY <3>3, SumsAt
    <3>5. m \in Buckets /\ m - 1 \in 0 .. BUCKET_COUNT /\ m - 1 \notin T
      BY <3>3, <3>4, Bounds DEF Buckets
    <3>6. Sums(Zeroes)[m - 1] = 0 /\ Zeroes[m] = 0
      BY <3>5 DEF Zeroes
    <3>7. Sums(Zeroes)[m] = 0
      BY <3>5, <3>6, SumsAt
    <3>8. QED
      BY <3>3, <3>7
  <2>4. Sums(Zeroes)[BUCKET_COUNT] = 0
    BY <1>2, <2>3
  <2>5. QED
    BY <2>1, <2>4 DEF SampledInv
<1>6. P99Inv /\ CountedInv
  BY <1>1 DEF Init, P99Inv, CountedInv, SeenFirst, Zeroes
<1>7. QED
  BY <1>3, <1>4, <1>5, <1>6 DEF SampleInv

\* Together the parts are inductive ...
LEMMA SampleStep == SampleInv /\ [Next]_vars => SampleInv'
<1>1. SUFFICES ASSUME Counts, Figures, ReqInv, DoneInv, SampledInv, P99Inv, CountedInv,
                      [Next]_vars
               PROVE  SampleInv'
  BY DEF SampleInv
<1>2. Counts'
  BY <1>1, CountsStep DEF Figures
<1>3. Figures' /\ ReqInv' /\ DoneInv'
  BY <1>1, FiguresStep, ReqStep, DoneStep
<1>4. SampledInv' /\ P99Inv' /\ CountedInv'
  BY <1>1, <1>2, <1>3, SampledStep, P99Step, CountedStep
<1>5. QED
  BY <1>2, <1>3, <1>4 DEF SampleInv

\* ... and hold throughout.
LEMMA SampleHolds == Spec => []SampleInv
  BY SampleInit, SampleStep, PTL DEF Spec

(* The bucket reported as p99 is not above the one the first pass's own    *)
(* counts call for, and not below the one the window's counts call for by  *)
(* now, whatever is counted between the reads of calc_window_p99.          *)
THEOREM P99ErrsWithinTheChange == Spec => []P99IsBracketed
<1>1. SampleInv => P99IsBracketed
  BY DEF SampleInv, P99Inv, CountedInv, P99IsBracketed
<1>2. QED
  BY <1>1, SampleHolds, PTL

(* No request, module task or latency is counted in two of the windows     *)
(* snapshot() prints.                                                      *)
THEOREM NothingIsCountedTwice == Spec => []WindowsAreDisjoint
<1>1. ASSUME SampleInv PROVE WindowsAreDisjoint
  <2>1. SUFFICES ASSUME sampler = "sleep"
                 PROVE  /\ req_sum = last_requests /\ last_requests <= total_requests
                        /\ done_sum <= last_module_done /\ last_module_done <= module_done
                        /\ sampled <= Sums(last_buckets)[BUCKET_COUNT]
    BY DEF WindowsAreDisjoint
  <2>2. req_sum = last_requests /\ last_requests <= total_requests
    BY <1>1, <2>1 DEF SampleInv, ReqInv
  <2>3. done_sum <= last_module_done /\ last_module_done <= module_done
    BY <1>1, <2>1 DEF SampleInv, DoneInv
  <2>4. Seen = last_buckets
    <3>1. \A b \in Buckets : ~ SeenNow(b)
      BY <2>1 DEF SeenNow
    <3>2. QED
      BY <1>1, <3>1 DEF Seen, SampleInv, Counts
  <2>5. Unsummed = 0 /\ sampled \in Nat
    BY <1>1, <2>1 DEF Unsummed, SampleInv, Figures
  <2>6. sampled <= Sums(last_buckets)[BUCKET_COUNT]
    BY <1>1, <2>4, <2>5 DEF SampleInv, SampledInv
  <2>7. QED
    BY <2>2, <2>3, <2>6
<1>2. QED
  BY <1>1, SampleHolds, PTL

---------------------------------------------------------------------------
(* The log implements OrderedStream.                                       *)

(* Who holds lines that were taken from the queue: the thread while it     *)
(* writes, and flush_and_stop once the thread has exited; never both.      *)
LogTypes == /\ queue \in Seq(Nat) /\ batch \in Seq(Nat) /\ last \in Seq(Nat)
            /\ written \in Seq(Nat) /\ logged \in Nat
LogInv == /\ LogTypes
          /\ batch # << >> => writer = "write"
          /\ last # << >> => stage = "flush"
          /\ stage \in {"flush", "done"} => writer = "exited"

\* A line more at the end.
LEMMA Ends ==
  ASSUME NEW p \in Seq(Nat), NEW x \in Nat
  PROVE  /\ Len(Append(p, x)) > Len(p) /\ SubSeq(Append(p, x), 1, Len(p)) = p
         /\ \A q \in Seq(Nat) : q \o Append(p, x) = Append(q \o p, x)
<1>1. Append(p, x) = p \o <<x>> /\ <<x>> \in Seq(Nat) /\ Len(p) \in Nat
  BY AppendIsConcat, LenProperties
<1>2. Len(Append(p, x)) = Len(p) + 1
  BY AppendProperties
<1>3. SubSeq(p \o <<x>>, 1, Len(p)) = p
  <2>1. SubSeq(p, 1, Len(p)) = p
    BY SubSeqFull
  <2>2. CASE Len(p) = 0
    <3>1. SubSeq(p \o <<x>>, 1, 0) = << >> /\ p = << >>
      BY <2>2, SubSeqEmpty, EmptySeq
    <3>2. QED
      BY <2>2, <3>1
  <2>3. CASE Len(p) # 0
    <3>1. 1 \in 1 .. Len(p) /\ Len(p) \in 1 .. Len(p)
      BY <1>1, <2>3
    <3>2. SubSeq(p \o <<x>>, 1, Len(p)) = SubSeq(p, 1, Len(p))
      BY <1>1, <3>1, SubSeqOfConcat1
    <3>3. QED
      BY <2>1, <3>2
  <2>4. QED
    BY <2>2, <2>3
<1>4. ASSUME NEW q \in Seq(Nat) PROVE q \o Append(p, x) = Append(q \o p, x)
  <2>1. q \o p \in Seq(Nat)
    BY ConcatProperties
  <2>2. Append(q \o p, x) = (q \o p) \o <<x>>
    BY <2>1, AppendIsConcat
  <2>3. (q \o p) \o <<x>> = q \o (p \o <<x>>)
    <3>1. q \in Seq(Nat) /\ p \in Seq(Nat) /\ <<x>> \in Seq(Nat)
      BY <1>1
    <3> DEFINE e == <<x>>
    <3> HIDE DEF e
    <3>2. (q \o p) \o e = q \o (p \o e)
      BY <3>1, ConcatAssociative DEF e
    <3>3. QED
      BY <3>2 DEF e
  <2>4. QED
    BY <1>1, <2>2, <2>3
<1>5. QED
  BY <1>1, <1>2, <1>3, <1>4

\* A line less at the front.
LEMMA Starts ==
  ASSUME NEW p \in Seq(Nat), p # << >>, NEW w \in Seq(Nat), NEW q \in Seq(Nat)
  PROVE  /\ Head(p) \in Nat /\ Tail(p) \in Seq(Nat) /\ Append(w, Head(p)) \in Seq(Nat)
         /\ 1 \in 1 .. Len(p \o q)
         /\ Append(w, Head(p)) = w \o SubSeq(p \o q, 1, 1)
         /\ Tail(p) \o q = SubSeq(p \o q, 1 + 1, Len(p \o q))
<1>1. Head(p) \in Nat /\ Tail(p) \in Seq(Nat)
  BY HeadTailProperties
<1>2. Len(p) \in Nat \ {0} /\ Len(q) \in Nat
  BY EmptySeq, LenProperties
<1>3. p \o q \in Seq(Nat) /\ Len(p \o q) = Len(p) + Len(q)
  BY ConcatProperties
<1>4. p \o q # << >> /\ 1 \in 1 .. Len(p \o q)
  BY <1>2, <1>3, EmptySeq
<1>5. p = <<Head(p)>> \o Tail(p)
  <2>1. SubSeq(p, 1, Len(p)) = << p[1] >> \o SubSeq(p, 1 + 1, Len(p))
    <3>1. 1 \in 1 .. Len(p) /\ Len(p) \in 1 .. Len(p)
      BY <1>2
    <3>2. QED
      BY <3>1, SubSeqRecursiveFirst
  <2>2. SubSeq(p, 1, Len(p)) = p
    BY SubSeqFull
  <2>3. Tail(p) = SubSeq(p, 2, Len(p))
    BY TailIsSubSeq
  <2>4. Head(p) = p[1]
    OBVIOUS
  <2>5. QED
    BY <2>1, <2>2, <2>3, <2>4
<1>6. <<Head(p)>> \in Seq(Nat) /\ Len(<<Head(p)>>) = 1 /\ Tail(p) \o q \in Seq(Nat)
  BY <1>1, ConcatProperties
<1>7. p \o q = <<Head(p)>> \o (Tail(p) \o q)
  <2>1. (<<Head(p)>> \o Tail(p)) \o q = <<Head(p)>> \o (Tail(p) \o q)
    BY <1>1, <1>6, ConcatAssociative
  <2>2. QED
    BY <1>5, <2>1
<1> DEFINE h == <<Head(p)>>
           r == Tail(p) \o q
<1>8. h \in Seq(Nat) /\ r \in Seq(Nat) /\ Len(h) = 1 /\ p \o q = h \o r /\ Len(r) \in Nat
  BY <1>6, <1>7, LenProperties
<1>9. Append(w, Head(p)) = w \o h /\ Append(w, Head(p)) \in Seq(Nat)
  BY <1>1, AppendIsConcat, AppendProperties
<1> HIDE DEF h, r
<1>10. SubSeq(h \o r, 1, 1) = h
  <2>1. SubSeq(h, 1, 1) = h
    BY <1>8, SubSeqFull
  <2>2. SubSeq(h \o r, 1, 1) = SubSeq(h, 1, 1)
    <3>1. 1 \in 1 .. Len(h)
      BY <1>8
    <3>2. QED
      BY <1>8, <3>1, SubSeqOfConcat1
  <2>3. QED
    BY <2>1, <2>2
<1>11. Len(h \o r) = 1 + Len(r)
  BY <1>8, ConcatProperties
<1>12. SubSeq(h \o r, 1 + 1, Len(h \o r)) = r
  <2>1. CASE Len(r) = 0
    <3>1. r = << >>
      BY <1>8, <2>1, EmptySeq
    <3>2. SubSeq(h \o r, 2, 1) = << >>
      BY SubSeqEmpty
    <3>3. QED
      BY <1>11, <2>1, <3>1, <3>2
  <2>2. CASE Len(r) # 0
    <3>1. 2 \in Len(h) + 1 .. Len(h) + Len(r) /\ 1 + Len(r) \in Len(h) + 1 .. Len(h) + Len(r)
      BY <1>8, <2>2
    <3>2. SubSeq(h \o r, 2, 1 + Len(r)) = SubSeq(r, 2 - Len(h), (1 + Len(r)) - Len(h))
      BY <1>8, <3>1, SubSeqOfConcat2
    <3>3. 2 - Len(h) = 1 /\ (1 + Len(r)) - Len(h) = Len(r)
      BY <1>8
    <3>4. SubSeq(r, 1, Len(r)) = r
      BY <1>8, SubSeqFull
    <3>5. QED
      BY <1>11, <3>2, <3>3, <3>4
  <2>3. QED
    BY <2>1, <2>2
<1>13. QED
  <2>1. w \o h = w \o SubSeq(p \o q, 1, 1)
    BY <1>8, <1>10
  <2>2. r = SubSeq(p \o q, 1 + 1, Len(p \o q))
    BY <1>8, <1>12
  <2>3. Tail(p) \o q = r
    BY DEF r
  <2>4. QED
    BY <1>1, <1>4, <1>9, <2>1, <2>2, <2>3

logState == <<queue, batch, last, written, logged, writer, stage>>

\* A step of the abstract stream, or none.
Streams == [Stream!Next]_(Stream!svars)

\* What leaves the log alone.
LEMMA QuietIsQuiet == LogInv /\ UNCHANGED logState => LogInv' /\ Streams
<1>1. SUFFICES ASSUME LogInv, UNCHANGED logState PROVE LogInv' /\ Streams
  OBVIOUS
<1>2. UNCHANGED <<queue, batch, last, written, logged, writer, stage>>
  BY <1>1 DEF logState
<1>3. LogInv'
  BY <1>1, <1>2 DEF LogInv, LogTypes
<1>4. UNCHANGED Stream!svars
  BY <1>2 DEF Stream!svars
<1>5. QED
  BY <1>3, <1>4 DEF Streams

\* A line is put in behind the others; a stopped Logger only queues it.
LEMMA LogIsPut ==
  ASSUME LogInv, Log, UNCHANGED <<batch, last, written, writer, stage>>
  PROVE  LogInv' /\ Streams
<1>1. queue \in Seq(Nat) /\ batch \in Seq(Nat) /\ last \in Seq(Nat) /\ logged + 1 \in Nat
  BY DEF LogInv, LogTypes
<1>2. queue' = Append(queue, logged + 1) /\ logged' = logged + 1
  BY DEF Log
<1>3. queue' \in Seq(Nat)
  BY <1>1, <1>2, AppendProperties
<1>4. LogInv'
  BY <1>1, <1>2, <1>3 DEF LogInv, LogTypes
<1>5. CASE stage = "done"
  <2>1. UNCHANGED Stream!svars
    BY <1>5 DEF Stream!svars
  <2>2. QED
    BY <1>4, <2>1 DEF Streams
<1>6. CASE stage # "done"
  <2> DEFINE p == batch \o last \o queue
             r == batch \o last \o queue'
  <2>1. batch \o last \in Seq(Nat)
    BY <1>1, ConcatProperties
  <2>2. p \in Seq(Nat)
    BY <1>1, <2>1, ConcatProperties
  <2>3. r = Append(p, logged + 1)
    BY <1>1, <1>2, <2>1, Ends
  <2>4. Len(r) > Len(p) /\ SubSeq(r, 1, Len(p)) = p
    <3>1. Len(Append(p, logged + 1)) > Len(p) /\ SubSeq(Append(p, logged + 1), 1, Len(p)) = p
      <4> HIDE DEF p
      <4>1. QED
        BY <1>1, <2>2, Ends
    <3>2. QED
      BY <2>3, <3>1
  <2>5. Stream!Put
    BY <1>6, <2>4 DEF Stream!Put
  <2>6. QED
    BY <1>4, <2>5 DEF Streams, Stream!Next
<1>7. QED
  BY <1>5, <1>6

\* The queue is taken: nothing goes in or out.
LEMMA TakesNothing ==
  ASSUME LogInv, WriterTakes \/ BatchDone \/ TakeLast
  PROVE  LogInv' /\ Streams
<1>1. queue \in Seq(Nat) /\ batch \in Seq(Nat) /\ last \in Seq(Nat) /\ << >> \in Seq(Nat)
  BY EmptySeq DEF LogInv, LogTypes
<1>2. << >> \o << >> \o queue = queue /\ queue \o << >> = queue /\ << >> \o queue = queue
      /\ << >> \o << >> = << >>
  BY <1>1, ConcatEmptySeq
<1>3. CASE WriterTakes
  <2>1. /\ writer = "wait" /\ writer' = "write" /\ batch' = queue /\ queue' = << >>
        /\ UNCHANGED <<last, written, logged, stage>>
    BY <1>3 DEF WriterTakes, stopVars
  <2>2. batch = << >> /\ stage \notin {"flush", "done"} /\ last = << >>
    BY <2>1 DEF LogInv
  <2>3. batch \o last \o queue = batch' \o last' \o queue'
    BY <1>2, <2>1, <2>2
  <2>4. UNCHANGED Stream!svars
    BY <2>1, <2>3 DEF Stream!svars
  <2>5. LogInv'
    BY <1>1, <2>1, <2>2 DEF LogInv, LogTypes
  <2>6. QED
    BY <2>4, <2>5 DEF Streams
<1>4. CASE BatchDone
  <2>1. /\ writer = "write" /\ batch = << >>
        /\ UNCHANGED <<queue, batch, last, written, logged, stage>>
    BY <1>4 DEF BatchDone, logVars, stopVars
  <2>2. LogInv'
    BY <2>1 DEF LogInv, LogTypes
  <2>3. UNCHANGED Stream!svars
    BY <2>1 DEF Stream!svars
  <2>4. QED
    BY <2>2, <2>3 DEF Streams
<1>5. CASE TakeLast
  <2>1. /\ stage = "join writer" /\ writer = "exited" /\ stage' = "flush"
        /\ last' = queue /\ queue' = << >>
        /\ UNCHANGED <<batch, written, logged, writer>>
    BY <1>5 DEF TakeLast, writerVars
  <2>2. batch = << >> /\ last = << >>
    BY <2>1 DEF LogInv
  <2>3. batch \o last \o queue = batch' \o last' \o queue'
    BY <1>2, <2>1, <2>2
  <2>4. UNCHANGED Stream!svars
    BY <2>1, <2>3 DEF Stream!svars
  <2>5. LogInv'
    BY <1>1, <2>1, <2>2 DEF LogInv, LogTypes
  <2>6. QED
    BY <2>4, <2>5 DEF Streams
<1>6. QED
  BY <1>3, <1>4, <1>5

\* The thread or flush_and_stop writes: the first line of all comes out.
LEMMA WritesTheFirst ==
  ASSUME LogInv, WriteLine \/ FlushLine
  PROVE  LogInv' /\ Streams
<1>1. /\ queue \in Seq(Nat) /\ batch \in Seq(Nat) /\ last \in Seq(Nat) /\ written \in Seq(Nat)
      /\ << >> \in Seq(Nat)
  BY EmptySeq DEF LogInv, LogTypes
<1>2. CASE WriteLine
  <2>1. /\ writer = "write" /\ batch # << >> /\ written' = Append(written, Head(batch))
        /\ batch' = Tail(batch) /\ UNCHANGED <<queue, last, logged, writer, stage>>
    BY <1>2 DEF WriteLine, logVars, stopVars
  <2>2. stage \notin {"flush", "done"} /\ last = << >>
    BY <2>1 DEF LogInv
  <2>3. /\ Tail(batch) \in Seq(Nat) /\ Append(written, Head(batch)) \in Seq(Nat)
        /\ 1 \in 1 .. Len(batch \o queue)
        /\ Append(written, Head(batch)) = written \o SubSeq(batch \o queue, 1, 1)
        /\ Tail(batch) \o queue = SubSeq(batch \o queue, 1 + 1, Len(batch \o queue))
    <3>1. batch \in Seq(Nat) /\ batch # << >> /\ written \in Seq(Nat) /\ queue \in Seq(Nat)
      BY <1>1, <2>1
    <3>2. QED
      BY <3>1, Starts
  <2>4. batch \o last = batch /\ Tail(batch) \o last = Tail(batch)
    BY <1>1, <2>2, <2>3, ConcatEmptySeq
  <2>5. Stream!Move
    BY <2>1, <2>2, <2>3, <2>4 DEF Stream!Move
  <2>6. LogInv'
    BY <1>1, <2>1, <2>2, <2>3 DEF LogInv, LogTypes
  <2>7. QED
    BY <2>5, <2>6 DEF Streams, Stream!Next
<1>3. CASE FlushLine
  <2>1. /\ stage = "flush" /\ last # << >> /\ written' = Append(written, Head(last))
        /\ last' = Tail(last) /\ UNCHANGED <<queue, batch, logged, writer, stage>>
    BY <1>3 DEF FlushLine, logVars
  <2>2. batch = << >>
    BY <2>1 DEF LogInv
  <2>3. /\ Tail(last) \in Seq(Nat) /\ Append(written, Head(last)) \in Seq(Nat)
        /\ 1 \in 1 .. Len(last \o queue)
        /\ Append(written, Head(last)) = written \o SubSeq(last \o queue, 1, 1)
        /\ Tail(last) \o queue = SubSeq(last \o queue, 1 + 1, Len(last \o queue))
    BY <1>1, <2>1, Starts
  <2>4. batch \o last = last /\ batch \o Tail(last) = Tail(last)
    BY <1>1, <2>2, <2>3, ConcatEmptySeq
  <2>5. Stream!Move
    BY <2>1, <2>3, <2>4 DEF Stream!Move
  <2>6. LogInv'
    BY <1>1, <2>1, <2>3 DEF LogInv, LogTypes
  <2>7. QED
    BY <2>5, <2>6 DEF Streams, Stream!Next
<1>4. QED
  BY <1>2, <1>3

\* The rest of Server::stop: only its end breaks the stream.
LEMMA StopOnlyBreaks ==
  ASSUME LogInv, StopSampler \/ StopWriter \/ StopDone
  PROVE  LogInv' /\ Streams
<1>1. CASE StopSampler \/ StopWriter
  <2>1. /\ stage \notin {"flush", "done"} /\ stage' \notin {"flush", "done"}
        /\ UNCHANGED <<queue, batch, last, written, logged, writer>>
    BY <1>1 DEF StopSampler, StopWriter, logVars, writerVars
  <2>2. LogInv'
    BY <2>1 DEF LogInv, LogTypes
  <2>3. UNCHANGED Stream!svars
    BY <2>1 DEF Stream!svars
  <2>4. QED
    BY <2>2, <2>3 DEF Streams
<1>2. CASE StopDone
  <2>1. /\ stage = "flush" /\ stage' = "done" /\ last = << >>
        /\ UNCHANGED <<queue, batch, last, written, logged, writer>>
    BY <1>2 DEF StopDone, logVars, writerVars
  <2>2. LogInv'
    BY <2>1 DEF LogInv, LogTypes
  <2> DEFINE p == batch \o last \o queue
  <2>3. p \in Seq(Nat) /\ Len(p) \in Nat
    BY ConcatProperties, LenProperties DEF LogInv, LogTypes
  <2>4. SubSeq(p, Len(p) + 1, Len(p)) = << >>
    <3> HIDE DEF p
    <3>1. QED
      BY <2>3
  <2>5. Stream!Break
    BY <2>1, <2>3, <2>4 DEF Stream!Break
  <2>6. QED
    BY <2>2, <2>5 DEF Streams, Stream!Next
<1>3. QED
  BY <1>1, <1>2

\* Every step keeps LogInv, and is one of the stream or none.
LEMMA LogStep == LogInv /\ [Next]_vars => LogInv' /\ Streams
<1>1. SUFFICES ASSUME LogInv, [Next]_vars PROVE LogInv' /\ Streams
  OBVIOUS
<1>2. CASE UNCHANGED logState
  BY <1>1, <1>2, QuietIsQuiet
<1>3. ASSUME NEW w \in Workers, RequestFails(w) PROVE LogInv' /\ Streams
  <2>1. Log /\ UNCHANGED <<batch, last, written, writer, stage>>
    BY <1>3 DEF RequestFails, writerVars, stopVars
  <2>2. QED
    BY <1>1, <2>1, LogIsPut
<1>4. CASE LogWindow
  <2>1. Log /\ UNCHANGED <<batch, last, written, writer, stage>>
    BY <1>4 DEF LogWindow, writerVars, stopVars
  <2>2. QED
    BY <1>1, <2>1, LogIsPut
<1>5. CASE WriterTakes \/ BatchDone \/ TakeLast
  BY <1>1, <1>5, TakesNothing
<1>6. CASE WriteLine \/ FlushLine
  BY <1>1, <1>6, WritesTheFirst
<1>7. CASE StopSampler \/ StopWriter \/ StopDone
  BY <1>1, <1>7, StopOnlyBreaks
<1>8. UNCHANGED vars => UNCHANGED logState
  BY DEF vars, logVars, writerVars, stopVars, logState
<1>9. ASSUME NEW w \in Workers,
             RequestStarts(w) \/ ModuleTaskDone(w) \/ CountRequest(w) \/ CountLatency(w)
      PROVE UNCHANGED logState
  BY <1>9 DEF RequestStarts, ModuleTaskDone, CountRequest, CountLatency, logVars, writerVars,
              stopVars, logState
<1>10. SnapshotBegins \/ P99Total \/ P99Acc => UNCHANGED logState
  BY DEF SnapshotBegins, P99Total, P99Acc, logVars, writerVars, stopVars, logState
<1>11. ReadModule \/ KeepBucket \/ KeepModule => UNCHANGED logState
  BY DEF ReadModule, KeepBucket, KeepModule, logVars, writerVars, stopVars, logState
<1>12. QED
  BY <1>1, <1>2, <1>3, <1>4, <1>5, <1>6, <1>7, <1>8, <1>9, <1>10, <1>11
     DEF Next, Request, Snapshot, Writer, Stop

(* The log is an ordered stream, until flush_and_stop has written the last *)
(* batch: every line comes out once and in the order it was logged, and    *)
(* none is left behind for one logged later.                               *)
THEOREM LogIsOrdered == Spec => Stream!Spec
<1>1. Init => LogInv /\ Stream!Init
  <2>1. SUFFICES ASSUME Init PROVE LogInv /\ Stream!Init
    OBVIOUS
  <2>2. << >> \in Seq(Nat) /\ << >> \o << >> \o << >> = << >>
    BY EmptySeq, ConcatEmptySeq
  <2>3. LogInv
    BY <2>1, <2>2 DEF Init, LogInv, LogTypes
  <2>4. Stream!Init
    BY <2>1, <2>2 DEF Init, Stream!Init
  <2>5. QED
    BY <2>3, <2>4
<1>2. LogInv /\ [Next]_vars => LogInv' /\ [Stream!Next]_(Stream!svars)
  BY LogStep DEF Streams
<1>3. QED
  BY <1>1, <1>2, PTL DEF Spec, Stream!Spec

---------------------------------------------------------------------------
(* Frames.  What holds at 0, and at k when it does at k - 1, holds up to   *)
(* n: said of the set of numbers it holds for.                             *)
LEMMA UpTo ==
  ASSUME NEW n \in Nat, NEW T, 0 \in T, \A k \in 1 .. n : k - 1 \in T => k \in T
  PROVE  0 .. n \subseteq T
<1> DEFINE U == {k \in 0 .. n : k \notin T}
<1>1. SUFFICES ASSUME U # {} PROVE FALSE
  OBVIOUS
<1>2. U \subseteq Nat
  OBVIOUS
<1>3. PICK m \in U : \A y \in U : m <= y
  <2> HIDE DEF U
  <2>1. QED
    BY <1>1, <1>2, LeastNat
<1>4. m # 0 /\ m \in 1 .. n
  BY <1>3
<1>5. m - 1 \in 0 .. n /\ m - 1 \notin U
  BY <1>3, <1>4
<1>6. QED
  BY <1>3, <1>4, <1>5

(* Steps of a function, one after the other: the functions that the module *)
(* defines by recursion exist because this one does.                       *)
IsSteps(f, D, a, n, g) ==
  /\ f \in [0 .. n -> D]
  /\ f[0] = a /\ \A k \in 1 .. n : f[k] = g[k][f[k - 1]]

\* One step at a time, up to n.
LEMMA StepsExist ==
  ASSUME NEW D, NEW a \in D, NEW n \in Nat, NEW g \in [1 .. n -> [D -> D]]
  PROVE  \E f : IsSteps(f, D, a, n, g)
<1> DEFINE Good(f, m) == f[0] = a /\ \A k \in 1 .. m : f[k] = g[k][f[k - 1]]
           T == {m \in 0 .. n : \E f \in [0 .. m -> D] : Good(f, m)}
<1>1. 0 \in T
  <2>1. [k \in 0 .. 0 |-> a] \in [0 .. 0 -> D] /\ Good([k \in 0 .. 0 |-> a], 0)
    OBVIOUS
  <2> HIDE DEF Good
  <2>2. QED
    BY <2>1
<1>2. ASSUME NEW m \in 1 .. n, m - 1 \in T PROVE m \in T
  <2>1. PICK f \in [0 .. m - 1 -> D] : Good(f, m - 1)
    BY <1>2
  <2> DEFINE h == [k \in 0 .. m |-> IF k = m THEN g[m][f[m - 1]] ELSE f[k]]
  <2>2. g[m] \in [D -> D] /\ f[m - 1] \in D
    OBVIOUS
  <2>3. h \in [0 .. m -> D]
    BY <2>2
  <2>4. h[0] = a
    BY <2>1
  <2>5. ASSUME NEW k \in 1 .. m PROVE h[k] = g[k][h[k - 1]]
    <3>1. h[k - 1] = f[k - 1]
      OBVIOUS
    <3>2. CASE k = m
      BY <3>1, <3>2
    <3>3. CASE k # m
      <4>1. k \in 1 .. m - 1
        BY <3>3
      <4>2. h[k] = f[k] /\ f[k] = g[k][f[k - 1]]
        BY <2>1, <4>1
      <4>3. QED
        BY <3>1, <4>2
    <3>4. QED
      BY <3>2, <3>3
  <2>6. Good(h, m)
    BY <2>4, <2>5
  <2> HIDE DEF h, Good
  <2>7. QED
    BY <2>3, <2>6
<1>3. 0 .. n \subseteq T
  <2> HIDE DEF T
  <2>1. QED
    BY <1>1, <1>2, UpTo
<1>4. PICK f \in [0 .. n -> D] : Good(f, n)
  <2>1. n \in T
    BY <1>3
  <2> HIDE DEF Good
  <2>2. QED
    BY <2>1
<1>5. IsSteps(f, D, a, n, g)
  BY <1>4 DEF IsSteps
<1>6. QED
  BY <1>5

\* The sizes, as numbers.
LEMMA Sizes ==
  /\ Base \in Nat /\ Base > 1 /\ Width \in Nat /\ Width > 0 /\ Chunk \in Nat /\ Chunk > 0
  /\ MaxFrame \in Nat /\ MaxBuffer \in Nat /\ MaxStream \in Nat
  /\ MaxBuffer >= Width + MaxFrame + Chunk
  BY SizeAssumption

(* The equation of Values, and the numbers it holds.                       *)
LEMMA ValuesAre ==
  ASSUME NEW digits \in Seq(Bytes)
  PROVE  /\ Values(digits) \in [0 .. Len(digits) -> Nat]
         /\ Values(digits)[0] = 0
         /\ \A n \in 1 .. Len(digits) :
              Values(digits)[n] = Values(digits)[n - 1] * Base + digits[n]
<1> DEFINE l == Len(digits)
           Is(v) == v = [n \in 0 .. l |-> IF n = 0 THEN 0 ELSE v[n - 1] * Base + digits[n]]
           v == Values(digits)
           g == [k \in 1 .. l |-> [x \in Nat |-> x * Base + digits[k]]]
<1>1. l \in Nat /\ \A k \in 1 .. l : digits[k] \in Nat
  <2>1. \A k \in 1 .. l : digits[k] \in Bytes
    BY ElementOfSeq
  <2>2. Bytes \subseteq Nat
    BY Sizes DEF Bytes
  <2>3. QED
    BY <2>1, <2>2, LenProperties
<1>2. \A x, d \in Nat : x * Base + d \in Nat
  BY Sizes
<1>3. g \in [1 .. l -> [Nat -> Nat]]
  BY <1>1, <1>2
<1>4. PICK f : IsSteps(f, Nat, 0, l, g)
  <2>1. 0 \in Nat /\ l \in Nat
    BY <1>1
  <2> HIDE DEF g, l
  <2>2. QED
    BY <1>3, <2>1, StepsExist, Zenon
<1>5. f \in [0 .. l -> Nat] /\ f[0] = 0 /\ \A k \in 1 .. l : f[k] = g[k][f[k - 1]]
  BY <1>4 DEF IsSteps
<1>6. ASSUME NEW k \in 1 .. l PROVE f[k] = f[k - 1] * Base + digits[k]
  <2>1. f[k - 1] \in Nat
    BY <1>1, <1>5
  <2>2. g[k][f[k - 1]] = f[k - 1] * Base + digits[k]
    BY <2>1
  <2>3. QED
    BY <1>5, <2>2
<1>7. Is(f)
  BY <1>1, <1>5, <1>6
<1>8. Is(v)
  BY <1>7 DEF Values
<1>9. v[0] = 0 /\ \A n \in 1 .. l : v[n] = v[n - 1] * Base + digits[n]
  BY <1>1, <1>8
<1>10. \A n \in 0 .. l : v[n] \in Nat
  <2> DEFINE T == {n \in 0 .. l : v[n] \in Nat}
  <2>1. 0 \in T
    BY <1>1, <1>9
  <2>2. ASSUME NEW n \in 1 .. l, n - 1 \in T PROVE n \in T
    <3>1. v[n - 1] \in Nat /\ digits[n] \in Nat
      BY <1>1, <2>2
    <3>2. v[n] \in Nat
      BY <1>2, <1>9, <3>1
    <3>3. QED
      BY <1>1, <3>2
  <2>3. 0 .. l \subseteq T
    <3> HIDE DEF T, l
    <3>1. QED
      BY <1>1, <2>1, <2>2, UpTo
  <2>4. QED
    BY <2>3
<1>11. v \in [0 .. l -> Nat]
  BY <1>8, <1>10
<1>12. QED
  BY <1>9, <1>11

(* The equation of Quotients.                                              *)
LEMMA QuotientsAre ==
  ASSUME NEW len \in Nat
  PROVE  /\ Quotients(len) \in [0 .. Width + len -> Nat]
         /\ Quotients(len)[0] = len
         /\ \A n \in 1 .. Width + len : Quotients(len)[n] = Quotients(len)[n - 1] \div Base
<1> DEFINE l == Width + len
           Is(q) == q = [n \in 0 .. l |-> IF n = 0 THEN len ELSE q[n - 1] \div Base]
           q == Quotients(len)
           g == [k \in 1 .. l |-> [x \in Nat |-> x \div Base]]
<1>1. l \in Nat
  BY Sizes
<1>2. \A x \in Nat : x \div Base \in Nat
  BY Sizes
<1>3. g \in [1 .. l -> [Nat -> Nat]]
  BY <1>2
<1>4. PICK f : IsSteps(f, Nat, len, l, g)
  <2>1. len \in Nat /\ l \in Nat
    BY <1>1
  <2> HIDE DEF g, l
  <2>2. QED
    BY <1>3, <2>1, StepsExist, Zenon
<1>5. f \in [0 .. l -> Nat] /\ f[0] = len /\ \A k \in 1 .. l : f[k] = g[k][f[k - 1]]
  BY <1>4 DEF IsSteps
<1>6. ASSUME NEW k \in 1 .. l PROVE f[k] = f[k - 1] \div Base
  <2>1. f[k - 1] \in Nat
    BY <1>1, <1>5
  <2>2. g[k][f[k - 1]] = f[k - 1] \div Base
    BY <2>1
  <2>3. QED
    BY <1>5, <2>2
<1>7. Is(f)
  BY <1>1, <1>5, <1>6
<1>8. Is(q)
  BY <1>7 DEF Quotients
<1>9. q[0] = len /\ \A n \in 1 .. l : q[n] = q[n - 1] \div Base
  BY <1>1, <1>8
<1>10. \A n \in 0 .. l : q[n] \in Nat
  <2> DEFINE T == {n \in 0 .. l : q[n] \in Nat}
  <2>1. 0 \in T
    BY <1>1, <1>9
  <2>2. ASSUME NEW n \in 1 .. l, n - 1 \in T PROVE n \in T
    <3>1. q[n - 1] \in Nat
      BY <2>2
    <3>2. q[n] \in Nat
      BY <1>2, <1>9, <3>1
    <3>3. QED
      BY <1>1, <3>2
  <2>3. 0 .. l \subseteq T
    <3> HIDE DEF T, l
    <3>1. QED
      BY <1>1, <2>1, <2>2, UpTo
  <2>4. QED
    BY <2>3
<1>11. q \in [0 .. l -> Nat]
  BY <1>8, <1>10
<1>12. QED
  BY <1>9, <1>11

\* Division by Base.
LEMMA Division ==
  /\ \A x \in Nat, d \in 0 .. Base - 1 : (x * Base + d) \div Base = x
  /\ \A x \in Nat : /\ x = (x \div Base) * Base + (x % Base)
                    /\ x \div Base \in Nat /\ x % Base \in 0 .. Base - 1
  /\ 0 \div Base = 0
<1>1. ASSUME NEW x \in Nat
      PROVE  /\ x = (x \div Base) * Base + (x % Base)
             /\ x \div Base \in Nat /\ x % Base \in 0 .. Base - 1
  BY Sizes
<1>2. ASSUME NEW x \in Nat, NEW d \in 0 .. Base - 1 PROVE (x * Base + d) \div Base = x
  <2> DEFINE y == x * Base + d
             p == y \div Base
             r == y % Base
  <2>1. y \in Nat
    BY Sizes
  <2>2. y = p * Base + r /\ p \in Nat /\ r \in 0 .. Base - 1
    <3> HIDE DEF y
    <3>1. QED
      BY <1>1, <2>1
  <2> HIDE DEF p, r
  <2>3. x * Base + d = p * Base + r
    BY <2>2
  <2>4. (x - p) * Base = r - d
    BY <2>2, <2>3, Sizes
  <2>5. ~(x > p)
    <3>1. SUFFICES ASSUME x - p >= 1 PROVE FALSE
      BY <2>2
    <3>2. (x - p) * Base >= Base
      BY <2>2, <3>1, Sizes
    <3>3. QED
      BY <2>2, <2>4, <3>2, Sizes
  <2>6. ~(x < p)
    <3>1. SUFFICES ASSUME p - x >= 1 PROVE FALSE
      BY <2>2
    <3>2. (p - x) * Base >= Base /\ (p - x) * Base = d - r
      BY <2>2, <2>4, <3>1, Sizes
    <3>3. QED
      BY <2>2, <3>2, Sizes
  <2>7. x = p
    BY <2>2, <2>5, <2>6
  <2>8. QED
    BY <2>7 DEF p
<1>3. 0 \div Base = 0
  BY Sizes
<1>4. QED
  BY <1>1, <1>2, <1>3

(* What Width digits say: a frame's length that is no more than MaxFrame,  *)
(* and that Width digits can say again.                                    *)
LEMMA WhatDigitsSay ==
  ASSUME NEW digits \in [1 .. Width -> 0 .. Base - 1]
  PROVE  /\ Value(digits) \in Nat /\ Value(digits) <= MaxFrame
         /\ Quotients(Value(digits))[Width] = 0
<1> DEFINE v == Values(digits)
           len == v[Width]
           q == Quotients(len)
<1>1. digits \in Seq(Bytes) /\ Len(digits) = Width
  BY Sizes DEF Bytes
<1>2. /\ v \in [0 .. Width -> Nat] /\ v[0] = 0
      /\ \A n \in 1 .. Width : v[n] = v[n - 1] * Base + digits[n]
  BY <1>1, ValuesAre
<1> HIDE DEF v
<1>3. Width \in Nat /\ len \in Nat
  BY <1>2, Sizes
<1>4. q[0] = len /\ \A n \in 1 .. Width + len : q[n] = q[n - 1] \div Base
  <2> HIDE DEF len
  <2>1. QED
    BY <1>3, QuotientsAre
<1> HIDE DEF q
<1> DEFINE T == {n \in 0 .. Width : q[n] = v[Width - n]}
<1>5. 0 \in T
  BY <1>3, <1>4
<1>6. ASSUME NEW n \in 1 .. Width, n - 1 \in T PROVE n \in T
  <2>1. q[n - 1] = v[Width - n + 1] /\ n \in 1 .. Width + len
    BY <1>3, <1>6
  <2>2. Width - n + 1 \in 1 .. Width /\ Width - n \in 0 .. Width
    BY <1>3
  <2>3. /\ v[Width - n + 1] = v[Width - n] * Base + digits[Width - n + 1]
        /\ v[Width - n] \in Nat /\ digits[Width - n + 1] \in 0 .. Base - 1
    BY <1>2, <1>3, <2>2
  <2>4. q[n] = q[n - 1] \div Base
    BY <1>4, <2>1
  <2> DEFINE x == v[Width - n]
             d == digits[Width - n + 1]
  <2>5. x \in Nat /\ d \in 0 .. Base - 1 /\ q[n] = (x * Base + d) \div Base
    BY <2>1, <2>3, <2>4
  <2>6. q[n] = x
    <3> HIDE DEF x, d
    <3>1. QED
      BY <2>5, Division
  <2>7. QED
    BY <1>3, <2>6
<1>7. 0 .. Width \subseteq T
  <2> HIDE DEF T
  <2>1. QED
    BY <1>3, <1>5, <1>6, UpTo
<1>8. q[Width] = 0
  BY <1>2, <1>3, <1>7
<1>9. Value(digits) = len
  BY <1>1 DEF Value, v
<1>10. Value(digits) <= MaxFrame
  BY FrameAssumption
<1>11. QED
  BY <1>3, <1>8, <1>9, <1>10 DEF q

(* The header of a message that Width digits can measure: these digits,    *)
(* and they say its length.                                                *)
LEMMA HeaderIs ==
  ASSUME NEW len \in Nat, Quotients(len)[Width] = 0
  PROVE  Header(len) \in [1 .. Width -> 0 .. Base - 1] /\ Value(Header(len)) = len
<1> DEFINE q == Quotients(len)
           d == Digits(len, Width)
<1>1. /\ q \in [0 .. Width + len -> Nat] /\ q[0] = len
      /\ \A n \in 1 .. Width + len : q[n] = q[n - 1] \div Base
  BY QuotientsAre
<1>2. q[Width] = 0
  OBVIOUS
<1>3. Header(len) = d
  <2> DEFINE T == {n \in 0 .. len : q[Width + n] = 0}
  <2>1. 0 \in T
    BY <1>2, Sizes
  <2>2. ASSUME NEW n \in 1 .. len, n - 1 \in T PROVE n \in T
    <3> HIDE DEF q
    <3>1. q[Width + (n - 1)] = 0
      BY <2>2
    <3>2. Width + n \in 1 .. Width + len /\ (Width + n) - 1 = Width + (n - 1)
      BY Sizes
    <3>3. q[Width + n] = q[(Width + n) - 1] \div Base
      BY <1>1, <3>2
    <3>4. q[Width + n] = q[Width + (n - 1)] \div Base
      BY <3>2, <3>3
    <3>5. QED
      BY <3>1, <3>4, Division
  <2>3. 0 .. len \subseteq T
    <3> HIDE DEF T
    <3>1. QED
      BY <2>1, <2>2, UpTo
  <2> DEFINE Shortest(n) == q[n] = 0 /\ (n > Width => q[n - 1] # 0)
  <2>4. ASSUME NEW n \in Width .. Width + len, n # Width PROVE ~Shortest(n)
    <3>1. n - Width - 1 \in 0 .. len /\ Width + (n - Width - 1) = n - 1 /\ n > Width
      BY <2>4, Sizes
    <3>2. q[Width + (n - Width - 1)] = 0
      BY <2>3, <3>1
    <3>3. QED
      BY <3>1, <3>2
  <2>5. Width \in Width .. Width + len /\ Shortest(Width)
    BY <1>2, Sizes
  <2>6. (CHOOSE n \in Width .. Width + len : Shortest(n)) = Width
    <3> HIDE DEF Shortest
    <3>1. QED
      BY <2>4, <2>5
  <2>7. QED
    BY <2>6 DEF Header
<1>4. d = [k \in 1 .. Width |-> q[Width - k] % Base]
  BY DEF Digits
<1> HIDE DEF q, d
<1>5. ASSUME NEW k \in 1 .. Width
      PROVE  d[k] \in 0 .. Base - 1 /\ q[Width - k] = q[Width - (k - 1)] * Base + d[k]
  <2>1. Width - k \in 0 .. Width + len /\ Width - (k - 1) \in 1 .. Width + len
        /\ Width - (k - 1) - 1 = Width - k
    BY Sizes
  <2> DEFINE x == q[Width - k]
  <2>2. x \in Nat /\ q[Width - (k - 1)] = x \div Base /\ d[k] = x % Base
    BY <1>1, <1>4, <2>1
  <2> HIDE DEF x
  <2>3. x = (x \div Base) * Base + (x % Base) /\ x % Base \in 0 .. Base - 1
    BY <2>2, Division
  <2>4. QED
    BY <2>2, <2>3 DEF x
<1>6. d \in [1 .. Width -> 0 .. Base - 1]
  BY <1>4, <1>5
<1> DEFINE v == Values(d)
<1>7. d \in Seq(Bytes) /\ Len(d) = Width
  BY <1>6, Sizes DEF Bytes
<1>8. v[0] = 0 /\ \A n \in 1 .. Width : v[n] = v[n - 1] * Base + d[n]
  BY <1>7, ValuesAre
<1> HIDE DEF v
<1> DEFINE T == {k \in 0 .. Width : v[k] = q[Width - k]}
<1>9. 0 \in T
  BY <1>2, <1>8, Sizes DEF q
<1>10. ASSUME NEW k \in 1 .. Width, k - 1 \in T PROVE k \in T
  <2>1. v[k - 1] = q[Width - (k - 1)]
    BY <1>10
  <2>2. v[k] = v[k - 1] * Base + d[k]
    BY <1>8
  <2>3. v[k] = q[Width - k]
    BY <1>5, <2>1, <2>2
  <2>4. QED
    BY <2>3, Sizes
<1>11. 0 .. Width \subseteq T
  <2> HIDE DEF T
  <2>1. QED
    BY <1>9, <1>10, Sizes, UpTo
<1>12. v[Width] = len
  BY <1>1, <1>11, Sizes
<1>13. Value(d) = len
  BY <1>7, <1>12 DEF Value, v
<1>14. QED
  BY <1>3, <1>6, <1>13

---------------------------------------------------------------------------
(* Parts of sequences of bytes that are the same, at a in s and at b in u. *)
Same(s, a, u, b, n) == \A k \in 1 .. n : s[a + k] = u[b + k]

\* A part of a sequence of bytes.
LEMMA PartOf ==
  ASSUME NEW s \in Seq(Bytes), NEW a \in Nat, NEW n \in Nat, a + n <= Len(s)
  PROVE  /\ SubSeq(s, a + 1, a + n) \in Seq(Bytes)
         /\ Len(SubSeq(s, a + 1, a + n)) = n
         /\ \A k \in 1 .. n : SubSeq(s, a + 1, a + n)[k] = s[a + k]
<1>1. \A k \in a + 1 .. a + n : s[k] \in Bytes
  BY ElementOfSeq, LenProperties
<1>2. /\ SubSeq(s, a + 1, a + n) \in Seq(Bytes)
      /\ Len(SubSeq(s, a + 1, a + n)) = IF a + 1 <= a + n THEN (a + n) - (a + 1) + 1 ELSE 0
      /\ \A k \in 1 .. (a + n) - (a + 1) + 1 : SubSeq(s, a + 1, a + n)[k] = s[(a + 1) + k - 1]
  BY <1>1, SubSeqProperties
<1>3. \A k \in 1 .. n : (a + 1) + k - 1 = a + k
  OBVIOUS
<1> DEFINE part == SubSeq(s, a + 1, a + n)
<1> HIDE DEF part
<1>4. Len(part) = n
  BY <1>2 DEF part
<1>5. \A k \in 1 .. n : part[k] = s[a + k]
  BY <1>2, <1>3 DEF part
<1>6. QED
  BY <1>2, <1>4, <1>5 DEF part

\* The same bytes, the same part.
LEMMA SameParts ==
  ASSUME NEW s \in Seq(Bytes), NEW u \in Seq(Bytes), NEW a \in Nat, NEW b \in Nat, NEW n \in Nat,
         a + n <= Len(s), b + n <= Len(u), Same(s, a, u, b, n)
  PROVE  SubSeq(s, a + 1, a + n) = SubSeq(u, b + 1, b + n)
<1> DEFINE x == SubSeq(s, a + 1, a + n)
           y == SubSeq(u, b + 1, b + n)
<1>1. x \in Seq(Bytes) /\ Len(x) = n /\ \A k \in 1 .. n : x[k] = s[a + k]
  BY PartOf
<1>2. y \in Seq(Bytes) /\ Len(y) = n /\ \A k \in 1 .. n : y[k] = u[b + k]
  BY PartOf
<1> HIDE DEF x, y
<1>3. \A k \in 1 .. Len(x) : x[k] = y[k]
  BY <1>1, <1>2 DEF Same
<1>4. x = y
  BY <1>1, <1>2, <1>3, SeqEqual
<1>5. QED
  BY <1>4 DEF x, y

(* A header's length is a number that its Width digits can say again.      *)
LEMMA HeaderSays ==
  ASSUME NEW s \in Seq(Bytes), NEW p \in Nat, HeaderAt(s, p)
  PROVE  /\ LengthAt(s, p) \in Nat /\ LengthAt(s, p) <= MaxFrame
         /\ Quotients(LengthAt(s, p))[Width] = 0
<1> DEFINE d == SubSeq(s, p + 1, p + Width)
<1>1. p + Width <= Len(s) /\ \A k \in p + 1 .. p + Width : s[k] < Base
  BY DEF HeaderAt
<1>2. d \in Seq(Bytes) /\ Len(d) = Width /\ \A k \in 1 .. Width : d[k] = s[p + k]
  BY <1>1, PartOf, Sizes
<1> HIDE DEF d
<1>3. ASSUME NEW k \in 1 .. Width PROVE d[k] \in 0 .. Base - 1
  <2>1. d[k] \in Bytes
    BY <1>2, ElementOfSeq
  <2>2. p + k \in p + 1 .. p + Width
    BY Sizes
  <2>3. d[k] < Base
    BY <1>1, <1>2, <2>2
  <2>4. QED
    BY <2>1, <2>3, Sizes DEF Bytes
<1>4. d \in [1 .. Width -> 0 .. Base - 1]
  BY <1>2, <1>3, LenProperties
<1>5. LengthAt(s, p) = Value(d)
  BY DEF LengthAt, d
<1>6. QED
  BY <1>4, <1>5, WhatDigitsSay

\* The same Width bytes are the same header, or none.
LEMMA SameHeader ==
  ASSUME NEW s \in Seq(Bytes), NEW u \in Seq(Bytes), NEW a \in Nat, NEW b \in Nat,
         a + Width <= Len(s), b + Width <= Len(u), Same(s, a, u, b, Width)
  PROVE  /\ HeaderAt(s, a) <=> HeaderAt(u, b)
         /\ LengthAt(s, a) = LengthAt(u, b)
<1>1. Width \in Nat
  BY Sizes
<1>2. LengthAt(s, a) = LengthAt(u, b)
  BY <1>1, SameParts DEF LengthAt
<1>3. \A k \in 1 .. Width : s[a + k] = u[b + k]
  BY DEF Same
<1>4. (\A k \in a + 1 .. a + Width : s[k] < Base) <=> (\A k \in 1 .. Width : s[a + k] < Base)
  <2>1. \A k \in a + 1 .. a + Width : k - a \in 1 .. Width /\ a + (k - a) = k
    BY <1>1
  <2>2. \A k \in 1 .. Width : a + k \in a + 1 .. a + Width
    BY <1>1
  <2>3. QED
    BY <2>1, <2>2
<1>5. (\A k \in b + 1 .. b + Width : u[k] < Base) <=> (\A k \in 1 .. Width : u[b + k] < Base)
  <2>1. \A k \in b + 1 .. b + Width : k - b \in 1 .. Width /\ b + (k - b) = k
    BY <1>1
  <2>2. \A k \in 1 .. Width : b + k \in b + 1 .. b + Width
    BY <1>1
  <2>3. QED
    BY <2>1, <2>2
<1>6. QED
  BY <1>2, <1>3, <1>4, <1>5 DEF HeaderAt

\* The same bytes, header and all, are the same message.
LEMMA SameMessage ==
  ASSUME NEW s \in Seq(Bytes), NEW u \in Seq(Bytes), NEW a \in Nat, NEW b \in Nat,
         HeaderAt(s, a), CompleteAt(s, a), NEW l, l = LengthAt(s, a),
         b + Width + l <= Len(u), Same(s, a, u, b, Width + l)
  PROVE  /\ HeaderAt(u, b) /\ LengthAt(u, b) = l /\ CompleteAt(u, b)
         /\ MessageAt(u, b) = MessageAt(s, a)
<1>1. Width \in Nat /\ l \in Nat
  BY HeaderSays, Sizes
<1>2. a + Width + l <= Len(s) /\ Len(s) \in Nat /\ Len(u) \in Nat
  BY LenProperties DEF CompleteAt
<1>3. Same(s, a, u, b, Width) /\ a + Width <= Len(s) /\ b + Width <= Len(u)
  BY <1>1, <1>2 DEF Same
<1>4. HeaderAt(u, b) /\ LengthAt(u, b) = l
  BY <1>3, SameHeader
<1>5. ASSUME NEW k \in 1 .. l PROVE s[(a + Width) + k] = u[(b + Width) + k]
  <2>1. Width + k \in 1 .. Width + l
    BY <1>1
  <2>2. s[a + (Width + k)] = u[b + (Width + k)]
    BY <2>1 DEF Same
  <2>3. a + (Width + k) = (a + Width) + k /\ b + (Width + k) = (b + Width) + k
    BY <1>1
  <2>4. QED
    BY <2>2, <2>3
<1>6. Same(s, a + Width, u, b + Width, l)
  BY <1>5 DEF Same
<1>7. SubSeq(s, (a + Width) + 1, (a + Width) + l) = SubSeq(u, (b + Width) + 1, (b + Width) + l)
  <2> DEFINE c == a + Width
             e == b + Width
  <2>1. /\ c \in Nat /\ e \in Nat /\ l \in Nat
        /\ c + l <= Len(s) /\ e + l <= Len(u) /\ Same(s, c, u, e, l)
    BY <1>1, <1>2, <1>6
  <2> HIDE DEF c, e
  <2>2. SubSeq(s, c + 1, c + l) = SubSeq(u, e + 1, e + l)
    BY <2>1, SameParts, SMTT(40)
  <2>3. QED
    BY <2>2 DEF c, e
<1>8. QED
  BY <1>4, <1>7 DEF CompleteAt, MessageAt

---------------------------------------------------------------------------
(* Where scanning stops: the first position that is a stop.                *)
StopsAt(s, p) == HeaderAt(s, p) \/ p + Width > Len(s)

\* There is no other ...
LEMMA ScanTo ==
  ASSUME NEW s \in Seq(Bytes), NEW pos \in 0 .. Len(s), NEW p \in pos .. Len(s),
         StopsAt(s, p), \A q \in pos .. p - 1 : ~StopsAt(s, q)
  PROVE  ScanFrom(s, pos) = p
<1> DEFINE First(r) == /\ HeaderAt(s, r) \/ r + Width > Len(s)
                       /\ \A q \in pos .. r - 1 : ~HeaderAt(s, q) /\ q + Width <= Len(s)
<1>1. Len(s) \in Nat /\ Width \in Nat
  BY LenProperties, Sizes
<1>2. First(p)
  <2>1. HeaderAt(s, p) \/ p + Width > Len(s)
    BY DEF StopsAt
  <2>2. ASSUME NEW q \in pos .. p - 1 PROVE ~HeaderAt(s, q) /\ q + Width <= Len(s)
    <3>1. ~HeaderAt(s, q) /\ ~(q + Width > Len(s)) /\ q \in Int
      BY DEF StopsAt
    <3>2. QED
      BY <1>1, <3>1
  <2>3. QED
    BY <2>1, <2>2
<1>3. ASSUME NEW r \in pos .. Len(s), First(r), r # p PROVE FALSE
  <2>1. CASE r < p
    <3>1. r \in pos .. p - 1
      BY <1>1, <2>1
    <3>2. QED
      BY <1>3, <3>1 DEF StopsAt
  <2>2. CASE p < r
    <3>1. p \in pos .. r - 1
      BY <1>1, <2>2
    <3>2. ~HeaderAt(s, p) /\ p + Width <= Len(s)
      BY <1>3, <3>1
    <3>3. QED
      BY <1>1, <3>2 DEF StopsAt
  <2>3. QED
    BY <1>1, <1>3, <2>1, <2>2
<1> HIDE DEF First
<1>4. (CHOOSE r \in pos .. Len(s) : First(r)) = p
  BY <1>2, <1>3
<1>5. QED
  BY <1>4 DEF ScanFrom, First

\* ... and there is one: the end of s, if nothing before it.
LEMMA ScanIs ==
  ASSUME NEW s \in Seq(Bytes), NEW pos \in 0 .. Len(s)
  PROVE  /\ ScanFrom(s, pos) \in pos .. Len(s)
         /\ StopsAt(s, ScanFrom(s, pos))
         /\ \A q \in pos .. ScanFrom(s, pos) - 1 : ~StopsAt(s, q)
<1> DEFINE U == {p \in pos .. Len(s) : StopsAt(s, p)}
<1>1. Len(s) \in Nat /\ Width \in Nat /\ Width > 0
  BY LenProperties, Sizes
<1>2. Len(s) \in U /\ U \subseteq Nat
  BY <1>1 DEF StopsAt
<1>3. PICK p \in U : \A y \in U : p <= y
  <2> HIDE DEF U
  <2>1. QED
    BY <1>2, LeastNat
<1>4. p \in pos .. Len(s) /\ StopsAt(s, p)
  BY <1>3
<1>5. ASSUME NEW q \in pos .. p - 1 PROVE ~StopsAt(s, q)
  <2>1. q \in pos .. Len(s) /\ ~(p <= q)
    BY <1>1, <1>4
  <2>2. QED
    BY <1>3, <2>1
<1>6. ScanFrom(s, pos) = p
  BY <1>4, <1>5, ScanTo
<1>7. QED
  BY <1>4, <1>5, <1>6

\* Scanning may as well begin anywhere short of the stop.
LEMMA ScanOn ==
  ASSUME NEW s \in Seq(Bytes), NEW pos \in 0 .. Len(s), NEW p \in pos .. Len(s),
         \A q \in pos .. p - 1 : ~StopsAt(s, q)
  PROVE  ScanFrom(s, pos) = ScanFrom(s, p)
<1> DEFINE r == ScanFrom(s, p)
<1>1. Len(s) \in Nat
  BY LenProperties
<1>2. p \in 0 .. Len(s)
  BY <1>1
<1>3. r \in p .. Len(s) /\ StopsAt(s, r) /\ \A q \in p .. r - 1 : ~StopsAt(s, q)
  BY <1>2, ScanIs
<1> HIDE DEF r
<1>4. r \in pos .. Len(s)
  BY <1>1, <1>3
<1>5. \A q \in pos .. r - 1 : ~StopsAt(s, q)
  <2>1. ASSUME NEW q \in pos .. r - 1 PROVE q \in pos .. p - 1 \/ q \in p .. r - 1
    BY <1>1, <1>3
  <2>2. QED
    BY <1>3, <2>1
<1>6. ScanFrom(s, pos) = r
  BY <1>3, <1>4, <1>5, ScanTo
<1>7. QED
  BY <1>6 DEF r

---------------------------------------------------------------------------
(* spilit_message, turn by turn of its loop.                               *)
Finds(s, pos) == HeaderAt(s, ScanFrom(s, pos)) /\ CompleteAt(s, ScanFrom(s, pos))
After(s, pos) == ScanFrom(s, pos) + Width + LengthAt(s, ScanFrom(s, pos))
Turn(f, s, pos) ==
  IF Finds(s, pos)
    THEN [messages |-> <<MessageAt(s, ScanFrom(s, pos))>> \o f[After(s, pos)].messages,
          rest |-> f[After(s, pos)].rest]
    ELSE [messages |-> << >>, rest |-> From(s, ScanFrom(s, pos))]
IsSplits(f, s, from) == f = [pos \in from .. Len(s) |-> Turn(f, s, pos)]

\* A message takes the loop further, and not past the end.
LEMMA AfterIs ==
  ASSUME NEW s \in Seq(Bytes), NEW pos \in 0 .. Len(s), Finds(s, pos)
  PROVE  /\ After(s, pos) \in pos + 1 .. Len(s)
         /\ MessageAt(s, ScanFrom(s, pos)) \in Seq(Bytes)
<1> DEFINE p == ScanFrom(s, pos)
           l == LengthAt(s, p)
<1>1. p \in pos .. Len(s) /\ HeaderAt(s, p) /\ p + Width + l <= Len(s) /\ Len(s) \in Nat
  BY ScanIs, LenProperties DEF Finds, CompleteAt
<1>2. l \in Nat /\ Width \in Nat /\ Width > 0
  <2>1. p \in Nat
    BY <1>1
  <2>2. QED
    BY <1>1, <2>1, HeaderSays, Sizes
<1> DEFINE c == p + Width
<1> HIDE DEF p, l
<1>3. c \in Nat /\ c + l <= Len(s) /\ p + Width + l \in pos + 1 .. Len(s)
  BY <1>1, <1>2
<1> HIDE DEF c
<1>4. SubSeq(s, c + 1, c + l) \in Seq(Bytes)
  BY <1>2, <1>3, PartOf
<1>5. QED
  BY <1>3, <1>4 DEF After, MessageAt, p, l, c

(* Such a function exists: from the last position down ...                 *)
LEMMA SplitsExist ==
  ASSUME NEW s \in Seq(Bytes)
  PROVE  \E f : IsSplits(f, s, 0)
<1> DEFINE l == Len(s)
           T == {n \in 0 .. l + 1 : \E f : IsSplits(f, s, l + 1 - n)}
<1>1. l \in Nat
  BY LenProperties
<1>2. 0 \in T
  <2>1. l + 1 .. l = {}
    BY <1>1
  <2>2. IsSplits([pos \in l + 1 .. l |-> 0], s, l + 1)
    BY <2>1 DEF IsSplits
  <2>3. l + 1 - 0 = l + 1 /\ 0 \in 0 .. l + 1
    BY <1>1
  <2> HIDE DEF l
  <2>4. QED
    BY <2>2, <2>3
<1>3. ASSUME NEW n \in 1 .. l + 1, n - 1 \in T PROVE n \in T
  <2> DEFINE a == l + 1 - n
  <2>1. a \in 0 .. l /\ l + 1 - (n - 1) = a + 1
    BY <1>1
  <2>2. PICK f : IsSplits(f, s, a + 1)
    BY <1>3, <2>1
  <2> DEFINE h == [pos \in a .. l |-> IF pos = a THEN Turn(f, s, a) ELSE f[pos]]
  <2>3. ASSUME NEW pos \in a .. l PROVE h[pos] = Turn(h, s, pos)
    <3>1. pos \in 0 .. l
      BY <1>1, <2>1
    <3>2. Finds(s, pos) => After(s, pos) \in a + 1 .. l
      BY <1>1, <2>1, <3>1, AfterIs
    <3>3. Finds(s, pos) => h[After(s, pos)] = f[After(s, pos)]
      <4> HIDE DEF a, l
      <4>1. SUFFICES ASSUME Finds(s, pos) PROVE h[After(s, pos)] = f[After(s, pos)]
        OBVIOUS
      <4>2. After(s, pos) \in a .. l /\ After(s, pos) # a
        BY <1>1, <2>1, <3>2, <4>1
      <4>3. QED
        BY <4>2
    <3> HIDE DEF a, l
    <3>4. Turn(h, s, pos) = Turn(f, s, pos)
      <4> HIDE DEF h
      <4>1. QED
        BY <3>3 DEF Turn
    <3>5. h[pos] = Turn(f, s, pos)
      <4>1. CASE pos = a
        BY <4>1
      <4>2. CASE pos # a
        <5>1. pos \in a + 1 .. l
          BY <1>1, <2>1, <4>2
        <5>2. f[pos] = Turn(f, s, pos)
          BY <2>2, <5>1 DEF IsSplits, l
        <5>3. QED
          BY <4>2, <5>2
      <4>3. QED
        BY <4>1, <4>2
    <3>6. QED
      BY <3>4, <3>5
  <2>4. IsSplits(h, s, a)
    <3>1. h = [pos \in a .. l |-> h[pos]]
      OBVIOUS
    <3>2. [pos \in a .. l |-> h[pos]] = [pos \in a .. l |-> Turn(h, s, pos)]
      <4> HIDE DEF h, a, l
      <4>1. QED
        BY <2>3
    <3>3. QED
      BY <3>1, <3>2 DEF IsSplits
  <2> HIDE DEF h, l
  <2>5. QED
    BY <1>1, <2>4
<1>4. l + 1 \in Nat
  BY <1>1
<1>5. 0 .. l + 1 \subseteq T
  <2> HIDE DEF T, l
  <2> DEFINE m == l + 1
  <2> HIDE DEF m
  <2>1. 0 .. m \subseteq T
    BY <1>2, <1>3, <1>4, UpTo DEF m
  <2>2. QED
    BY <2>1 DEF m
<1>6. l + 1 \in T /\ l + 1 - (l + 1) = 0
  <2>1. l + 1 \in 0 .. l + 1 /\ l + 1 - (l + 1) = 0
    BY <1>1
  <2> HIDE DEF T
  <2>2. QED
    BY <1>5, <2>1
<1>7. QED
  BY <1>6

(* ... so Splits is one.                                                   *)
LEMMA SplitsAre ==
  ASSUME NEW s \in Seq(Bytes), NEW pos \in 0 .. Len(s)
  PROVE  Splits(s)[pos] = Turn(Splits(s), s, pos)
<1>1. PICK f : IsSplits(f, s, 0)
  BY SplitsExist
<1>2. IsSplits(Splits(s), s, 0)
  BY <1>1 DEF Splits, IsSplits, Turn, Finds, After
<1>3. QED
  BY <1>2 DEF IsSplits

(* The messages from a position on.                                        *)
Found(s, pos) == Splits(s)[pos].messages

\* The equation of Splits, for them.
LEMMA FoundIs ==
  ASSUME NEW s \in Seq(Bytes), NEW pos \in 0 .. Len(s)
  PROVE  /\ Finds(s, pos) =>
              Found(s, pos) = <<MessageAt(s, ScanFrom(s, pos))>> \o Found(s, After(s, pos))
         /\ ~Finds(s, pos) => Found(s, pos) = << >>
<1> DEFINE x == <<MessageAt(s, ScanFrom(s, pos))>> \o Found(s, After(s, pos))
           f == Splits(s)
<1>1. f[pos] = Turn(f, s, pos)
  BY SplitsAre
<1>2. ASSUME Finds(s, pos) PROVE Found(s, pos) = x
  <2>1. Turn(f, s, pos) = [messages |-> x, rest |-> f[After(s, pos)].rest]
    BY <1>2 DEF Turn, Found
  <2> HIDE DEF x, f
  <2>2. f[pos].messages = x
    BY <1>1, <2>1
  <2>3. QED
    BY <2>2 DEF Found, f
<1>3. ASSUME ~Finds(s, pos) PROVE Found(s, pos) = << >>
  <2>1. Turn(f, s, pos) = [messages |-> << >>, rest |-> From(s, ScanFrom(s, pos))]
    BY <1>3 DEF Turn
  <2> HIDE DEF f
  <2>2. f[pos].messages = << >>
    BY <1>1, <2>1
  <2>3. QED
    BY <2>2 DEF Found, f
<1>4. QED
  BY <1>2, <1>3

\* Scanning may as well begin anywhere short of the stop.
LEMMA FoundOn ==
  ASSUME NEW s \in Seq(Bytes), NEW pos \in 0 .. Len(s), NEW p \in pos .. Len(s),
         \A q \in pos .. p - 1 : ~StopsAt(s, q)
  PROVE  Found(s, pos) = Found(s, p)
<1>1. ScanFrom(s, pos) = ScanFrom(s, p)
  BY ScanOn
<1>2. p \in 0 .. Len(s)
  BY LenProperties
<1>3. Splits(s)[pos] = Turn(Splits(s), s, pos) /\ Splits(s)[p] = Turn(Splits(s), s, p)
  BY <1>2, SplitsAre
<1>4. Turn(Splits(s), s, pos) = Turn(Splits(s), s, p)
  BY <1>1 DEF Turn, Finds, After
<1>5. QED
  BY <1>3, <1>4 DEF Found

\* Messages are sequences of bytes.
LEMMA FoundAreMessages ==
  ASSUME NEW s \in Seq(Bytes), NEW pos \in 0 .. Len(s)
  PROVE  Found(s, pos) \in Seq(Seq(Bytes))
<1> DEFINE l == Len(s)
           T == {n \in 0 .. l : \A p \in l - n .. l : Found(s, p) \in Seq(Seq(Bytes))}
<1>1. l \in Nat
  BY LenProperties
<1>2. ASSUME NEW p \in 0 .. l, Finds(s, p) => Found(s, After(s, p)) \in Seq(Seq(Bytes))
      PROVE  Found(s, p) \in Seq(Seq(Bytes))
  <2> DEFINE m == MessageAt(s, ScanFrom(s, p))
             more == Found(s, After(s, p))
  <2>1. CASE Finds(s, p)
    <3>1. m \in Seq(Bytes) /\ more \in Seq(Seq(Bytes)) /\ Found(s, p) = <<m>> \o more
      BY <1>2, <2>1, AfterIs, FoundIs
    <3> HIDE DEF m, more
    <3>2. <<m>> \in Seq(Seq(Bytes))
      BY <3>1
    <3>3. <<m>> \o more \in Seq(Seq(Bytes))
      BY <3>1, <3>2, ConcatProperties
    <3>4. QED
      BY <3>1, <3>3
  <2>2. CASE ~Finds(s, p)
    BY <2>2, FoundIs, EmptySeq
  <2>3. QED
    BY <2>1, <2>2
<1>3. 0 \in T
  <2>1. ASSUME NEW p \in l - 0 .. l PROVE Found(s, p) \in Seq(Seq(Bytes))
    <3>1. p = l /\ p \in 0 .. l
      BY <1>1
    <3>2. ~Finds(s, p)
      <4>1. Finds(s, p) => After(s, p) \in p + 1 .. l
        BY <3>1, AfterIs
      <4> HIDE DEF l
      <4>2. QED
        BY <1>1, <3>1, <4>1
    <3>3. QED
      BY <1>2, <3>1, <3>2
  <2>2. 0 \in 0 .. l
    BY <1>1
  <2>3. QED
    BY <2>1, <2>2
<1>4. ASSUME NEW n \in 1 .. l, n - 1 \in T PROVE n \in T
  <2>1. ASSUME NEW p \in l - n .. l PROVE Found(s, p) \in Seq(Seq(Bytes))
    <3>1. p \in 0 .. l
      BY <1>1
    <3>2. Finds(s, p) => After(s, p) \in p + 1 .. l
      BY <3>1, AfterIs
    <3> HIDE DEF l
    <3>3. Finds(s, p) => After(s, p) \in l - (n - 1) .. l
      BY <1>1, <3>2
    <3>4. Finds(s, p) => Found(s, After(s, p)) \in Seq(Seq(Bytes))
      BY <1>4, <3>3
    <3>5. QED
      BY <1>2, <3>1, <3>4
  <2>2. QED
    BY <1>1, <2>1
<1>5. 0 .. l \subseteq T
  <2> HIDE DEF T, l
  <2>1. QED
    BY <1>1, <1>3, <1>4, UpTo
<1>6. l \in T /\ pos \in l - l .. l
  <2>1. l \in 0 .. l /\ pos \in l - l .. l
    BY <1>1
  <2> HIDE DEF T, l
  <2>2. QED
    BY <1>5, <2>1
<1>7. QED
  BY <1>6

(* u is s from its position k on.                                          *)
Suffix(u, s, k) == Len(s) = k + Len(u) /\ \A n \in 1 .. Len(u) : s[k + n] = u[n]

\* What is at a position of the suffix is in the whole, k further on.
LEMMA SuffixSame ==
  ASSUME NEW s \in Seq(Bytes), NEW u \in Seq(Bytes), NEW k \in Nat, Suffix(u, s, k),
         NEW q \in Nat, NEW n \in Nat, q + n <= Len(u)
  PROVE  Same(u, q, s, k + q, n)
<1>1. Len(u) \in Nat
  BY LenProperties
<1>2. ASSUME NEW j \in 1 .. n PROVE u[q + j] = s[(k + q) + j]
  <2>1. q + j \in 1 .. Len(u) /\ k + (q + j) = (k + q) + j
    BY <1>1
  <2>2. s[k + (q + j)] = u[q + j]
    BY <2>1 DEF Suffix
  <2>3. QED
    BY <2>1, <2>2
<1>3. QED
  BY <1>2 DEF Same

\* A header in the suffix is one in the whole.
LEMMA SuffixHeader ==
  ASSUME NEW s \in Seq(Bytes), NEW u \in Seq(Bytes), NEW k \in Nat, Suffix(u, s, k),
         NEW q \in 0 .. Len(u)
  PROVE  /\ HeaderAt(u, q) <=> HeaderAt(s, k + q)
         /\ q + Width <= Len(u) <=> (k + q) + Width <= Len(s)
         /\ HeaderAt(u, q) => LengthAt(u, q) = LengthAt(s, k + q)
<1>1. Len(u) \in Nat /\ Width \in Nat /\ q \in Nat /\ k + q \in Nat /\ Len(s) = k + Len(u)
  BY LenProperties, Sizes DEF Suffix
<1>2. q + Width <= Len(u) <=> (k + q) + Width <= Len(s)
  BY <1>1
<1>3. CASE q + Width <= Len(u)
  <2>1. Same(u, q, s, k + q, Width) /\ (k + q) + Width <= Len(s)
    BY <1>1, <1>2, <1>3, SuffixSame
  <2> DEFINE r == k + q
  <2>2. r \in Nat /\ Same(u, q, s, r, Width) /\ r + Width <= Len(s)
    BY <1>1, <2>1
  <2> HIDE DEF r
  <2>3. (HeaderAt(u, q) <=> HeaderAt(s, r)) /\ LengthAt(u, q) = LengthAt(s, r)
    BY <1>1, <1>3, <2>2, SameHeader
  <2>4. QED
    BY <1>2, <2>3 DEF r
<1>4. CASE ~(q + Width <= Len(u))
  BY <1>2, <1>4 DEF HeaderAt
<1>5. QED
  BY <1>3, <1>4

\* So a turn of the loop does the same in both.
LEMMA SuffixTurn ==
  ASSUME NEW s \in Seq(Bytes), NEW u \in Seq(Bytes), NEW k \in Nat, Suffix(u, s, k),
         NEW pos \in 0 .. Len(u)
  PROVE  /\ k + pos \in 0 .. Len(s)
         /\ ScanFrom(s, k + pos) = k + ScanFrom(u, pos)
         /\ Finds(u, pos) <=> Finds(s, k + pos)
         /\ Finds(u, pos) => /\ After(s, k + pos) = k + After(u, pos)
                             /\ MessageAt(s, ScanFrom(s, k + pos)) = MessageAt(u, ScanFrom(u, pos))
<1> DEFINE p == ScanFrom(u, pos)
           l == LengthAt(u, p)
           r == k + p
<1>1. /\ p \in pos .. Len(u) /\ StopsAt(u, p) /\ \A q \in pos .. p - 1 : ~StopsAt(u, q)
      /\ Len(u) \in Nat /\ Width \in Nat /\ Len(s) = k + Len(u)
  BY ScanIs, LenProperties, Sizes DEF Suffix
<1> HIDE DEF p
<1>2. p \in 0 .. Len(u) /\ r \in Nat /\ r \in k + pos .. Len(s) /\ k + pos \in 0 .. Len(s)
  BY <1>1
<1>3. \A q \in 0 .. Len(u) : StopsAt(u, q) <=> StopsAt(s, k + q)
  <2>1. ASSUME NEW q \in 0 .. Len(u) PROVE StopsAt(u, q) <=> StopsAt(s, k + q)
    <3>1. /\ HeaderAt(u, q) <=> HeaderAt(s, k + q)
          /\ q + Width <= Len(u) <=> (k + q) + Width <= Len(s)
      BY SuffixHeader
    <3>2. (q + Width > Len(u)) <=> ((k + q) + Width > Len(s))
      BY <1>1, <3>1
    <3>3. QED
      BY <3>1, <3>2 DEF StopsAt
  <2>2. QED
    BY <2>1
<1>4. StopsAt(s, r)
  BY <1>1, <1>2, <1>3
<1>5. ASSUME NEW q \in k + pos .. r - 1 PROVE ~StopsAt(s, q)
  <2>1. q - k \in pos .. p - 1 /\ q - k \in 0 .. Len(u) /\ k + (q - k) = q
    BY <1>1, <1>2
  <2>2. QED
    BY <1>1, <1>3, <2>1
<1>6. ScanFrom(s, k + pos) = r
  <2> DEFINE a == k + pos
  <2>1. a \in 0 .. Len(s) /\ r \in a .. Len(s) /\ \A q \in a .. r - 1 : ~StopsAt(s, q)
    BY <1>2, <1>5
  <2> HIDE DEF a, r
  <2>2. ScanFrom(s, a) = r
    BY <1>4, <2>1, ScanTo
  <2>3. QED
    BY <2>2 DEF a
<1>7. (HeaderAt(u, p) <=> HeaderAt(s, r)) /\ (HeaderAt(u, p) => LengthAt(s, r) = l)
  BY <1>2, SuffixHeader
<1>8. HeaderAt(u, p) => l \in Nat
  BY <1>1, <1>2, HeaderSays
<1> HIDE DEF l
<1>9. HeaderAt(u, p) => (CompleteAt(u, p) <=> CompleteAt(s, r))
  BY <1>1, <1>2, <1>7, <1>8 DEF CompleteAt, l
<1>10. Finds(u, pos) <=> HeaderAt(u, p) /\ CompleteAt(u, p)
  BY DEF Finds, p
<1>11. Finds(s, k + pos) <=> HeaderAt(s, r) /\ CompleteAt(s, r)
  BY <1>6 DEF Finds
<1>12. ASSUME Finds(u, pos)
       PROVE  After(s, k + pos) = k + After(u, pos) /\ MessageAt(s, r) = MessageAt(u, p)
  <2>1. HeaderAt(u, p) /\ CompleteAt(u, p) /\ l \in Nat /\ LengthAt(s, r) = l
    BY <1>7, <1>8, <1>10, <1>12
  <2>2. p + Width + l <= Len(u)
    BY <2>1 DEF CompleteAt, l
  <2>3. p \in Nat /\ Width + l \in Nat /\ p + (Width + l) <= Len(u)
        /\ r + Width + l <= Len(s)
    BY <1>1, <1>2, <2>1, <2>2
  <2>4. Same(u, p, s, r, Width + l)
    <3> DEFINE n == Width + l
    <3>1. n \in Nat /\ p + n <= Len(u)
      BY <2>3
    <3> HIDE DEF n
    <3>2. Same(u, p, s, k + p, n)
      BY <2>3, <3>1, SuffixSame
    <3>3. QED
      BY <3>2 DEF n
  <2> HIDE DEF r
  <2>5. l = LengthAt(u, p)
    BY DEF l
  <2>6. MessageAt(s, r) = MessageAt(u, p)
    BY <1>2, <2>1, <2>3, <2>4, <2>5, SameMessage
  <2>7. After(s, k + pos) = r + Width + l
    BY <1>6, <2>1 DEF After
  <2>8. After(u, pos) = p + Width + l
    BY DEF After, p, l
  <2>9. QED
    BY <1>1, <1>2, <2>1, <2>6, <2>7, <2>8 DEF r
<1>13. QED
  BY <1>2, <1>6, <1>7, <1>9, <1>10, <1>11, <1>12 DEF p

(* The messages of a suffix are those of the whole from there on.          *)
LEMMA FoundInSuffix ==
  ASSUME NEW s \in Seq(Bytes), NEW u \in Seq(Bytes), NEW k \in Nat, Suffix(u, s, k),
         NEW pos \in 0 .. Len(u)
  PROVE  Found(u, pos) = Found(s, k + pos)
<1> DEFINE l == Len(u)
           T == {n \in 0 .. l : \A p \in l - n .. l : Found(u, p) = Found(s, k + p)}
<1>1. l \in Nat
  BY LenProperties
<1>2. ASSUME NEW p \in 0 .. l,
             Finds(u, p) => Found(u, After(u, p)) = Found(s, k + After(u, p))
      PROVE  Found(u, p) = Found(s, k + p)
  <2>1. k + p \in 0 .. Len(s) /\ (Finds(u, p) <=> Finds(s, k + p))
    BY SuffixTurn
  <2>2. CASE Finds(u, p)
    <3>1. After(s, k + p) = k + After(u, p)
          /\ MessageAt(s, ScanFrom(s, k + p)) = MessageAt(u, ScanFrom(u, p))
      BY <2>2, SuffixTurn
    <3>2. Found(u, p) = <<MessageAt(u, ScanFrom(u, p))>> \o Found(u, After(u, p))
      BY <2>2, FoundIs
    <3>3. Found(s, k + p)
            = <<MessageAt(s, ScanFrom(s, k + p))>> \o Found(s, After(s, k + p))
      BY <2>1, <2>2, FoundIs
    <3>4. QED
      BY <1>2, <2>2, <3>1, <3>2, <3>3
  <2>3. CASE ~Finds(u, p)
    BY <2>1, <2>3, FoundIs
  <2>4. QED
    BY <2>2, <2>3
<1>3. 0 \in T
  <2>1. ASSUME NEW p \in l - 0 .. l PROVE Found(u, p) = Found(s, k + p)
    <3>1. p = l /\ p \in 0 .. l
      BY <1>1
    <3>2. ~Finds(u, p)
      <4>1. Finds(u, p) => After(u, p) \in p + 1 .. l
        BY <3>1, AfterIs
      <4> HIDE DEF l
      <4>2. QED
        BY <1>1, <3>1, <4>1
    <3>3. QED
      BY <1>2, <3>1, <3>2
  <2>2. 0 \in 0 .. l
    BY <1>1
  <2>3. QED
    BY <2>1, <2>2
<1>4. ASSUME NEW n \in 1 .. l, n - 1 \in T PROVE n \in T
  <2>1. ASSUME NEW p \in l - n .. l PROVE Found(u, p) = Found(s, k + p)
    <3>1. p \in 0 .. l
      BY <1>1
    <3>2. Finds(u, p) => After(u, p) \in p + 1 .. l
      BY <3>1, AfterIs
    <3> HIDE DEF l
    <3>3. Finds(u, p) => After(u, p) \in l - (n - 1) .. l
      BY <1>1, <3>2
    <3>4. Finds(u, p) => Found(u, After(u, p)) = Found(s, k + After(u, p))
      BY <1>4, <3>3
    <3>5. QED
      BY <1>2, <3>1, <3>4
  <2>2. QED
    BY <1>1, <2>1
<1>5. 0 .. l \subseteq T
  <2> HIDE DEF T, l
  <2>1. QED
    BY <1>1, <1>3, <1>4, UpTo
<1>6. l \in T /\ pos \in l - l .. l
  <2>1. l \in 0 .. l /\ pos \in l - l .. l
    BY <1>1
  <2> HIDE DEF T, l
  <2>2. QED
    BY <1>5, <2>1
<1>7. QED
  BY <1>6

---------------------------------------------------------------------------
(* A buffer and the bytes still on the wire behind it: the buffer without  *)
(* its first k bytes finds what the whole finds from k on ...              *)
LEMMA RestOf ==
  ASSUME NEW b \in Seq(Bytes), NEW w \in Seq(Bytes), NEW k \in 0 .. Len(b)
  PROVE  /\ From(b, k) \in Seq(Bytes) /\ Len(From(b, k)) = Len(b) - k
         /\ Found(From(b, k) \o w, 0) = Found(b \o w, k)
<1> DEFINE n == Len(b) - k
           r == From(b, k)
<1>1. Len(b) \in Nat /\ n \in Nat /\ k \in Nat /\ k + n = Len(b) /\ k + n <= Len(b)
  BY LenProperties
<1>2. r \in Seq(Bytes) /\ Len(r) = n /\ \A j \in 1 .. n : r[j] = b[k + j]
  <2> HIDE DEF n
  <2>1. From(b, k) = SubSeq(b, k + 1, k + n)
    BY <1>1 DEF From
  <2>2. n \in Nat /\ k \in Nat /\ k + n <= Len(b)
    BY <1>1
  <2> DEFINE part == SubSeq(b, k + 1, k + n)
  <2>3. part \in Seq(Bytes) /\ Len(part) = n /\ \A j \in 1 .. n : part[j] = b[k + j]
    BY <2>2, PartOf
  <2> HIDE DEF part
  <2>4. r = part
    BY <2>1 DEF part
  <2> HIDE DEF r
  <2>5. QED
    BY <2>3, <2>4
<1> HIDE DEF n, r
<1>3. /\ r \o w \in Seq(Bytes) /\ Len(r \o w) = n + Len(w) /\ Len(w) \in Nat
      /\ \A j \in 1 .. n + Len(w) : (r \o w)[j] = IF j <= n THEN r[j] ELSE w[j - n]
  BY <1>2, ConcatProperties, LenProperties
<1>4. /\ b \o w \in Seq(Bytes) /\ Len(b \o w) = Len(b) + Len(w)
      /\ \A j \in 1 .. Len(b) + Len(w) : (b \o w)[j] = IF j <= Len(b) THEN b[j] ELSE w[j - Len(b)]
  BY ConcatProperties
<1> DEFINE x == r \o w
           y == b \o w
<1>5. Suffix(x, y, k)
  <2> HIDE DEF x, y
  <2>1. Len(y) = k + Len(x)
    <3>1. Len(x) = n + Len(w) /\ Len(w) \in Nat
      BY <1>3 DEF x
    <3>2. Len(y) = Len(b) + Len(w)
      BY <1>4 DEF y
    <3>3. QED
      BY <1>1, <3>1, <3>2
  <2>2. ASSUME NEW j \in 1 .. Len(x) PROVE y[k + j] = x[j]
    <3>1. j \in 1 .. n + Len(w) /\ k + j \in 1 .. Len(b) + Len(w)
      BY <1>1, <1>3 DEF x
    <3>2. x[j] = IF j <= n THEN r[j] ELSE w[j - n]
      BY <1>3, <3>1 DEF x
    <3>3. y[k + j] = IF k + j <= Len(b) THEN b[k + j] ELSE w[(k + j) - Len(b)]
      BY <1>4, <3>1 DEF y
    <3>4. CASE j <= n
      <4>1. k + j <= Len(b) /\ j \in 1 .. n
        BY <1>1, <3>1, <3>4
      <4>2. QED
        BY <1>2, <3>2, <3>3, <3>4, <4>1
    <3>5. CASE ~(j <= n)
      <4>1. ~(k + j <= Len(b)) /\ (k + j) - Len(b) = j - n
        BY <1>1, <3>1, <3>5
      <4>2. QED
        BY <3>2, <3>3, <3>5, <4>1
    <3>6. QED
      BY <3>4, <3>5
  <2>3. QED
    BY <2>1, <2>2 DEF Suffix
<1>6. x \in Seq(Bytes) /\ y \in Seq(Bytes) /\ 0 \in 0 .. Len(x)
  BY <1>1, <1>3, <1>4
<1> HIDE DEF x, y
<1>7. Found(x, 0) = Found(y, k + 0)
  BY <1>1, <1>5, <1>6, FoundInSuffix
<1>8. QED
  BY <1>1, <1>2, <1>7 DEF x, y, n, r

\* ... and the bytes behind it do not change what is in it.
LEMMA FrontOf ==
  ASSUME NEW b \in Seq(Bytes), NEW w \in Seq(Bytes), NEW a \in Nat, NEW n \in Nat, a + n <= Len(b)
  PROVE  /\ b \o w \in Seq(Bytes) /\ Len(b \o w) = Len(b) + Len(w) /\ a + n <= Len(b \o w)
         /\ Same(b, a, b \o w, a, n)
<1>1. /\ b \o w \in Seq(Bytes) /\ Len(b \o w) = Len(b) + Len(w)
      /\ Len(b) \in Nat /\ Len(w) \in Nat
      /\ \A j \in 1 .. Len(b) + Len(w) : (b \o w)[j] = IF j <= Len(b) THEN b[j] ELSE w[j - Len(b)]
  BY ConcatProperties, LenProperties
<1>2. ASSUME NEW j \in 1 .. n PROVE b[a + j] = (b \o w)[a + j]
  <2>1. a + j \in 1 .. Len(b) + Len(w) /\ a + j <= Len(b)
    BY <1>1
  <2>2. QED
    BY <1>1, <2>1
<1>3. QED
  BY <1>1, <1>2 DEF Same

\* More bytes behind the buffer: scanning comes past the same positions.
LEMMA FoundFromStop ==
  ASSUME NEW b \in Seq(Bytes), NEW w \in Seq(Bytes), NEW p, p = ScanFrom(b, 0)
  PROVE  /\ p \in 0 .. Len(b) /\ StopsAt(b, p)
         /\ Found(b \o w, 0) = Found(b \o w, p)
<1>1. Len(b) \in Nat /\ Len(w) \in Nat /\ Width \in Nat
  BY LenProperties, Sizes
<1>2. 0 \in 0 .. Len(b)
  BY <1>1
<1>3. p \in 0 .. Len(b) /\ StopsAt(b, p) /\ \A q \in 0 .. p - 1 : ~StopsAt(b, q)
  BY <1>2, ScanIs
<1> DEFINE y == b \o w
<1>4. y \in Seq(Bytes) /\ Len(y) = Len(b) + Len(w)
  BY ConcatProperties
<1>5. ASSUME NEW q \in 0 .. p - 1 PROVE ~StopsAt(y, q)
  <2>1. q \in Nat /\ ~HeaderAt(b, q) /\ q + Width <= Len(b)
    BY <1>1, <1>3 DEF StopsAt
  <2>2. q + Width <= Len(y) /\ Same(b, q, y, q, Width)
    BY <1>1, <2>1, FrontOf
  <2> HIDE DEF y
  <2>3. ~HeaderAt(y, q)
    BY <1>4, <2>1, <2>2, SameHeader
  <2>4. QED
    BY <1>1, <1>4, <2>1, <2>2, <2>3 DEF StopsAt
<1> HIDE DEF y
<1>6. 0 \in 0 .. Len(y) /\ p \in 0 .. Len(y)
  BY <1>1, <1>3, <1>4
<1>7. Found(y, 0) = Found(y, p)
  BY <1>4, <1>5, <1>6, FoundOn
<1>8. QED
  BY <1>3, <1>7 DEF y

(* take_one_message takes nothing: what it drops from the buffer is no     *)
(* part of a message, and what it leaves is short of one.                  *)
LEMMA TakesNothingIs ==
  ASSUME NEW b \in Seq(Bytes), NEW w \in Seq(Bytes), NEW t, t = take_one_message(b),
         t.out = << >>
  PROVE  /\ t.buffer \in Seq(Bytes) /\ Len(t.buffer) < Width + MaxFrame
         /\ Found(t.buffer \o w, 0) = Found(b \o w, 0)
<1> DEFINE p == ScanFrom(b, 0)
           l == LengthAt(b, p)
<1>1. p \in 0 .. Len(b) /\ StopsAt(b, p) /\ Found(b \o w, 0) = Found(b \o w, p)
      /\ Len(b) \in Nat /\ Width \in Nat /\ Width > 0 /\ MaxFrame \in Nat
  BY FoundFromStop, LenProperties, Sizes
<1>2. From(b, p) \in Seq(Bytes) /\ Len(From(b, p)) = Len(b) - p
      /\ Found(From(b, p) \o w, 0) = Found(b \o w, p)
  BY <1>1, RestOf
<1>3. HeaderAt(b, p) => l \in Nat /\ l <= MaxFrame
  BY <1>1, HeaderSays
<1>4. CASE ~HeaderAt(b, p)
  <2>1. t.buffer = From(b, p)
    BY <1>4 DEF take_one_message
  <2> HIDE DEF p, l
  <2>2. p + Width > Len(b)
    BY <1>1, <1>4 DEF StopsAt
  <2>3. Len(b) - p < Width + MaxFrame
    BY <1>1, <2>2
  <2>4. QED
    BY <1>1, <1>2, <2>1, <2>3
<1>5. CASE HeaderAt(b, p)
  <2>1. l \in Nat /\ l <= MaxFrame /\ ~(l > MaxFrame)
    BY <1>1, <1>3, <1>5
  <2>2. t = IF CompleteAt(b, p)
              THEN [out |-> <<MessageAt(b, p)>>, buffer |-> From(b, p + Width + l)]
              ELSE [out |-> << >>, buffer |-> From(b, p)]
    BY <1>5, <2>1 DEF take_one_message
  <2>3. ~CompleteAt(b, p)
    <3>1. SUFFICES ASSUME CompleteAt(b, p) PROVE FALSE
      OBVIOUS
    <3> DEFINE m == MessageAt(b, p)
    <3>2. t.out = <<m>>
      BY <2>2, <3>1
    <3> HIDE DEF m
    <3>3. <<m>>[1] = m /\ Len(<<m>>) = 1
      OBVIOUS
    <3>4. Len(<<m>>) = 0
      BY <3>2, EmptySeq
    <3>5. QED
      BY <3>3, <3>4
  <2>4. t.buffer = From(b, p)
    BY <2>2, <2>3
  <2>5. ~(p + Width + l <= Len(b))
    BY <2>3 DEF CompleteAt
  <2> HIDE DEF p, l
  <2>6. Len(b) - p < Width + MaxFrame
    BY <1>1, <2>1, <2>5
  <2>7. QED
    BY <1>1, <1>2, <2>4, <2>6
<1>6. QED
  BY <1>4, <1>5

(* take_one_message takes a message: it is the first that the bytes stand  *)
(* for, and the others are in what it leaves.                              *)
LEMMA TakesFirst ==
  ASSUME NEW b \in Seq(Bytes), NEW w \in Seq(Bytes), NEW t, t = take_one_message(b),
         t.out # << >>
  PROVE  \E m \in Seq(Bytes) :
           /\ t.out = <<m>> /\ Quotients(Len(m))[Width] = 0
           /\ t.buffer \in Seq(Bytes) /\ Len(b) = Len(t.buffer) + Width + Len(m) + ScanFrom(b, 0)
           /\ Found(b \o w, 0) = <<m>> \o Found(t.buffer \o w, 0)
<1> DEFINE p == ScanFrom(b, 0)
           l == LengthAt(b, p)
           m == MessageAt(b, p)
           y == b \o w
           after == p + Width + l
<1>1. p \in 0 .. Len(b) /\ StopsAt(b, p) /\ Found(y, 0) = Found(y, p)
      /\ Len(b) \in Nat /\ Width \in Nat /\ Width > 0 /\ MaxFrame \in Nat
  BY FoundFromStop, LenProperties, Sizes
<1>2. HeaderAt(b, p)
  <2>1. SUFFICES ASSUME ~HeaderAt(b, p) PROVE FALSE
    OBVIOUS
  <2>2. t.out = << >>
    BY <2>1 DEF take_one_message
  <2>3. QED
    BY <2>2
<1>3. l \in Nat /\ l <= MaxFrame /\ ~(l > MaxFrame) /\ Quotients(l)[Width] = 0
  BY <1>1, <1>2, HeaderSays
<1>4. t = IF CompleteAt(b, p)
            THEN [out |-> <<m>>, buffer |-> From(b, after)]
            ELSE [out |-> << >>, buffer |-> From(b, p)]
  BY <1>2, <1>3 DEF take_one_message
<1>5. CompleteAt(b, p)
  <2>1. SUFFICES ASSUME ~CompleteAt(b, p) PROVE FALSE
    OBVIOUS
  <2>2. t.out = << >>
    BY <1>4, <2>1
  <2>3. QED
    BY <2>2
<1>6. t.out = <<m>> /\ t.buffer = From(b, after)
  <2>1. t = [out |-> <<m>>, buffer |-> From(b, after)]
    BY <1>4, <1>5
  <2> HIDE DEF m, after
  <2>2. QED
    BY <2>1
<1>7. after <= Len(b)
  BY <1>5 DEF CompleteAt
<1>8. l = LengthAt(b, p)
  OBVIOUS
<1>9. m = SubSeq(b, p + Width + 1, p + Width + l)
  BY DEF MessageAt
<1> HIDE DEF p, l, m
<1>10. p \in Nat /\ Width + l \in Nat /\ p + (Width + l) <= Len(b) /\ after \in 0 .. Len(b)
       /\ p \in 0 .. Len(b)
  BY <1>1, <1>3, <1>7
<1>11. m \in Seq(Bytes) /\ Len(m) = l
  <2> DEFINE c == p + Width
  <2>1. c \in Nat /\ c + l <= Len(b) /\ m = SubSeq(b, c + 1, c + l) /\ l \in Nat
    BY <1>1, <1>3, <1>7, <1>9, <1>10
  <2> HIDE DEF c
  <2>2. QED
    BY <2>1, PartOf
<1>12. From(b, after) \in Seq(Bytes) /\ Len(From(b, after)) = Len(b) - after
       /\ Found(From(b, after) \o w, 0) = Found(y, after)
  BY <1>10, RestOf
<1>13. y \in Seq(Bytes) /\ Len(y) = Len(b) + Len(w) /\ Same(b, p, y, p, Width + l)
       /\ Len(w) \in Nat
  <2> DEFINE n == Width + l
  <2>1. p \in Nat /\ n \in Nat /\ p + n <= Len(b)
    BY <1>10
  <2> HIDE DEF n
  <2>2. y \in Seq(Bytes) /\ Len(y) = Len(b) + Len(w) /\ Same(b, p, y, p, n)
    BY <2>1, FrontOf
  <2>3. QED
    BY <2>2, LenProperties DEF n
<1> HIDE DEF y
<1>14. p + Width + l <= Len(y) /\ p \in 0 .. Len(y)
  BY <1>1, <1>3, <1>7, <1>10, <1>13
<1>15. /\ HeaderAt(y, p) /\ LengthAt(y, p) = l /\ CompleteAt(y, p)
       /\ MessageAt(y, p) = m
  BY <1>2, <1>5, <1>8, <1>10, <1>13, <1>14, SameMessage DEF m
<1>16. ScanFrom(y, p) = p
  <2>1. p \in p .. Len(y) /\ \A q \in p .. p - 1 : ~StopsAt(y, q)
    BY <1>13, <1>14
  <2>2. StopsAt(y, p)
    BY <1>15 DEF StopsAt
  <2>3. QED
    BY <1>13, <1>14, <2>1, <2>2, ScanTo
<1>17. Finds(y, p) /\ After(y, p) = after
  BY <1>15, <1>16 DEF Finds, After
<1>18. Found(y, p) = <<m>> \o Found(y, after)
  BY <1>13, <1>14, <1>15, <1>16, <1>17, FoundIs
<1>19. Len(b) = Len(t.buffer) + Width + Len(m) + p
  BY <1>1, <1>3, <1>6, <1>10, <1>11, <1>12
<1>20. Found(y, 0) = <<m>> \o Found(t.buffer \o w, 0)
  BY <1>1, <1>6, <1>12, <1>18
<1>21. QED
  BY <1>3, <1>6, <1>11, <1>12, <1>19, <1>20 DEF p, y

(* What send_preview puts in front of some bytes is the first message that *)
(* they stand for.                                                         *)
LEMMA PutInFront ==
  ASSUME NEW m \in Seq(Bytes), Quotients(Len(m))[Width] = 0, NEW r \in Seq(Bytes)
  PROVE  /\ send_preview(m) \in Seq(Bytes) /\ Len(send_preview(m)) = Width + Len(m)
         /\ Found(send_preview(m) \o r, 0) = <<m>> \o Found(r, 0)
<1> DEFINE h == Header(Len(m))
           f == send_preview(m)
           y == f \o r
           l == Len(m)
<1>1. l \in Nat /\ Width \in Nat /\ Width > 0 /\ Len(r) \in Nat
  BY LenProperties, Sizes
<1>2. h \in [1 .. Width -> 0 .. Base - 1] /\ Value(h) = l
  BY <1>1, HeaderIs
<1> HIDE DEF h
<1>3. h \in Seq(Bytes) /\ Len(h) = Width
  BY <1>2, Sizes DEF Bytes
<1>4. f = h \o m
  BY DEF send_preview, h
<1>5. /\ f \in Seq(Bytes) /\ Len(f) = Width + l
      /\ \A k \in 1 .. Width + l : f[k] = IF k <= Width THEN h[k] ELSE m[k - Width]
  BY <1>3, <1>4, ConcatProperties
<1> HIDE DEF f
<1>6. /\ y \in Seq(Bytes) /\ Len(y) = (Width + l) + Len(r)
      /\ \A k \in 1 .. (Width + l) + Len(r) :
           y[k] = IF k <= Width + l THEN f[k] ELSE r[k - (Width + l)]
  <2>1. /\ y \in Seq(Bytes) /\ Len(y) = Len(f) + Len(r)
        /\ \A k \in 1 .. Len(f) + Len(r) : y[k] = IF k <= Len(f) THEN f[k] ELSE r[k - Len(f)]
    BY <1>5, ConcatProperties
  <2> HIDE DEF y, l
  <2>2. QED
    BY <1>5, <2>1
<1> HIDE DEF y, l
<1>7. \A k \in 1 .. Width + l : y[k] = f[k]
  BY <1>1, <1>6
<1>8. \A k \in 1 .. Width : y[k] = h[k] /\ h[k] \in 0 .. Base - 1
  BY <1>1, <1>2, <1>5, <1>7
<1>9. \A k \in 1 .. l : y[Width + k] = m[k]
  <2>1. ASSUME NEW k \in 1 .. l PROVE y[Width + k] = m[k]
    <3>1. Width + k \in 1 .. Width + l /\ ~(Width + k <= Width) /\ (Width + k) - Width = k
      BY <1>1
    <3>2. QED
      BY <1>5, <1>7, <3>1
  <2>2. QED
    BY <2>1
<1>10. 0 + Width <= Len(y) /\ Width + l <= Len(y)
  BY <1>1, <1>6
<1>11. HeaderAt(y, 0)
  BY <1>1, <1>8, <1>10, Sizes DEF HeaderAt
<1>12. SubSeq(y, 0 + 1, 0 + Width) = h
  <2> DEFINE part == SubSeq(y, 0 + 1, 0 + Width)
  <2>1. part \in Seq(Bytes) /\ Len(part) = Width /\ \A k \in 1 .. Width : part[k] = y[0 + k]
    BY <1>1, <1>6, <1>10, PartOf
  <2> HIDE DEF part
  <2>2. \A k \in 1 .. Len(part) : part[k] = h[k]
    BY <1>8, <2>1
  <2>3. part = h
    BY <1>3, <2>1, <2>2, SeqEqual
  <2>4. QED
    BY <2>3 DEF part
<1>13. LengthAt(y, 0) = l
  BY <1>2, <1>12 DEF LengthAt
<1>14. CompleteAt(y, 0)
  BY <1>1, <1>10, <1>13 DEF CompleteAt
<1>15. SubSeq(y, Width + 1, Width + l) = m
  <2> DEFINE part == SubSeq(y, Width + 1, Width + l)
  <2>1. part \in Seq(Bytes) /\ Len(part) = l /\ \A k \in 1 .. l : part[k] = y[Width + k]
    BY <1>1, <1>6, <1>10, PartOf
  <2> HIDE DEF part
  <2>2. Len(m) = l /\ \A k \in 1 .. Len(part) : part[k] = m[k]
    BY <1>9, <2>1 DEF l
  <2>3. part = m
    BY <2>1, <2>2, SeqEqual
  <2>4. QED
    BY <2>3 DEF part
<1>16. MessageAt(y, 0) = m
  <2>1. 0 + Width = Width
    BY <1>1
  <2>2. QED
    BY <1>13, <1>15, <2>1 DEF MessageAt
<1>17. ScanFrom(y, 0) = 0
  <2>1. 0 \in 0 .. Len(y) /\ \A q \in 0 .. 0 - 1 : ~StopsAt(y, q)
    BY <1>1, <1>6
  <2>2. StopsAt(y, 0)
    BY <1>11 DEF StopsAt
  <2>3. QED
    BY <1>6, <2>1, <2>2, ScanTo
<1>18. Finds(y, 0) /\ After(y, 0) = Width + l
  BY <1>1, <1>11, <1>13, <1>14, <1>17 DEF Finds, After
<1>19. Found(y, 0) = <<m>> \o Found(y, Width + l)
  <2>1. 0 \in 0 .. Len(y)
    BY <1>1, <1>6
  <2>2. QED
    BY <1>6, <1>16, <1>17, <1>18, <2>1, FoundIs
<1>20. Suffix(r, y, Width + l)
  <2>1. ASSUME NEW k \in 1 .. Len(r) PROVE y[(Width + l) + k] = r[k]
    <3>1. (Width + l) + k \in 1 .. (Width + l) + Len(r) /\ ~((Width + l) + k <= Width + l)
          /\ ((Width + l) + k) - (Width + l) = k
      BY <1>1
    <3>2. QED
      BY <1>6, <3>1
  <2>2. QED
    BY <1>6, <2>1 DEF Suffix
<1>21. Found(r, 0) = Found(y, Width + l)
  <2>1. Width + l \in Nat /\ 0 \in 0 .. Len(r) /\ (Width + l) + 0 = Width + l
    BY <1>1
  <2> DEFINE k == Width + l
  <2> HIDE DEF k
  <2>2. Found(r, 0) = Found(y, k + 0)
    BY <1>6, <1>20, <2>1, FoundInSuffix DEF k
  <2>3. QED
    BY <2>1, <2>2 DEF k
<1>22. QED
  BY <1>5, <1>19, <1>21 DEF f, y, l

---------------------------------------------------------------------------
(* What a client that frames a talk sends: its frames, one by one.         *)
LEMMA FlattenIs ==
  ASSUME NEW seqs \in Seq(Seq(Bytes))
  PROVE  \E f \in [0 .. Len(seqs) -> Seq(Bytes)] :
           /\ f[0] = << >> /\ \A k \in 1 .. Len(seqs) : f[k] = f[k - 1] \o seqs[k]
           /\ FlattenSeq(seqs) = f[Len(seqs)]
<1> DEFINE n == Len(seqs)
           D == Seq(Bytes)
           g == [k \in 1 .. n |-> [x \in D |-> x \o seqs[k]]]
           Is(h) == h = [k \in 1 .. n |-> IF k = 1 THEN seqs[k] ELSE h[k - 1] \o seqs[k]]
           h == CHOOSE h : Is(h)
<1>1. n \in Nat /\ << >> \in D /\ \A k \in 1 .. n : seqs[k] \in D
  BY LenProperties, EmptySeq, ElementOfSeq
<1>2. g \in [1 .. n -> [D -> D]]
  <2>1. \A k \in 1 .. n : \A x \in D : x \o seqs[k] \in D
    BY <1>1, ConcatProperties
  <2> HIDE DEF D, n
  <2>2. QED
    BY <2>1
<1>3. PICK f : IsSteps(f, D, << >>, n, g)
  <2> HIDE DEF D, g, n
  <2>1. QED
    BY <1>1, <1>2, StepsExist, Zenon
<1> HIDE DEF D
<1>4. f \in [0 .. n -> D] /\ f[0] = << >> /\ \A k \in 1 .. n : f[k] = g[k][f[k - 1]]
  BY <1>3 DEF IsSteps
<1>5. ASSUME NEW k \in 1 .. n PROVE f[k] = f[k - 1] \o seqs[k]
  <2> HIDE DEF n
  <2>1. f[k - 1] \in D
    BY <1>1, <1>4
  <2>2. g[k][f[k - 1]] = f[k - 1] \o seqs[k]
    BY <2>1 DEF g
  <2>3. QED
    BY <1>4, <2>2
<1>6. n > 0 => f[1] = seqs[1]
  <2>1. SUFFICES ASSUME n > 0 PROVE f[1] = seqs[1]
    OBVIOUS
  <2>2. 1 \in 1 .. n
    BY <1>1, <2>1
  <2>3. f[1] = f[1 - 1] \o seqs[1]
    BY <1>5, <2>2
  <2>4. f[1 - 1] = << >>
    <3>1. 1 - 1 = 0
      OBVIOUS
    <3>2. QED
      BY <1>4, <3>1, Zenon
  <2>5. seqs[1] \in Seq(Bytes)
    BY <1>1, <2>2 DEF D
  <2>6. << >> \o seqs[1] = seqs[1]
    BY <2>5, ConcatEmptySeq
  <2>7. QED
    BY <2>3, <2>4, <2>6, Zenon
<1>7. Is(h)
  <2> DEFINE e == [k \in 1 .. n |-> f[k]]
  <2>1. ASSUME NEW k \in 1 .. n PROVE f[k] = IF k = 1 THEN seqs[k] ELSE e[k - 1] \o seqs[k]
    <3>1. CASE k = 1
      BY <1>1, <1>6, <3>1
    <3>2. CASE k # 1
      <4>1. k - 1 \in 1 .. n
        BY <1>1, <3>2
      <4> HIDE DEF n
      <4>2. e[k - 1] = f[k - 1]
        BY <4>1
      <4>3. QED
        BY <1>5, <3>2, <4>2
    <3>3. QED
      BY <3>1, <3>2
  <2>2. Is(e)
    <3> HIDE DEF n
    <3>1. QED
      BY <2>1
  <2> HIDE DEF Is, e
  <2>3. QED
    BY <2>2
<1> HIDE DEF g, h
<1> DEFINE T == {k \in 0 .. n : k = 0 \/ h[k] = f[k]}
<1>8. 0 \in T
  BY <1>1
<1>9. ASSUME NEW k \in 1 .. n, k - 1 \in T PROVE k \in T
  <2> HIDE DEF n
  <2>1. k \in 0 .. n
    BY <1>1
  <2> DEFINE y == [j \in 1 .. n |-> IF j = 1 THEN seqs[j] ELSE h[j - 1] \o seqs[j]]
  <2>2. h = y
    BY <1>7
  <2>3. y[k] = IF k = 1 THEN seqs[k] ELSE h[k - 1] \o seqs[k]
    OBVIOUS
  <2> HIDE DEF y
  <2>4. h[k] = IF k = 1 THEN seqs[k] ELSE h[k - 1] \o seqs[k]
    BY <2>2, <2>3, Zenon
  <2>5. CASE k = 1
    BY <1>1, <1>6, <2>1, <2>4, <2>5
  <2>6. CASE k # 1
    <3>1. h[k - 1] = f[k - 1]
      BY <1>9, <2>6
    <3>2. QED
      BY <1>5, <2>1, <2>4, <2>6, <3>1
  <2>7. QED
    BY <2>5, <2>6
<1>10. 0 .. n \subseteq T
  <2> HIDE DEF T, n
  <2>1. QED
    BY <1>1, <1>8, <1>9, UpTo
<1>11. FlattenSeq(seqs) = f[n]
  <2>1. CASE n = 0
    <3>1. FlattenSeq(seqs) = seqs
      BY <2>1 DEF FlattenSeq
    <3>2. seqs = << >>
      BY <2>1, EmptySeq
    <3>3. QED
      BY <1>4, <2>1, <3>1, <3>2
  <2>2. CASE n # 0
    <3>1. FlattenSeq(seqs) = h[n]
      BY <2>2 DEF FlattenSeq, h
    <3>2. n \in T
      <4>1. n \in 0 .. n
        BY <1>1
      <4> HIDE DEF n, T
      <4>2. QED
        BY <1>10, <4>1
    <3>3. QED
      BY <2>2, <3>1, <3>2
  <2>3. QED
    BY <2>1, <2>2
<1>12. f \in [0 .. n -> Seq(Bytes)]
  BY <1>4 DEF D
<1>13. QED
  BY <1>4, <1>5, <1>11, <1>12

\* No bytes, no message.
LEMMA NothingFound == << >> \in Seq(Bytes) /\ Found(<< >>, 0) = << >>
<1> DEFINE e == << >>
<1>1. e \in Seq(Bytes) /\ Len(e) = 0
  BY EmptySeq
<1> HIDE DEF e
<1>2. 0 \in 0 .. Len(e)
  BY <1>1
<1>3. Finds(e, 0) => After(e, 0) \in 0 + 1 .. Len(e)
  BY <1>1, <1>2, AfterIs
<1>4. ~Finds(e, 0)
  BY <1>1, <1>3
<1>5. Found(e, 0) = << >>
  BY <1>1, <1>2, <1>4, FoundIs
<1>6. QED
  BY <1>1, <1>5 DEF e

(* The bytes of a talk stand for the talk.                                 *)
LEMMA TalkIsFound ==
  ASSUME NEW talk \in Talks, NEW w, w = FlattenSeq([k \in DOMAIN talk |-> send_preview(talk[k])])
  PROVE  w \in Seq(Bytes) /\ talk \in Seq(Seq(Bytes)) /\ Found(w, 0) = talk
<1> DEFINE n == Len(talk)
           frames == [k \in DOMAIN talk |-> send_preview(talk[k])]
<1>1. talk \in Seq(Seq(Bytes)) /\ n \in Nat /\ DOMAIN talk = 1 .. n
      /\ \A k \in 1 .. n : talk[k] \in Seq(Bytes)
  BY SizeAssumption, LenProperties, ElementOfSeq
<1>2. \A k \in 1 .. n : Quotients(Len(talk[k]))[Width] = 0
  BY <1>1, FrameAssumption
<1>3. \A k \in 1 .. n : send_preview(talk[k]) \in Seq(Bytes)
  BY <1>1, <1>2, EmptySeq, PutInFront
<1>4. frames \in Seq(Seq(Bytes)) /\ Len(frames) = n
      /\ \A k \in 1 .. n : frames[k] = send_preview(talk[k])
  <2>1. frames = [k \in 1 .. n |-> send_preview(talk[k])]
    BY <1>1
  <2> HIDE DEF n, frames
  <2>2. frames \in [1 .. n -> Seq(Bytes)]
    BY <1>3, <2>1
  <2>3. frames \in Seq(Seq(Bytes)) /\ Len(frames) = n
    BY <1>1, <2>2
  <2>4. QED
    BY <2>1, <2>3
<1>5. PICK f \in [0 .. n -> Seq(Bytes)] :
        /\ f[0] = << >> /\ \A k \in 1 .. n : f[k] = f[k - 1] \o frames[k]
        /\ FlattenSeq(frames) = f[n]
  <2> HIDE DEF frames, n
  <2>1. QED
    BY <1>4, FlattenIs
<1>6. w = f[n]
  BY <1>5
<1> HIDE DEF frames, n
<1> DEFINE T == {k \in 0 .. n : \A r \in Seq(Bytes) :
                                  Found(f[k] \o r, 0) = SubSeq(talk, 1, k) \o Found(r, 0)}
<1>7. 0 \in T
  <2>1. ASSUME NEW r \in Seq(Bytes)
        PROVE  Found(f[0] \o r, 0) = SubSeq(talk, 1, 0) \o Found(r, 0)
    <3>1. f[0] \o r = r
      BY <1>5, ConcatEmptySeq
    <3>2. SubSeq(talk, 1, 0) = << >>
      BY SubSeqEmpty
    <3>3. Found(r, 0) \in Seq(Seq(Bytes))
      BY LenProperties, FoundAreMessages
    <3>4. << >> \o Found(r, 0) = Found(r, 0)
      BY <3>3, ConcatEmptySeq
    <3>5. QED
      BY <3>1, <3>2, <3>4
  <2>2. QED
    BY <1>1, <2>1
<1>8. ASSUME NEW k \in 1 .. n, k - 1 \in T PROVE k \in T
  <2>1. ASSUME NEW r \in Seq(Bytes)
        PROVE  Found(f[k] \o r, 0) = SubSeq(talk, 1, k) \o Found(r, 0)
    <3> DEFINE m == talk[k]
               p == send_preview(m)
               said == SubSeq(talk, 1, k - 1)
               x == <<m>>
               rest == Found(r, 0)
    <3>1. m \in Seq(Bytes) /\ Quotients(Len(m))[Width] = 0 /\ k - 1 \in 0 .. n
      BY <1>1, <1>2
    <3>2. p \in Seq(Bytes) /\ Found(p \o r, 0) = x \o rest
      <4> HIDE DEF m
      <4>1. QED
        BY <3>1, PutInFront
    <3>3. f[k - 1] \in Seq(Bytes) /\ f[k] = f[k - 1] \o p
      BY <1>4, <1>5, <3>1
    <3>4. x \in Seq(Seq(Bytes)) /\ rest \in Seq(Seq(Bytes))
      <4>1. rest \in Seq(Seq(Bytes))
        BY LenProperties, FoundAreMessages
      <4> HIDE DEF m, rest
      <4>2. QED
        BY <3>1, <4>1
    <3>5. said \in Seq(Seq(Bytes)) /\ SubSeq(talk, 1, k) = said \o x
      <4>1. 1 \in 1 .. Len(talk) /\ k \in 1 .. Len(talk)
        BY <1>1 DEF n
      <4>2. SubSeq(talk, 1, k) = said \o x
        BY <1>1, <4>1, SubSeqRecursiveSecond
      <4>3. \A j \in 1 .. k - 1 : talk[j] \in Seq(Bytes)
        BY <1>1
      <4>4. said \in Seq(Seq(Bytes))
        BY <4>3, SubSeqProperties
      <4>5. QED
        BY <4>2, <4>4
    <3> HIDE DEF m, p, said, x, rest
    <3>6. (f[k - 1] \o p) \o r = f[k - 1] \o (p \o r)
      <4> DEFINE c == f[k - 1]
      <4>1. c \in Seq(Bytes)
        BY <3>3
      <4> HIDE DEF c
      <4>2. (c \o p) \o r = c \o (p \o r)
        BY <3>2, <4>1, ConcatAssociative
      <4>3. QED
        BY <4>2 DEF c
    <3>7. p \o r \in Seq(Bytes)
      BY <3>2, ConcatProperties
    <3>8. Found(f[k - 1] \o (p \o r), 0) = said \o Found(p \o r, 0)
      BY <1>8, <3>7 DEF said
    <3>9. (said \o x) \o rest = said \o (x \o rest)
      <4> DEFINE M == Seq(Bytes)
      <4>1. said \in Seq(M) /\ x \in Seq(M) /\ rest \in Seq(M)
        BY <3>4, <3>5
      <4> HIDE DEF M
      <4>2. QED
        BY <4>1, ConcatAssociative
    <3>10. QED
      BY <3>2, <3>3, <3>5, <3>6, <3>8, <3>9 DEF rest
  <2>2. QED
    BY <1>1, <2>1
<1>9. 0 .. n \subseteq T
  <2> HIDE DEF T
  <2>1. QED
    BY <1>1, <1>7, <1>8, UpTo
<1>10. n \in 0 .. n
  BY <1>1
<1>11. Found(f[n] \o << >>, 0) = SubSeq(talk, 1, n) \o Found(<< >>, 0)
  <2> DEFINE e == << >>
  <2>1. e \in Seq(Bytes) /\ n \in T
    BY <1>9, <1>10, EmptySeq
  <2> HIDE DEF e
  <2>2. QED
    BY <2>1 DEF e
<1>12. f[n] \in Seq(Bytes) /\ f[n] \o << >> = f[n]
  BY <1>10, <1>5, ConcatEmptySeq
<1>13. SubSeq(talk, 1, n) \o Found(<< >>, 0) = talk
  <2>1. SubSeq(talk, 1, n) = talk
    BY <1>1, SubSeqFull DEF n
  <2>2. QED
    BY <1>1, <2>1, NothingFound, ConcatEmptySeq
<1>14. QED
  BY <1>1, <1>6, <1>11, <1>12, <1>13

---------------------------------------------------------------------------
(* The connection: what is still to be found is in the buffer and on the   *)
(* wire behind it.                                                         *)
FrameInv == TypeOK /\ DeliveredAsSent

\* spilit_message, of anything: its messages are the ones found from 0 on.
LEMMA SplitIs ==
  ASSUME NEW s \in Seq(Bytes)
  PROVE  /\ spilit_message(s).messages = Found(s, 0)
         /\ Found(s, 0) \in Seq(Seq(Bytes))
  BY LenProperties, FoundAreMessages DEF spilit_message, Found

\* A talk, or any bytes.
LEMMA FrameInitInv == FrameInit => FrameInv
<1> SUFFICES ASSUME FrameInit PROVE FrameInv
  OBVIOUS
<1>1. wire \in Seq(Bytes) /\ meant \in Seq(Seq(Bytes)) /\ Found(wire, 0) = meant
  <2>1. ASSUME NEW talk \in Talks,
               wire = FlattenSeq([k \in DOMAIN talk |-> send_preview(talk[k])]), meant = talk
        PROVE  <1>1!:
    BY <2>1, TalkIsFound
  <2>2. ASSUME NEW n \in 0 .. MaxStream, wire \in [1 .. n -> Bytes],
               meant = spilit_message(wire).messages
        PROVE  <1>1!:
    <3>1. wire \in Seq(Bytes)
      BY <2>2, Sizes
    <3>2. QED
      BY <2>2, <3>1, SplitIs
  <2>3. QED
    BY <2>1, <2>2 DEF FrameInit
<1>2. read_buffer = << >> /\ taken = << >> /\ connected = TRUE
  BY DEF FrameInit
<1>3. /\ read_buffer \in Seq(Bytes) /\ Len(read_buffer) = 0 /\ read_buffer \o wire = wire
      /\ taken \in Seq(Seq(Bytes)) /\ taken \o meant = meant
  <2>1. << >> \in Seq(Bytes) /\ Len(<< >>) = 0 /\ << >> \o wire = wire
    BY <1>1, EmptySeq, ConcatEmptySeq
  <2>2. << >> \in Seq(Seq(Bytes)) /\ << >> \o meant = meant
    BY <1>1, EmptySeq, ConcatEmptySeq
  <2>3. QED
    BY <1>2, <2>1, <2>2
<1>4. TypeOK
  BY <1>1, <1>2, <1>3, Sizes DEF TypeOK
<1>5. DeliveredAsSent
  BY <1>1, <1>3, SplitIs DEF DeliveredAsSent
<1>6. QED
  BY <1>4, <1>5 DEF FrameInv

\* What the invariant says of the present buffer and wire.
LEMMA InvIs ==
  ASSUME FrameInv, connected
  PROVE  /\ wire \in Seq(Bytes) /\ read_buffer \in Seq(Bytes)
         /\ taken \in Seq(Seq(Bytes)) /\ meant \in Seq(Seq(Bytes))
         /\ Len(read_buffer) < Width + MaxFrame + Chunk
         /\ taken \o Found(read_buffer \o wire, 0) = meant
<1>1. wire \in Seq(Bytes) /\ read_buffer \in Seq(Bytes)
      /\ taken \in Seq(Seq(Bytes)) /\ meant \in Seq(Seq(Bytes))
      /\ Len(read_buffer) < Width + MaxFrame + Chunk
  BY DEF FrameInv, TypeOK
<1>2. read_buffer \o wire \in Seq(Bytes)
  BY <1>1, ConcatProperties
<1>3. taken \o spilit_message(read_buffer \o wire).messages = meant
  BY DEF FrameInv, DeliveredAsSent
<1>4. QED
  BY <1>1, <1>2, <1>3, SplitIs

\* And that it holds next, from what the step leaves.
LEMMA InvNext ==
  ASSUME wire' \in Seq(Bytes), read_buffer' \in Seq(Bytes),
         taken' \in Seq(Seq(Bytes)), meant' \in Seq(Seq(Bytes)), connected' \in BOOLEAN,
         Len(read_buffer') < Width + MaxFrame + Chunk,
         connected' => taken' \o Found(read_buffer' \o wire', 0) = meant'
  PROVE  FrameInv'
<1>1. read_buffer' \o wire' \in Seq(Bytes)
  BY ConcatProperties
<1>2. connected' => taken' \o spilit_message(read_buffer' \o wire').messages = meant'
  BY <1>1, SplitIs
<1>3. TypeOK'
  BY DEF TypeOK
<1>4. DeliveredAsSent'
  BY <1>2 DEF DeliveredAsSent
<1>5. QED
  BY <1>3, <1>4 DEF FrameInv

\* More bytes behind what is left of the buffer.
LEMMA ReadsStep == FrameInv /\ Reads => FrameInv'
<1> SUFFICES ASSUME FrameInv, Reads PROVE FrameInv'
  OBVIOUS
<1> DEFINE t == take_one_message(read_buffer)
<1>1. /\ connected /\ t.out = << >>
      /\ \/ wire = << >> /\ connected' = FALSE /\ read_buffer' = t.buffer /\ wire' = wire
         \/ \E n \in 1 .. Chunk :
              /\ n <= Len(wire)
              /\ read_buffer' = t.buffer \o SubSeq(wire, 1, n)
              /\ wire' = From(wire, n)
              /\ connected' = (Len(read_buffer') <= MaxBuffer)
      /\ taken' = taken /\ meant' = meant
  BY DEF Reads
<1>2. /\ wire \in Seq(Bytes) /\ read_buffer \in Seq(Bytes)
      /\ taken \in Seq(Seq(Bytes)) /\ meant \in Seq(Seq(Bytes))
      /\ taken \o Found(read_buffer \o wire, 0) = meant
  BY <1>1, InvIs
<1>3. /\ t.buffer \in Seq(Bytes) /\ Len(t.buffer) < Width + MaxFrame
      /\ Found(t.buffer \o wire, 0) = Found(read_buffer \o wire, 0)
  BY <1>1, <1>2, TakesNothingIs
<1> DEFINE b == t.buffer
<1>4. /\ connected
      /\ \/ wire = << >> /\ connected' = FALSE /\ read_buffer' = b /\ wire' = wire
         \/ \E n \in 1 .. Chunk :
              /\ n <= Len(wire)
              /\ read_buffer' = b \o SubSeq(wire, 1, n)
              /\ wire' = From(wire, n)
              /\ connected' = (Len(read_buffer') <= MaxBuffer)
      /\ b \in Seq(Bytes) /\ Len(b) < Width + MaxFrame /\ Len(b) \in Nat
      /\ taken \o Found(b \o wire, 0) = meant
  BY <1>1, <1>2, <1>3, LenProperties
<1> HIDE DEF t, b
<1>5. CASE wire = << >> /\ connected' = FALSE /\ read_buffer' = b /\ wire' = wire
  <2>1. Len(b) < Width + MaxFrame + Chunk
    BY <1>4, Sizes
  <2>2. QED
    BY <1>1, <1>2, <1>4, <1>5, <2>1, InvNext
<1>6. ASSUME NEW n \in 1 .. Chunk, n <= Len(wire),
             read_buffer' = b \o SubSeq(wire, 1, n), wire' = From(wire, n),
             connected' = (Len(read_buffer') <= MaxBuffer)
      PROVE  FrameInv'
  <2> DEFINE x == SubSeq(wire, 1, n)
             y == From(wire, n)
  <2>1. Len(wire) \in Nat /\ n \in 0 .. Len(wire) /\ 0 \in Nat /\ n \in Nat /\ 0 + n <= Len(wire)
    BY <1>2, <1>6, LenProperties
  <2>2. y \in Seq(Bytes)
    BY <1>2, <2>1, RestOf
  <2>3. x \in Seq(Bytes) /\ Len(x) = n
    <3>1. SubSeq(wire, 0 + 1, 0 + n) \in Seq(Bytes) /\ Len(SubSeq(wire, 0 + 1, 0 + n)) = n
      BY <1>2, <2>1, PartOf
    <3>2. 0 + 1 = 1 /\ 0 + n = n
      BY <2>1
    <3>3. QED
      BY <3>1, <3>2
  <2>4. x \o y = wire
    <3>1. /\ 1 \in 1 .. Len(wire) + 1 /\ n \in 1 - 1 .. Len(wire) /\ Len(wire) \in n .. Len(wire)
      BY <2>1
    <3>2. SubSeq(wire, 1, n) \o SubSeq(wire, n + 1, Len(wire)) = SubSeq(wire, 1, Len(wire))
      BY <1>2, <3>1, ConcatAdjacentSubSeq
    <3>3. SubSeq(wire, 1, Len(wire)) = wire
      BY <1>2, SubSeqFull
    <3>4. QED
      BY <3>2, <3>3 DEF From
  <2>5. read_buffer' = b \o x /\ wire' = y
    BY <1>6
  <2> HIDE DEF x, y
  <2>6. b \o x \in Seq(Bytes) /\ Len(b \o x) = Len(b) + n
    BY <1>4, <2>3, ConcatProperties
  <2>7. (b \o x) \o y = b \o wire
    <3> DEFINE B == Seq(Bytes)
    <3>1. b \in B /\ x \in B /\ y \in B
      BY <1>4, <2>2, <2>3
    <3>2. \A u, v, w \in B : (u \o v) \o w = u \o (v \o w)
      BY ConcatAssociative
    <3> HIDE DEF B
    <3>3. (b \o x) \o y = b \o (x \o y)
      BY <3>1, <3>2, Zenon
    <3>4. QED
      BY <2>4, <3>3
  <2>8. Len(b) + n < Width + MaxFrame + Chunk
    BY <1>4, <2>1, Sizes
  <2>9. Len(read_buffer') < Width + MaxFrame + Chunk /\ connected' \in BOOLEAN
    BY <1>6, <2>5, <2>6, <2>8
  <2>10. read_buffer' \in Seq(Bytes) /\ wire' \in Seq(Bytes)
         /\ taken' \in Seq(Seq(Bytes)) /\ meant' \in Seq(Seq(Bytes))
    BY <1>1, <1>2, <2>2, <2>5, <2>6
  <2>11. taken' \o Found(read_buffer' \o wire', 0) = meant'
    BY <1>1, <1>4, <2>5, <2>7
  <2>12. QED
    BY <2>9, <2>10, <2>11, InvNext
<1>7. QED
  BY <1>4, <1>5, <1>6

\* The first message is taken, or put back, or lost with the connection.
LEMMA MessageStep == FrameInv /\ (Takes \/ PutsBack \/ Refused) => FrameInv'
<1> SUFFICES ASSUME FrameInv, Takes \/ PutsBack \/ Refused PROVE FrameInv'
  OBVIOUS
<1> DEFINE t == take_one_message(read_buffer)
<1>1. connected /\ t.out # << >> /\ wire' = wire /\ meant' = meant
  BY DEF Takes, PutsBack, Refused
<1>2. /\ wire \in Seq(Bytes) /\ read_buffer \in Seq(Bytes)
      /\ taken \in Seq(Seq(Bytes)) /\ meant \in Seq(Seq(Bytes))
      /\ Len(read_buffer) < Width + MaxFrame + Chunk
      /\ taken \o Found(read_buffer \o wire, 0) = meant
  BY <1>1, InvIs
<1> DEFINE b == t.buffer
<1>3. PICK m \in Seq(Bytes) :
        /\ t.out = <<m>> /\ Quotients(Len(m))[Width] = 0
        /\ b \in Seq(Bytes)
        /\ Len(read_buffer) = Len(b) + Width + Len(m) + ScanFrom(read_buffer, 0)
        /\ Found(read_buffer \o wire, 0) = <<m>> \o Found(b \o wire, 0)
  <2> HIDE DEF b
  <2>1. QED
    BY <1>1, <1>2, TakesFirst DEF b
<1>4. \/ taken' = taken \o t.out /\ read_buffer' = b /\ connected' = connected
      \/ read_buffer' = send_preview(Head(t.out)) \o b /\ taken' = taken /\ connected' = connected
      \/ read_buffer' = b /\ connected' = FALSE /\ taken' = taken
  BY DEF Takes, PutsBack, Refused
<1> DEFINE out == t.out
           rest == Found(b \o wire, 0)
           x == <<m>>
<1>5. ScanFrom(read_buffer, 0) \in Nat
  <2>1. 0 \in 0 .. Len(read_buffer) /\ Len(read_buffer) \in Nat
    BY <1>2, LenProperties
  <2>2. ScanFrom(read_buffer, 0) \in 0 .. Len(read_buffer)
    BY <1>2, <2>1, ScanIs
  <2>3. QED
    BY <2>1, <2>2
<1>6. Len(b) \in Nat /\ Len(m) \in Nat /\ Len(wire) \in Nat
  BY <1>2, <1>3, LenProperties
<1>7. Len(b) + Width + Len(m) <= Len(read_buffer) /\ Len(b) < Width + MaxFrame + Chunk
      /\ Width + Len(m) + Len(b) < Width + MaxFrame + Chunk
  <2> DEFINE lb == Len(b)
             lm == Len(m)
             lr == Len(read_buffer)
             p == ScanFrom(read_buffer, 0)
  <2>1. lb \in Nat /\ lm \in Nat /\ p \in Nat /\ lr = lb + Width + lm + p
        /\ lr < Width + MaxFrame + Chunk
    BY <1>2, <1>3, <1>5, <1>6
  <2> HIDE DEF lb, lm, lr, p
  <2>2. lb + Width + lm <= lr /\ lb < Width + MaxFrame + Chunk
        /\ Width + lm + lb < Width + MaxFrame + Chunk
    BY <2>1, Sizes
  <2>3. QED
    BY <2>2 DEF lb, lm, lr
<1>8. x \in Seq(Seq(Bytes)) /\ Head(x) = m
  BY <1>3
<1>9. rest \in Seq(Seq(Bytes))
  <2>1. b \o wire \in Seq(Bytes)
    BY <1>2, <1>3, ConcatProperties
  <2>2. QED
    BY <2>1, SplitIs
<1>10. out = x /\ taken \o (x \o rest) = meant
  BY <1>2, <1>3
<1>11. b \in Seq(Bytes)
  BY <1>3
<1>12. \/ taken' = taken \o x /\ read_buffer' = b /\ connected' = connected
       \/ read_buffer' = send_preview(m) \o b /\ taken' = taken /\ connected' = connected
       \/ read_buffer' = b /\ connected' = FALSE /\ taken' = taken
  <2>1. Head(out) = m
    BY <1>8, <1>10
  <2>2. QED
    BY <1>4, <1>10, <2>1
<1> HIDE DEF t, out, b, x
<1>13. CASE taken' = taken \o x /\ read_buffer' = b /\ connected' = connected
  <2> DEFINE M == Seq(Bytes)
  <2>1. taken \in Seq(M) /\ x \in Seq(M) /\ rest \in Seq(M)
    BY <1>2, <1>8, <1>9
  <2> HIDE DEF M, rest
  <2>2. taken \o x \in Seq(M) /\ (taken \o x) \o rest = taken \o (x \o rest)
    BY <2>1, ConcatProperties, ConcatAssociative
  <2>3. taken' \in Seq(Seq(Bytes)) /\ taken' \o rest = meant
    BY <1>10, <1>13, <2>2 DEF M
  <2>4. taken' \o Found(read_buffer' \o wire', 0) = meant'
    BY <1>1, <1>13, <2>3 DEF rest
  <2>5. QED
    BY <1>1, <1>2, <1>7, <1>11, <1>13, <2>3, <2>4, InvNext
<1>14. CASE read_buffer' = send_preview(m) \o b /\ taken' = taken /\ connected' = connected
  <2> DEFINE f == send_preview(m)
  <2>1. b \o wire \in Seq(Bytes)
    BY <1>2, <1>11, ConcatProperties
  <2>2. f \in Seq(Bytes) /\ Len(f) = Width + Len(m)
        /\ Found(f \o (b \o wire), 0) = x \o rest
    BY <1>3, <2>1, PutInFront DEF x
  <2>3. read_buffer' = f \o b
    BY <1>14
  <2> HIDE DEF f, rest
  <2>4. f \o b \in Seq(Bytes) /\ Len(f \o b) = Len(f) + Len(b)
        /\ (f \o b) \o wire = f \o (b \o wire)
    <3> DEFINE B == Seq(Bytes)
    <3>1. f \in B /\ b \in B /\ wire \in B
      BY <1>2, <1>11, <2>2
    <3>2. f \o b \in B /\ Len(f \o b) = Len(f) + Len(b)
      BY <3>1, ConcatProperties
    <3>3. \A u, v, w \in B : (u \o v) \o w = u \o (v \o w)
      BY ConcatAssociative
    <3> HIDE DEF B
    <3>4. (f \o b) \o wire = f \o (b \o wire)
      BY <3>1, <3>3, Zenon
    <3>5. QED
      BY <3>2, <3>4 DEF B
  <2>5. read_buffer' \in Seq(Bytes) /\ Len(read_buffer') < Width + MaxFrame + Chunk
    BY <1>7, <2>2, <2>3, <2>4
  <2>6. taken' \o Found(read_buffer' \o wire', 0) = meant'
    BY <1>1, <1>10, <1>14, <2>2, <2>3, <2>4
  <2>7. QED
    BY <1>1, <1>2, <1>14, <2>5, <2>6, InvNext
<1>15. CASE read_buffer' = b /\ connected' = FALSE /\ taken' = taken
  BY <1>1, <1>2, <1>7, <1>11, <1>15, InvNext
<1>16. QED
  BY <1>12, <1>13, <1>14, <1>15

\* Any step, or none.
LEMMA FrameStep == FrameInv /\ [FrameNext]_frameVars => FrameInv'
<1>1. FrameInv /\ UNCHANGED frameVars => FrameInv'
  BY DEF FrameInv, TypeOK, DeliveredAsSent, frameVars
<1>2. QED
  BY <1>1, ReadsStep, MessageStep DEF FrameNext

\* So it always holds.
LEMMA FrameHolds == FrameSpec => []FrameInv
  BY FrameInitInv, FrameStep, PTL DEF FrameSpec

(* handle_read's buffer never comes near the limit at which the connection *)
(* is closed: less than one frame and one read() is ever in it.            *)
THEOREM BufferIsBounded == FrameSpec => []TypeOK
<1>1. FrameInv => TypeOK
  BY DEF FrameInv
<1>2. QED
  BY <1>1, FrameHolds, PTL

(* Whatever the pieces in which the bytes are read, and however often a    *)
(* message is put back: the messages taken, and those still to be taken,   *)
(* are the ones the client sent, in its order.                             *)
THEOREM MessagesArriveAsSent == FrameSpec => []DeliveredAsSent
<1>1. FrameInv => DeliveredAsSent
  BY DEF FrameInv
<1>2. QED
  BY <1>1, FrameHolds, PTL
=============================================================================
