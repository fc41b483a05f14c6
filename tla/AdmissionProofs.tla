-------------------------- MODULE AdmissionProofs --------------------------
(***************************************************************************)
(* For any messages, Reactors, divide workers and limits: the types, that  *)
(* the drain thread is never left asleep, and that no message and no       *)
(* credit is lost or doubled.                                              *)
(***************************************************************************)
EXTENDS Admission, FiniteSetTheorems, SequenceTheorems, TLAPS

(* The type invariant by the part of the system the variables belong to.   *)
ReactorTypes ==
  /\ buffered \in SUBSET Msgs
  /\ pc \in [Reactors -> {"idle", "park", "note", "count", "push", "full", "closed",
                          "give back", "give up", "exited"}]
  /\ msg \in [Reactors -> Msgs \union {None}]
  /\ \A r \in Reactors : msg[r] = None <=> pc[r] \in {"idle", "note", "exited"}
GateTypes == available \in 0 .. CreditLimit /\ closed \in BOOLEAN /\ noting \in BOOLEAN
DrainTypes ==
  /\ waiting \in Seq(Msgs) /\ stopped \in BOOLEAN
  /\ drain \in {"wait", "no task", "acquire", "no credit", "count", "push", "closed", "give up",
                "resume", "exited"}
  /\ parked \in Msgs \union {None}
  /\ parked = None <=> drain \in {"wait", "no task", "resume", "exited"}
DivideTypes ==
  /\ divideq \in Seq(Msgs) /\ Len(divideq) <= High /\ divide_closed \in BOOLEAN
  /\ unfinished \in Int
  /\ at \in [Workers -> {"idle", "parse", "finish", "exited"}]
  /\ hand \in [Workers -> Msgs \union {None}]
  /\ \A t \in Workers : hand[t] = None <=> at[t] # "parse"
RestTypes ==
  /\ work \in SUBSET Msgs /\ work_closed \in BOOLEAN
  /\ fate \in [Msgs -> {"open", "refused", "dropped", "lost", "thrown", "ended"}]
  /\ reading \in BOOLEAN /\ stage \in Stages /\ napping \in BOOLEAN /\ gave_up \in BOOLEAN

LEMMA Parts ==
  /\ TypeOK <=> ReactorTypes /\ GateTypes /\ DrainTypes /\ DivideTypes /\ RestTypes
  /\ TypeOK' <=> (ReactorTypes /\ GateTypes /\ DrainTypes /\ DivideTypes /\ RestTypes)'
  BY DEF TypeOK, ReactorTypes, GateTypes, DrainTypes, DivideTypes, RestTypes

---------------------------------------------------------------------------
(* What each kind of step leaves alone keeps its type.                     *)
LEMMA ReactorKept == ReactorTypes /\ UNCHANGED readVars => ReactorTypes'
  BY DEF ReactorTypes, readVars
LEMMA GateKept == GateTypes /\ UNCHANGED gateVars => GateTypes'
  BY DEF GateTypes, gateVars
LEMMA DivideKept == DivideTypes /\ UNCHANGED divideVars => DivideTypes'
  BY DEF DivideTypes, divideVars
LEMMA DrainKept == DrainTypes /\ UNCHANGED parkVars => DrainTypes'
  BY DEF DrainTypes, parkVars
LEMMA RestKept == RestTypes /\ UNCHANGED <<workVars, stopVars>> => RestTypes'
  BY DEF RestTypes, workVars, stopVars

(* Giving a credit back stays within the limit.                            *)
LEMMA ReleaseTypes ==
  ASSUME GateTypes, NEW m, Release(m), closed' = closed
  PROVE  GateTypes'
<1>1. available \in 0 .. CreditLimit /\ CreditLimit \in Nat
  BY AdmissionAssumption DEF GateTypes
<1>2. available' \in 0 .. CreditLimit
  <2>1. CASE m \in DB /\ ~closed /\ available < CreditLimit
    BY <1>1, <2>1 DEF Release
  <2>2. CASE ~(m \in DB /\ ~closed /\ available < CreditLimit)
    BY <1>1, <2>2 DEF Release
  <2>3. QED
    BY <2>1, <2>2
<1>3. noting' \in BOOLEAN
  BY DEF GateTypes, Release
<1>4. QED
  BY <1>2, <1>3 DEF GateTypes

(* A notification moves the drain thread between steps with the same       *)
(* message in hand.                                                        *)
LEMMA NotifiedTypes ==
  ASSUME DrainTypes, NEW cv \in {"no credit", "no task"}, Notified(cv),
         UNCHANGED <<waiting, stopped, parked>>
  PROVE  DrainTypes'
  BY AdmissionAssumption DEF DrainTypes, Notified

(* A Reactor moves on with its message, takes one or lets go of it.        *)
Carrying == {"park", "count", "push", "full", "closed", "give back", "give up"}

LEMMA MovesOn ==
  ASSUME ReactorTypes, NEW r \in Reactors, NEW from, NEW to,
         Goto(r, from, to), UNCHANGED <<buffered, msg>>,
         \/ from \in Carrying /\ to \in Carrying
         \/ from \in {"idle", "note"} /\ to \in {"idle", "exited"}
  PROVE  ReactorTypes'
  BY DEF ReactorTypes, Goto, Carrying

LEMMA LetsGo ==
  ASSUME ReactorTypes, NEW r \in Reactors, NEW from, NEW to,
         Goto(r, from, to), to \in {"idle", "note"},
         msg' = [msg EXCEPT ![r] = None], buffered' \in SUBSET Msgs
  PROVE  ReactorTypes'
  BY DEF ReactorTypes, Goto

---------------------------------------------------------------------------
LEMMA ReactorStepTypes ==
  ASSUME TypeOK, NEW r \in Reactors, ReactorStep(r)
  PROVE  TypeOK'
<1> ReactorTypes /\ GateTypes /\ DrainTypes /\ DivideTypes /\ RestTypes
  BY Parts
<1>1. CASE AddWaitingTask(r)
  <2>1. pc[r] = "park" /\ msg[r] \in Msgs
    BY <1>1, AdmissionAssumption DEF AddWaitingTask, Goto, ReactorTypes
  <2>2. Append(waiting, msg[r]) \in Seq(Msgs)
    BY <2>1, AppendProperties DEF DrainTypes
  <2>6. buffered' \in SUBSET Msgs /\ waiting' \in Seq(Msgs)
    BY <1>1, <2>1, <2>2 DEF AddWaitingTask, ReactorTypes, DrainTypes
  <2>3. ReactorTypes'
    BY <1>1, <2>6, LetsGo DEF AddWaitingTask
  <2>4. DrainTypes'
    BY <1>1, <2>6 DEF AddWaitingTask, DrainTypes
  <2>5. QED
    BY Parts, <1>1, <2>3, <2>4, GateKept, DivideKept, RestKept DEF AddWaitingTask
<1>2. CASE WaitingNote(r)
  <2>1. ReactorTypes'
    BY <1>2, MovesOn DEF WaitingNote
  <2>2. DrainTypes'
    BY <1>2, NotifiedTypes DEF WaitingNote
  <2>3. QED
    BY Parts, <1>2, <2>1, <2>2, GateKept, DivideKept, RestKept DEF WaitingNote
<1>3. CASE CountUp(r)
  <2>1. ReactorTypes'
    BY <1>3, MovesOn DEF CountUp, Carrying
  <2>2. DivideTypes'
    BY <1>3 DEF CountUp, DivideTypes
  <2>3. QED
    BY Parts, <1>3, <2>1, <2>2, GateKept, DrainKept, RestKept DEF CountUp
<1>4. CASE TryPush(r)
  <2>1. CASE /\ ~divide_closed /\ Len(divideq) < High /\ Goto(r, "push", "idle")
             /\ divideq' = Append(divideq, msg[r]) /\ msg' = [msg EXCEPT ![r] = None]
    <3>1. msg[r] \in Msgs
      BY <2>1, AdmissionAssumption DEF Goto, ReactorTypes
    <3>2. divideq' \in Seq(Msgs) /\ Len(divideq') = Len(divideq) + 1
      BY <2>1, <3>1, AppendProperties DEF DivideTypes
    <3>3. DivideTypes'
      BY <1>4, <2>1, <3>2, LenProperties, AdmissionAssumption DEF TryPush, DivideTypes
    <3>4. ReactorTypes'
      BY <1>4, <2>1, LetsGo DEF TryPush, ReactorTypes
    <3>5. QED
      BY Parts, <1>4, <3>3, <3>4, GateKept, DrainKept, RestKept DEF TryPush
  <2>2. CASE /\ Goto(r, "push", IF divide_closed THEN "closed" ELSE "full")
             /\ UNCHANGED <<divideq, msg>>
    <3> DEFINE to == IF divide_closed THEN "closed" ELSE "full"
    <3>1. ReactorTypes'
      <4>1. to \in Carrying /\ "push" \in Carrying
        BY DEF Carrying
      <4>2. Goto(r, "push", to) /\ UNCHANGED <<buffered, msg>>
        BY <1>4, <2>2 DEF TryPush
      <4> HIDE DEF to
      <4>3. QED
        BY <4>1, <4>2, MovesOn
    <3>2. DivideTypes'
      BY <1>4, <2>2 DEF TryPush, DivideTypes
    <3>3. QED
      BY Parts, <1>4, <3>1, <3>2, GateKept, DrainKept, RestKept DEF TryPush
  <2>3. QED
    BY <1>4, <2>1, <2>2 DEF TryPush
<1>5. CASE CountDown(r)
  <2>1. Goto(r, "full", "give back") => ReactorTypes'
    BY <1>5, MovesOn DEF CountDown, Carrying
  <2>2. Goto(r, "closed", "give up") => ReactorTypes'
    BY <1>5, MovesOn DEF CountDown, Carrying
  <2>3. unfinished' = unfinished - 1 /\ UNCHANGED <<divideq, divide_closed, at, hand>>
    BY <1>5 DEF CountDown
  <2>4. DivideTypes'
    BY <2>3 DEF DivideTypes
  <2>5. ReactorTypes'
    BY <1>5, <2>1, <2>2 DEF CountDown
  <2>6. QED
    BY Parts, <1>5, <2>4, <2>5, GateKept, DrainKept, RestKept DEF CountDown
<1>6. CASE GiveBack(r)
  <2>1. pc[r] \in {"give back", "give up"} /\ msg[r] \in Msgs
    BY <1>6, AdmissionAssumption DEF GiveBack, Goto, ReactorTypes
  <2>2. buffered' \in SUBSET Msgs
    BY <1>6, <2>1 DEF GiveBack, ReactorTypes
  <2>3. ReactorTypes'
    BY <1>6, <2>2, LetsGo DEF GiveBack
  <2>4. GateTypes'
    BY <1>6, ReleaseTypes DEF GiveBack
  <2>5. RestTypes'
    BY <1>6 DEF GiveBack, RestTypes, Ends, stopVars
  <2>6. QED
    BY Parts, <1>6, <2>3, <2>4, <2>5, DrainKept, DivideKept DEF GiveBack
<1>7. CASE ReactorExits(r)
  <2>1. ReactorTypes'
    BY <1>7, MovesOn DEF ReactorExits
  <2>2. QED
    BY Parts, <1>7, <2>1, GateKept, DrainKept, DivideKept, RestKept DEF ReactorExits
<1>8. QED
  BY <1>1, <1>2, <1>3, <1>4, <1>5, <1>6, <1>7 DEF ReactorStep

LEMMA OnMessageTypes ==
  ASSUME TypeOK, NEW r \in Reactors, OnMessage(r)
  PROVE  TypeOK'
<1> ReactorTypes /\ GateTypes /\ DrainTypes /\ DivideTypes /\ RestTypes
  BY Parts
<1>1. PICK m \in Msgs, to \in {"count", "park"} : Offer(r, m, to)
  BY DEF OnMessage, OnMessageFast, TryAcquire, TryAcquireFails
<1>2. ReactorTypes'
  BY <1>1, AdmissionAssumption DEF Offer, Goto, ReactorTypes
<1>3. \/ available' = available
      \/ available > 0 /\ available' = available - 1
  BY DEF OnMessage, OnMessageFast, TryAcquire, TryAcquireFails
<1>4. GateTypes'
  BY <1>1, <1>3, AdmissionAssumption DEF Offer, GateTypes
<1>5. QED
  BY Parts, <1>1, <1>2, <1>4, DrainKept, DivideKept, RestKept DEF Offer

LEMMA DrainStepTypes ==
  ASSUME TypeOK, Drain
  PROVE  TypeOK'
<1> ReactorTypes /\ GateTypes /\ DrainTypes /\ DivideTypes /\ RestTypes
  BY Parts
<1>1. CASE DrainTakes
  <2>1. CASE waiting # << >> /\ DrainStep("wait", "acquire")
             /\ parked' = Head(waiting) /\ waiting' = Tail(waiting)
    <3>1. Head(waiting) \in Msgs /\ Tail(waiting) \in Seq(Msgs)
      BY <2>1, HeadTailProperties DEF DrainTypes
    <3>2. DrainTypes'
      BY <1>1, <2>1, <3>1, AdmissionAssumption DEF DrainTakes, DrainStep, DrainTypes
    <3>3. QED
      BY Parts, <1>1, <3>2, ReactorKept, GateKept, DivideKept, RestKept DEF DrainTakes
  <2>2. CASE UNCHANGED <<waiting, parked>>
             /\ (DrainStep("wait", "exited") \/ DrainStep("wait", "no task"))
    <3>1. DrainTypes'
      BY <1>1, <2>2 DEF DrainTakes, DrainStep, DrainTypes
    <3>2. QED
      BY Parts, <1>1, <3>1, ReactorKept, GateKept, DivideKept, RestKept DEF DrainTakes
  <2>3. QED
    BY <1>1, <2>1, <2>2 DEF DrainTakes
<1>2. CASE DrainAcquires
  <2>1. drain = "acquire" /\ parked \in Msgs
    BY <1>2 DEF DrainAcquires, DrainStep, DrainTypes
  <2>2. <<parked>> \o waiting \in Seq(Msgs)
    <3>1. <<parked>> \in Seq(Msgs) /\ waiting \in Seq(Msgs)
      BY <2>1 DEF DrainTypes
    <3>2. QED
      BY <3>1, ConcatProperties
  <2>3. DrainTypes'
    BY <1>2, <2>1, <2>2 DEF DrainAcquires, DrainStep, DrainTypes
  <2>4. GateTypes'
    <3>1. \/ UNCHANGED gateVars
          \/ available > 0 /\ available' = available - 1
      BY <1>2 DEF DrainAcquires, gateVars
    <3>2. closed' = closed /\ noting' = noting
      BY <1>2 DEF DrainAcquires
    <3>3. CASE available > 0 /\ available' = available - 1
      BY <3>2, <3>3, AdmissionAssumption DEF GateTypes
    <3>4. QED
      BY Parts, <3>1, <3>3, GateKept
  <2>5. QED
    BY Parts, <1>2, <2>3, <2>4, ReactorKept, DivideKept, RestKept DEF DrainAcquires
<1>3. CASE DrainCounts
  <2>1. DrainTypes'
    BY <1>3 DEF DrainCounts, DrainStep, DrainTypes
  <2>2. DivideTypes'
    BY <1>3 DEF DrainCounts, DivideTypes
  <2>3. QED
    BY Parts, <1>3, <2>1, <2>2, ReactorKept, GateKept, RestKept DEF DrainCounts
<1>4. CASE DrainPushes
  <2>1. drain = "push" /\ parked \in Msgs
    BY <1>4 DEF DrainPushes, DrainStep, DrainTypes
  <2>2. Append(divideq, parked) \in Seq(Msgs) /\ Len(Append(divideq, parked)) = Len(divideq) + 1
    BY <2>1, AppendProperties DEF DivideTypes
  <2>3. divideq' \in Seq(Msgs) /\ Len(divideq') <= High
    BY <1>4, <2>2, LenProperties, AdmissionAssumption DEF DrainPushes, DivideTypes
  <2>4. DivideTypes'
    BY <1>4, <2>3 DEF DrainPushes, DivideTypes
  <2>5. DrainTypes'
    BY <1>4, <2>1 DEF DrainPushes, DrainStep, DrainTypes
  <2>6. QED
    BY Parts, <1>4, <2>4, <2>5, ReactorKept, GateKept, RestKept DEF DrainPushes
<1>5. CASE DrainUncounts
  <2>1. DrainTypes'
    BY <1>5 DEF DrainUncounts, DrainStep, DrainTypes
  <2>2. unfinished' = unfinished - 1 /\ UNCHANGED <<divideq, divide_closed, at, hand>>
    BY <1>5 DEF DrainUncounts
  <2>3. DivideTypes'
    BY <2>2 DEF DivideTypes
  <2>4. QED
    BY Parts, <1>5, <2>1, <2>3, ReactorKept, GateKept, RestKept DEF DrainUncounts
<1>6. CASE DrainGivesUp
  <2>1. DrainTypes'
    BY <1>6 DEF DrainGivesUp, DrainStep, DrainTypes
  <2>2. GateTypes'
    BY <1>6, ReleaseTypes DEF DrainGivesUp
  <2>3. RestTypes'
    BY <1>6 DEF DrainGivesUp, RestTypes, Ends, stopVars
  <2>4. QED
    BY Parts, <1>6, <2>1, <2>2, <2>3, ReactorKept, DivideKept DEF DrainGivesUp
<1>7. CASE DrainResumes
  <2>1. DrainTypes'
    BY <1>7 DEF DrainResumes, DrainStep, DrainTypes
  <2>2. QED
    BY Parts, <1>7, <2>1, ReactorKept, GateKept, DivideKept, RestKept DEF DrainResumes
<1>8. QED
  BY <1>1, <1>2, <1>3, <1>4, <1>5, <1>6, <1>7 DEF Drain

LEMMA DivideStepTypes ==
  ASSUME TypeOK, NEW t \in Workers, Divide(t)
  PROVE  TypeOK'
<1> ReactorTypes /\ GateTypes /\ DrainTypes /\ DivideTypes /\ RestTypes
  BY Parts
<1>1. CASE DividePop(t)
  <2>1. Head(divideq) \in Msgs /\ Tail(divideq) \in Seq(Msgs)
        /\ Len(Tail(divideq)) = Len(divideq) - 1
    BY <1>1, HeadTailProperties DEF DividePop, DivideTypes
  <2>2. Len(divideq') <= High
    BY <1>1, <2>1, LenProperties, AdmissionAssumption DEF DividePop, DivideTypes
  <2>3. DivideTypes'
    BY <1>1, <2>1, <2>2, AdmissionAssumption DEF DividePop, Step, DivideTypes
  <2>4. QED
    BY Parts, <1>1, <2>3, ReactorKept, GateKept, DrainKept, RestKept DEF DividePop
<1>2. CASE DivideExits(t)
  <2>1. DivideTypes'
    BY <1>2 DEF DivideExits, Step, DivideTypes
  <2>2. QED
    BY Parts, <1>2, <2>1, ReactorKept, GateKept, DrainKept, RestKept DEF DivideExits
<1>3. CASE OnWork(t)
  <2>1. hand[t] \in Msgs
    BY <1>3 DEF OnWork, Step, DivideTypes
  <2>2. DivideTypes'
    BY <1>3 DEF OnWork, Step, DivideTypes
  <2>3. RestTypes'
    BY <1>3, <2>1 DEF OnWork, Ends, RestTypes, stopVars
  <2>4. QED
    BY Parts, <1>3, <2>2, <2>3, ReactorKept, GateKept, DrainKept DEF OnWork
<1>4. CASE DivideThrows(t)
  <2>1. DivideTypes'
    BY <1>4 DEF DivideThrows, Step, DivideTypes
  <2>2. RestTypes'
    BY <1>4 DEF DivideThrows, Ends, RestTypes, stopVars
  <2>3. QED
    BY Parts, <1>4, <2>1, <2>2, ReactorKept, GateKept, DrainKept DEF DivideThrows
<1>5. CASE FinishTask(t)
  <2>1. /\ unfinished' = IF unfinished > 0 THEN unfinished - 1 ELSE unfinished
        /\ Step(t, "finish", "idle") /\ UNCHANGED <<divideq, divide_closed, hand>>
    BY <1>5 DEF FinishTask
  <2>2. unfinished' \in Int
    BY <2>1 DEF DivideTypes
  <2>3. DivideTypes'
    BY <2>1, <2>2 DEF Step, DivideTypes
  <2>4. RestTypes'
    BY <1>5 DEF FinishTask, RestTypes, workVars
  <2>5. QED
    BY Parts, <1>5, <2>3, <2>4, ReactorKept, GateKept, DrainKept DEF FinishTask
<1>6. QED
  BY <1>1, <1>2, <1>3, <1>4, <1>5 DEF Divide

LEMMA StopTypes ==
  ASSUME TypeOK, CloseDivide \/ Stopping
  PROVE  TypeOK'
<1> ReactorTypes /\ GateTypes /\ DrainTypes /\ DivideTypes /\ RestTypes
  BY Parts
<1>1. CASE CloseDivide
  <2>1. DivideTypes'
    BY <1>1 DEF CloseDivide, DivideTypes
  <2>2. RestTypes'
    BY <1>1 DEF CloseDivide, Stage, RestTypes, Stages, workVars
  <2>3. QED
    BY Parts, <1>1, <2>1, <2>2, ReactorKept, GateKept, DrainKept DEF CloseDivide
<1>2. CASE WaitIdle
  <2>1. RestTypes'
    BY <1>2 DEF WaitIdle, RestTypes, Stages, workVars
  <2>2. QED
    BY Parts, <1>2, <2>1, ReactorKept, GateKept, DrainKept, DivideKept DEF WaitIdle
<1>3. CASE CloseWork \/ StopReading \/ ReactorsJoined \/ DrainJoined
  <2>1. RestTypes'
    BY <1>3 DEF CloseWork, StopReading, ReactorsJoined, DrainJoined, Stage, RestTypes, Stages,
                workVars
  <2>2. UNCHANGED <<readVars, gateVars, parkVars, divideVars>>
    BY <1>3 DEF CloseWork, StopReading, ReactorsJoined, DrainJoined
  <2>3. QED
    BY Parts, <2>1, <2>2, ReactorKept, GateKept, DrainKept, DivideKept
<1>4. CASE CloseGate
  <2>1. GateTypes'
    BY <1>4 DEF CloseGate, GateTypes
  <2>2. RestTypes'
    BY <1>4 DEF CloseGate, Stage, RestTypes, Stages, workVars
  <2>3. QED
    BY Parts, <1>4, <2>1, <2>2, ReactorKept, DrainKept, DivideKept DEF CloseGate
<1>5. CASE GateNoteAll \/ WaitingNoteAll
  <2>1. DrainTypes'
    BY <1>5, NotifiedTypes DEF GateNoteAll, WaitingNoteAll
  <2>2. RestTypes'
    BY <1>5 DEF GateNoteAll, WaitingNoteAll, Stage, RestTypes, Stages, workVars
  <2>3. UNCHANGED <<readVars, gateVars, divideVars>>
    BY <1>5 DEF GateNoteAll, WaitingNoteAll
  <2>4. QED
    BY Parts, <2>1, <2>2, <2>3, ReactorKept, GateKept, DivideKept
<1>6. CASE StopWaiting
  <2>1. DrainTypes'
    BY <1>6 DEF StopWaiting, DrainTypes
  <2>2. RestTypes'
    BY <1>6 DEF StopWaiting, Stage, RestTypes, Stages, workVars
  <2>3. QED
    BY Parts, <1>6, <2>1, <2>2, ReactorKept, GateKept, DivideKept DEF StopWaiting
<1>7. QED
  BY <1>1, <1>2, <1>3, <1>4, <1>5, <1>6 DEF Stopping

LEMMA OtherTypes ==
  ASSUME TypeOK, GateNote \/ Spurious \/ \E m \in Msgs : WorkEnds(m)
  PROVE  TypeOK'
<1> ReactorTypes /\ GateTypes /\ DrainTypes /\ DivideTypes /\ RestTypes
  BY Parts
<1>1. CASE GateNote
  <2>1. GateTypes' /\ DrainTypes'
    BY <1>1, NotifiedTypes DEF GateNote, GateTypes
  <2>2. QED
    BY Parts, <1>1, <2>1, ReactorKept, DivideKept, RestKept DEF GateNote
<1>2. CASE Spurious
  <2>1. DrainTypes'
    BY <1>2, NotifiedTypes DEF Spurious
  <2>2. QED
    BY Parts, <1>2, <2>1, ReactorKept, GateKept, DivideKept, RestKept DEF Spurious
<1>3. ASSUME NEW m \in Msgs, WorkEnds(m)
      PROVE  TypeOK'
  <2>1. GateTypes'
    BY <1>3, ReleaseTypes DEF WorkEnds
  <2>2. RestTypes'
    BY <1>3 DEF WorkEnds, Ends, RestTypes, stopVars
  <2>3. QED
    BY Parts, <1>3, <2>1, <2>2, ReactorKept, DrainKept, DivideKept DEF WorkEnds
<1>4. QED
  BY <1>1, <1>2, <1>3

(* The variables of admission keep their types whatever the messages, the  *)
(* threads and the limits, and whoever stops what when.                    *)
THEOREM TypeCorrect == Spec => []TypeOK
<1>1. Init => TypeOK
  <2> SUFFICES ASSUME Init PROVE TypeOK
    OBVIOUS
  <2>1. ReactorTypes
    BY DEF Init, ReactorTypes
  <2>6. GateTypes
    <3>1. available = CreditLimit /\ closed = FALSE /\ noting = FALSE
      BY DEF Init
    <3>2. CreditLimit \in Nat
      BY AdmissionAssumption
    <3>3. available \in 0 .. CreditLimit
      BY <3>1, <3>2
    <3>4. closed \in BOOLEAN /\ noting \in BOOLEAN
      BY <3>1
    <3>5. QED
      BY <3>3, <3>4 DEF GateTypes
  <2>2. << >> \in Seq(Msgs) /\ Len(<< >>) = 0
    BY EmptySeq
  <2>3. DrainTypes
    BY <2>2 DEF Init, DrainTypes
  <2>7. DivideTypes
    <3>1. /\ divideq = << >> /\ divide_closed = FALSE /\ unfinished = 0
          /\ at = [t \in Workers |-> "idle"] /\ hand = [t \in Workers |-> None]
      BY DEF Init
    <3>2. High \in Nat
      BY AdmissionAssumption
    <3>3. divideq \in Seq(Msgs) /\ Len(divideq) <= High /\ unfinished \in Int
      BY <2>2, <3>1, <3>2
    <3>4. /\ at \in [Workers -> {"idle", "parse", "finish", "exited"}]
          /\ hand \in [Workers -> Msgs \union {None}]
          /\ \A t \in Workers : hand[t] = None <=> at[t] # "parse"
      BY <3>1
    <3>5. divide_closed \in BOOLEAN
      BY <3>1
    <3>6. QED
      BY <3>3, <3>4, <3>5 DEF DivideTypes
  <2>4. RestTypes
    BY DEF Init, RestTypes, Stages
  <2>5. QED
    BY <2>1, <2>3, <2>4, <2>6, <2>7, Parts
<1>2. TypeOK /\ [Next]_vars => TypeOK'
  <2> SUFFICES ASSUME TypeOK, [Next]_vars PROVE TypeOK'
    OBVIOUS
  <2>1. CASE UNCHANGED vars
    BY <2>1, Parts, ReactorKept, GateKept, DrainKept, DivideKept, RestKept DEF vars
  <2>2. CASE Next
    BY <2>2, OnMessageTypes, ReactorStepTypes, DrainStepTypes, DivideStepTypes, StopTypes,
       OtherTypes DEF Next
  <2>3. QED
    BY <2>1, <2>2
<1>3. QED
  BY <1>1, <1>2, PTL DEF Spec

---------------------------------------------------------------------------
(* DrainIsTold, as two invariants: one for each of the condition variables *)
(* the drain thread may sleep on.                                          *)
ToldOfTasks ==
  drain = "no task" =>
    \/ waiting = << >> /\ ~stopped
    \/ \E r \in Reactors : pc[r] = "note"
    \/ stage \in {"gate again", "waiting note"}
ToldOfCredits ==
  drain = "no credit" =>
    \/ available = 0 /\ ~closed
    \/ noting \/ stage = "gate note"

LEMMA TaskSleeper == ToldOfTasks /\ TypeOK /\ [Next]_vars => ToldOfTasks'
<1> SUFFICES ASSUME ToldOfTasks, TypeOK, [Next]_vars, drain' = "no task"
             PROVE  ToldOfTasks'
  BY DEF ToldOfTasks
<1> USE DEF ToldOfTasks
<1>1. ASSUME NEW r \in Reactors, OnMessage(r) PROVE ToldOfTasks'
  <2>1. PICK m \in Msgs, to \in {"count", "park"} : Offer(r, m, to)
    BY <1>1 DEF OnMessage, OnMessageFast, TryAcquire, TryAcquireFails
  <2>2. \A q \in Reactors : pc[q] = "note" => pc'[q] = "note"
    BY <2>1 DEF Offer, Goto, TypeOK
  <2>3. QED
    BY <2>1, <2>2 DEF Offer, parkVars, stopVars
<1>2. ASSUME NEW r \in Reactors, ReactorStep(r) PROVE ToldOfTasks'
  <2>1. CASE AddWaitingTask(r)
    <3>1. stopped \/ pc'[r] = "note"
      BY <2>1 DEF AddWaitingTask, Goto, TypeOK
    <3>2. \A q \in Reactors : pc[q] = "note" => pc'[q] = "note"
      BY <2>1 DEF AddWaitingTask, Goto, TypeOK
    <3>3. stopped' = stopped /\ drain' = drain /\ stage' = stage
      BY <2>1 DEF AddWaitingTask, stopVars
    <3>4. QED
      BY <3>1, <3>2, <3>3
  <2>2. CASE WaitingNote(r)
    BY <2>2 DEF WaitingNote, Notified
  <2>3. CASE CountUp(r) \/ TryPush(r) \/ CountDown(r) \/ GiveBack(r) \/ ReactorExits(r)
    <3>1. \A q \in Reactors : pc[q] = "note" => pc'[q] = "note"
      BY <2>3 DEF CountUp, TryPush, CountDown, GiveBack, ReactorExits, Goto, TypeOK
    <3>2. UNCHANGED <<waiting, stopped, drain, stage>>
      BY <2>3 DEF CountUp, TryPush, CountDown, GiveBack, ReactorExits, parkVars, stopVars
    <3>3. QED
      BY <3>1, <3>2
  <2>4. QED
    BY <1>2, <2>1, <2>2, <2>3 DEF ReactorStep
<1>3. CASE GateNote \/ Spurious
  BY <1>3 DEF GateNote, Spurious, Notified, readVars, stopVars
<1>4. CASE Drain
  <2>1. CASE DrainTakes
    BY <2>1 DEF DrainTakes, DrainStep
  <2>2. CASE ~DrainTakes
    BY <1>4, <2>2 DEF Drain, DrainAcquires, DrainCounts, DrainPushes, DrainUncounts, DrainGivesUp,
       DrainResumes, DrainStep
  <2>3. QED
    BY <2>1, <2>2
<1>5. ASSUME NEW t \in Workers, Divide(t) PROVE ToldOfTasks'
  <2>1. UNCHANGED <<pc, waiting, stopped, drain, stage>>
    BY <1>5 DEF Divide, DividePop, DivideExits, OnWork, DivideThrows, FinishTask, readVars,
       parkVars, stopVars
  <2>2. QED
    BY <2>1
<1>6. ASSUME NEW m \in Msgs, WorkEnds(m) PROVE ToldOfTasks'
  BY <1>6 DEF WorkEnds, readVars, parkVars, stopVars
<1>7. CASE CloseDivide \/ Stopping
  <2>1. CASE StopWaiting
    BY <2>1 DEF StopWaiting, Stage
  <2>2. CASE GateNoteAll
    BY <2>2 DEF GateNoteAll, Stage, Notified, readVars
  <2>3. CASE WaitingNoteAll
    BY <2>3 DEF WaitingNoteAll, Notified
  <2>4. CASE CloseDivide \/ WaitIdle \/ CloseWork \/ StopReading \/ ReactorsJoined \/ CloseGate
             \/ DrainJoined
    <3>1. UNCHANGED <<pc, waiting, stopped, drain>>
      BY <2>4 DEF CloseDivide, WaitIdle, CloseWork, StopReading, ReactorsJoined, CloseGate,
         DrainJoined, readVars, parkVars
    <3>2. stage' \notin {"gate again", "waiting note"} => stage \notin {"gate again", "waiting note"}
      BY <2>4 DEF CloseDivide, WaitIdle, CloseWork, StopReading, ReactorsJoined, CloseGate,
         DrainJoined, Stage
    <3>3. QED
      BY <3>1, <3>2
  <2>5. QED
    BY <1>7, <2>1, <2>2, <2>3, <2>4 DEF Stopping
<1>8. CASE UNCHANGED vars
  BY <1>8 DEF vars, readVars, parkVars, stopVars
<1>9. QED
  BY <1>1, <1>2, <1>3, <1>4, <1>5, <1>6, <1>7, <1>8 DEF Next

(* A positive number of credits is not none.                               *)
LEMMA Positive == \A n \in 0 .. CreditLimit : n > 0 => n # 0
  BY AdmissionAssumption

LEMMA CreditSleeper == ToldOfCredits /\ TypeOK /\ [Next]_vars => ToldOfCredits'
<1> SUFFICES ASSUME ToldOfCredits, TypeOK, [Next]_vars, drain' = "no credit"
             PROVE  ToldOfCredits'
  BY DEF ToldOfCredits
<1> USE DEF ToldOfCredits
\* While the drain thread sleeps credits change hands only by Release.
<1>1. ASSUME NEW m, Release(m), UNCHANGED <<closed, drain, stage>> PROVE ToldOfCredits'
  BY <1>1 DEF Release
<1>2. ASSUME UNCHANGED <<gateVars, drain, stage>> PROVE ToldOfCredits'
  BY <1>2 DEF gateVars
<1>3. ASSUME NEW r \in Reactors, OnMessage(r) PROVE ToldOfCredits'
  <2>1. PICK m \in Msgs, to \in {"count", "park"} : Offer(r, m, to)
    BY <1>3 DEF OnMessage, OnMessageFast, TryAcquire, TryAcquireFails
  <2>2. available' = available \/ available > 0
    BY <1>3 DEF OnMessage, OnMessageFast, TryAcquire, TryAcquireFails
  <2>3. UNCHANGED <<closed, noting, drain, stage>>
    BY <2>1 DEF Offer, parkVars, stopVars
  <2>4. available \in 0 .. CreditLimit
    BY DEF TypeOK
  <2>5. available > 0 => available # 0
    BY <2>4, Positive
  <2>6. CASE available = 0
    BY <2>2, <2>3, <2>5, <2>6
  <2>7. CASE available # 0
    BY <2>3, <2>7
  <2>8. QED
    BY <2>6, <2>7
<1>4. ASSUME NEW r \in Reactors, ReactorStep(r) PROVE ToldOfCredits'
  <2>1. CASE GiveBack(r)
    BY <1>1, <2>1 DEF GiveBack, parkVars, stopVars
  <2>2. CASE WaitingNote(r)
    BY <1>2, <2>2 DEF WaitingNote, Notified, stopVars
  <2>3. CASE AddWaitingTask(r) \/ CountUp(r) \/ TryPush(r) \/ CountDown(r) \/ ReactorExits(r)
    BY <1>2, <2>3 DEF AddWaitingTask, CountUp, TryPush, CountDown, ReactorExits, parkVars, stopVars
  <2>4. QED
    BY <1>4, <2>1, <2>2, <2>3 DEF ReactorStep
<1>5. CASE GateNote \/ Spurious
  BY <1>2, <1>5 DEF GateNote, Spurious, Notified, stopVars
<1>6. CASE Drain
  <2>1. CASE DrainAcquires
    BY <2>1 DEF DrainAcquires, DrainStep
  <2>2. CASE ~DrainAcquires
    BY <1>6, <2>2 DEF Drain, DrainTakes, DrainCounts, DrainPushes, DrainUncounts, DrainGivesUp,
       DrainResumes, DrainStep
  <2>3. QED
    BY <2>1, <2>2
<1>7. ASSUME NEW t \in Workers, Divide(t) PROVE ToldOfCredits'
  <2>1. UNCHANGED <<gateVars, drain, stage>>
    BY <1>7 DEF Divide, DividePop, DivideExits, OnWork, DivideThrows, FinishTask, parkVars, stopVars
  <2>2. QED
    BY <1>2, <2>1
<1>8. ASSUME NEW m \in Msgs, WorkEnds(m) PROVE ToldOfCredits'
  BY <1>1, <1>8 DEF WorkEnds, parkVars, stopVars
<1>9. CASE CloseDivide \/ Stopping
  <2>1. CASE CloseGate
    BY <2>1 DEF CloseGate, Stage
  <2>2. CASE GateNoteAll
    BY <2>2 DEF GateNoteAll, Notified
  <2>3. CASE CloseDivide \/ WaitIdle \/ CloseWork \/ StopReading \/ ReactorsJoined \/ StopWaiting
             \/ WaitingNoteAll \/ DrainJoined
    <3>1. UNCHANGED gateVars /\ (drain = "no credit" => UNCHANGED drain)
      BY <2>3 DEF CloseDivide, WaitIdle, CloseWork, StopReading, ReactorsJoined, StopWaiting,
         WaitingNoteAll, DrainJoined, Notified, parkVars
    <3>2. drain = "no credit"
      BY <2>3 DEF CloseDivide, WaitIdle, CloseWork, StopReading, ReactorsJoined, StopWaiting,
         WaitingNoteAll, DrainJoined, Notified, parkVars
    <3>3. stage # "gate note"
      BY <2>3 DEF CloseDivide, WaitIdle, CloseWork, StopReading, ReactorsJoined, StopWaiting,
         WaitingNoteAll, DrainJoined, Stage
    <3>4. QED
      BY <3>1, <3>2, <3>3 DEF gateVars
  <2>4. QED
    BY <1>9, <2>1, <2>2, <2>3 DEF Stopping
<1>10. CASE UNCHANGED vars
  BY <1>2, <1>10 DEF vars, parkVars, stopVars
<1>11. QED
  BY <1>3, <1>4, <1>5, <1>6, <1>7, <1>8, <1>9, <1>10 DEF Next

(* The drain thread is never left asleep beside a parked message, a free   *)
(* credit or a closed gate, with any number of Reactors and credits.       *)
THEOREM DrainIsNotForgotten == Spec => []DrainIsTold
<1>1. Init => ToldOfTasks /\ ToldOfCredits
  BY DEF Init, ToldOfTasks, ToldOfCredits
<1>2. DrainIsTold <=> ToldOfTasks /\ ToldOfCredits
  BY DEF DrainIsTold, ToldOfTasks, ToldOfCredits
<1>3. QED
  BY <1>1, <1>2, TypeCorrect, TaskSleeper, CreditSleeper, PTL DEF Spec

---------------------------------------------------------------------------
(* Where a message is, by kind of place; in a kind of place no message is  *)
(* twice.                                                                  *)
Kinds == {"buffer", "reactor", "waiting", "drain", "queue", "worker", "work", "past"}
Is(k, m) ==
  \/ k = "buffer"  /\ m \in buffered
  \/ k = "reactor" /\ \E r \in Reactors : msg[r] = m
  \/ k = "waiting" /\ InSeq(m, waiting)
  \/ k = "drain"   /\ parked = m
  \/ k = "queue"   /\ InSeq(m, divideq)
  \/ k = "worker"  /\ \E t \in Workers : hand[t] = m
  \/ k = "work"    /\ m \in work
  \/ k = "past"    /\ fate[m] # "open"
OnePlace == \A m \in Msgs : \E k \in Kinds : \A j \in Kinds : Is(j, m) <=> j = k

Single(s) == \A i, j \in 1 .. Len(s) : s[i] = s[j] => i = j
NoTwins ==
  /\ Single(waiting) /\ Single(divideq)
  /\ \A q, r \in Reactors : msg[q] # None /\ msg[q] = msg[r] => q = r
  /\ \A t, u \in Workers  : hand[t] # None /\ hand[t] = hand[u] => t = u

PlaceInv == OnePlace /\ NoTwins

LEMMA Elsewhere ==
  ASSUME OnePlace, NEW m \in Msgs, NEW k \in Kinds, Is(k, m), NEW j \in Kinds, j # k
  PROVE  ~Is(j, m)
BY DEF OnePlace

(* What a step that takes a message from one kind of place to another has  *)
(* to show.                                                                *)
LEMMA Moved ==
  ASSUME OnePlace, NEW m \in Msgs, NEW from \in Kinds, NEW to \in Kinds, from # to,
         Is(from, m),
         \A o \in Msgs : Is(from, o)' <=> Is(from, o) /\ o # m,
         \A o \in Msgs : Is(to, o)' <=> Is(to, o) \/ o = m,
         \A o \in Msgs : \A k \in Kinds \ {from, to} : Is(k, o)' <=> Is(k, o)
  PROVE  OnePlace'
<1>1. \A k \in Kinds : Is(k, m)' <=> k = to
  BY Elsewhere
<1>2. ASSUME NEW o \in Msgs, o # m
      PROVE  \E k \in Kinds : \A j \in Kinds : Is(j, o)' <=> j = k
  <2>1. \A k \in Kinds : Is(k, o)' <=> Is(k, o)
    BY <1>2
  <2>2. QED
    BY <2>1 DEF OnePlace
<1>3. QED
  BY <1>1, <1>2 DEF OnePlace

(* What stays where it is.                                                 *)
LEMMA Same ==
  /\ buffered' = buffered => \A o \in Msgs : Is("buffer", o)' <=> Is("buffer", o)
  /\ msg' = msg => \A o \in Msgs : Is("reactor", o)' <=> Is("reactor", o)
  /\ waiting' = waiting => \A o \in Msgs : Is("waiting", o)' <=> Is("waiting", o)
  /\ parked' = parked => \A o \in Msgs : Is("drain", o)' <=> Is("drain", o)
  /\ divideq' = divideq => \A o \in Msgs : Is("queue", o)' <=> Is("queue", o)
  /\ hand' = hand => \A o \in Msgs : Is("worker", o)' <=> Is("worker", o)
  /\ work' = work => \A o \in Msgs : Is("work", o)' <=> Is("work", o)
  /\ fate' = fate => \A o \in Msgs : Is("past", o)' <=> Is("past", o)
BY DEF Is, InSeq

LEMMA NothingMoves ==
  ASSUME PlaceInv, UNCHANGED <<buffered, msg, waiting, parked, divideq, hand, work, fate>>
  PROVE  PlaceInv'
BY DEF PlaceInv, OnePlace, NoTwins, Is, InSeq, Single

---------------------------------------------------------------------------
(* The queues.                                                             *)
LEMMA PutLast ==
  ASSUME NEW s \in Seq(Msgs), NEW m \in Msgs, ~InSeq(m, s), Single(s)
  PROVE  /\ Single(Append(s, m))
         /\ \A o : InSeq(o, Append(s, m)) <=> InSeq(o, s) \/ o = m
<1> DEFINE z == Append(s, m)
<1>1. /\ Len(s) \in Nat /\ Len(z) = Len(s) + 1 /\ z[Len(s) + 1] = m
      /\ \A i \in 1 .. Len(s) : z[i] = s[i]
  BY AppendProperties, LenProperties
<1> HIDE DEF z
<1>2. \A i \in 1 .. Len(z) : i \in 1 .. Len(s) \/ i = Len(s) + 1
  BY <1>1
<1>3. 1 .. Len(s) \subseteq 1 .. Len(z) /\ Len(s) + 1 \in 1 .. Len(z)
  BY <1>1
<1>4. Single(z)
  BY <1>1, <1>2 DEF Single, InSeq
<1>5. \A o : InSeq(o, z) <=> InSeq(o, s) \/ o = m
  BY <1>1, <1>2, <1>3 DEF InSeq
<1>6. QED
  BY <1>4, <1>5 DEF z

LEMMA TakeFirst ==
  ASSUME NEW s \in Seq(Msgs), s # << >>, Single(s)
  PROVE  /\ Single(Tail(s)) /\ InSeq(Head(s), s)
         /\ \A o : InSeq(o, Tail(s)) <=> InSeq(o, s) /\ o # Head(s)
<1> DEFINE z == Tail(s)
           h == Head(s)
<1>1. /\ Len(s) \in Nat \ {0} /\ Len(z) = Len(s) - 1 /\ h = s[1]
      /\ \A i \in 1 .. Len(z) : z[i] = s[i + 1]
  BY HeadTailProperties, LenProperties, EmptySeq
<1> HIDE DEF z, h
<1>2. /\ \A i \in 1 .. Len(z) : i + 1 \in 1 .. Len(s) /\ i + 1 # 1 /\ i \in Int
      /\ \A i \in 1 .. Len(s) : i = 1 \/ (i - 1 \in 1 .. Len(z) /\ (i - 1) + 1 = i)
      /\ 1 \in 1 .. Len(s)
  BY <1>1
<1>3. Single(z)
  <2>1. SUFFICES ASSUME NEW i \in 1 .. Len(z), NEW j \in 1 .. Len(z), z[i] = z[j] PROVE i = j
    BY DEF Single
  <2>2. i + 1 = j + 1
    BY <1>1, <1>2, <2>1 DEF Single
  <2>3. QED
    BY <1>2, <2>2
<1>4. InSeq(h, s)
  BY <1>1, <1>2 DEF InSeq
<1>5. ASSUME NEW o PROVE InSeq(o, z) <=> InSeq(o, s) /\ o # h
  <2>1. InSeq(o, z) => InSeq(o, s) /\ o # h
    BY <1>1, <1>2 DEF InSeq, Single
  <2>2. ASSUME InSeq(o, s), o # h PROVE InSeq(o, z)
    <3>1. PICK i \in 1 .. Len(s) : s[i] = o
      BY <2>2 DEF InSeq
    <3>2. i - 1 \in 1 .. Len(z) /\ (i - 1) + 1 = i
      BY <1>1, <1>2, <2>2, <3>1
    <3>3. z[i - 1] = o
      BY <1>1, <3>1, <3>2
    <3>4. QED
      BY <3>2, <3>3 DEF InSeq
  <2>3. QED
    BY <2>1, <2>2
<1>6. QED
  BY <1>3, <1>4, <1>5 DEF z, h

LEMMA PutFirst ==
  ASSUME NEW s \in Seq(Msgs), NEW m \in Msgs, ~InSeq(m, s), Single(s)
  PROVE  /\ Single(<<m>> \o s)
         /\ \A o : InSeq(o, <<m>> \o s) <=> InSeq(o, s) \/ o = m
<1> DEFINE z == <<m>> \o s
<1>0. <<m>> \in Seq(Msgs) /\ Len(<<m>>) = 1 /\ <<m>>[1] = m
  OBVIOUS
<1>1. /\ Len(s) \in Nat /\ Len(z) = Len(s) + 1 /\ z[1] = m
      /\ \A i \in 1 .. Len(z) : i # 1 => z[i] = s[i - 1]
  BY <1>0, ConcatProperties, LenProperties
<1> HIDE DEF z
<1>2. /\ \A i \in 1 .. Len(z) : i = 1 \/ (i # 1 /\ i - 1 \in 1 .. Len(s))
      /\ \A i \in 1 .. Len(s) : i + 1 \in 1 .. Len(z) /\ i + 1 # 1 /\ (i + 1) - 1 = i
      /\ 1 \in 1 .. Len(z)
  BY <1>1
<1>3. Single(z)
  <2>1. SUFFICES ASSUME NEW i \in 1 .. Len(z), NEW j \in 1 .. Len(z), z[i] = z[j] PROVE i = j
    BY DEF Single
  <2>2. i # 1 /\ j # 1 => i - 1 = j - 1
    BY <1>1, <1>2, <2>1 DEF Single
  <2>3. i = 1 <=> j = 1
    BY <1>1, <1>2, <2>1 DEF InSeq
  <2>4. QED
    BY <2>2, <2>3
<1>4. \A o : InSeq(o, s) => InSeq(o, z)
  <2>1. SUFFICES ASSUME NEW o, NEW i \in 1 .. Len(s), s[i] = o PROVE InSeq(o, z)
    BY DEF InSeq
  <2>2. i + 1 \in 1 .. Len(z) /\ z[i + 1] = o
    BY <1>1, <1>2, <2>1
  <2>3. QED
    BY <2>2 DEF InSeq
<1>5. InSeq(m, z)
  BY <1>1, <1>2 DEF InSeq
<1>6. ASSUME NEW o, InSeq(o, z), o # m PROVE InSeq(o, s)
  <2>1. PICK i \in 1 .. Len(z) : z[i] = o
    BY <1>6 DEF InSeq
  <2>2. i - 1 \in 1 .. Len(s) /\ s[i - 1] = o
    BY <1>1, <1>2, <1>6, <2>1
  <2>3. QED
    BY <2>2 DEF InSeq
<1>7. QED
  BY <1>3, <1>4, <1>5, <1>6 DEF z

---------------------------------------------------------------------------
(* A Reactor or a worker takes a message or lets go of it.                 *)
ReactorsApart == \A q, r \in Reactors : msg[q] # None /\ msg[q] = msg[r] => q = r
WorkersApart  == \A t, u \in Workers  : hand[t] # None /\ hand[t] = hand[u] => t = u

LEMMA Twins == NoTwins <=> Single(waiting) /\ Single(divideq) /\ ReactorsApart /\ WorkersApart
BY DEF NoTwins, ReactorsApart, WorkersApart
LEMMA TwinsNext ==
  NoTwins' <=> Single(waiting') /\ Single(divideq') /\ ReactorsApart' /\ WorkersApart'
BY DEF NoTwins, ReactorsApart, WorkersApart, Single

LEMMA ReactorPuts ==
  ASSUME ReactorTypes, ReactorsApart, NEW r \in Reactors, msg[r] \in Msgs,
         msg' = [msg EXCEPT ![r] = None]
  PROVE  /\ Is("reactor", msg[r]) /\ ReactorsApart'
         /\ \A o \in Msgs : Is("reactor", o)' <=> Is("reactor", o) /\ o # msg[r]
<1>1. \A q \in Reactors : msg'[q] = IF q = r THEN None ELSE msg[q]
  BY DEF ReactorTypes
<1>2. None \notin Msgs
  BY AdmissionAssumption
<1>3. QED
  BY <1>1, <1>2 DEF Is, ReactorsApart

LEMMA ReactorGets ==
  ASSUME ReactorTypes, ReactorsApart, NEW r \in Reactors, NEW m \in Msgs, msg[r] = None,
         ~Is("reactor", m), msg' = [msg EXCEPT ![r] = m]
  PROVE  /\ ReactorsApart'
         /\ \A o \in Msgs : Is("reactor", o)' <=> Is("reactor", o) \/ o = m
<1>1. \A q \in Reactors : msg'[q] = IF q = r THEN m ELSE msg[q]
  BY DEF ReactorTypes
<1>2. None \notin Msgs
  BY AdmissionAssumption
<1>3. QED
  BY <1>1, <1>2 DEF Is, ReactorsApart

LEMMA WorkerPuts ==
  ASSUME DivideTypes, WorkersApart, NEW t \in Workers, hand[t] \in Msgs,
         hand' = [hand EXCEPT ![t] = None]
  PROVE  /\ Is("worker", hand[t]) /\ WorkersApart'
         /\ \A o \in Msgs : Is("worker", o)' <=> Is("worker", o) /\ o # hand[t]
<1>1. \A u \in Workers : hand'[u] = IF u = t THEN None ELSE hand[u]
  BY DEF DivideTypes
<1>2. None \notin Msgs
  BY AdmissionAssumption
<1>3. QED
  BY <1>1, <1>2 DEF Is, WorkersApart

LEMMA WorkerGets ==
  ASSUME DivideTypes, WorkersApart, NEW t \in Workers, NEW m \in Msgs, hand[t] = None,
         ~Is("worker", m), hand' = [hand EXCEPT ![t] = m]
  PROVE  /\ WorkersApart'
         /\ \A o \in Msgs : Is("worker", o)' <=> Is("worker", o) \/ o = m
<1>1. \A u \in Workers : hand'[u] = IF u = t THEN m ELSE hand[u]
  BY DEF DivideTypes
<1>2. None \notin Msgs
  BY AdmissionAssumption
<1>3. QED
  BY <1>1, <1>2 DEF Is, WorkersApart

LEMMA Ended ==
  ASSUME RestTypes, NEW m \in Msgs, NEW how, how # "open", Ends(m, how)
  PROVE  \A o \in Msgs : Is("past", o)' <=> Is("past", o) \/ o = m
BY DEF RestTypes, Ends, Is

---------------------------------------------------------------------------
LEMMA OnMessageMoves ==
  ASSUME TypeOK, PlaceInv, NEW r \in Reactors, OnMessage(r)
  PROVE  PlaceInv'
<1> ReactorTypes
  BY Parts
<1>1. PICK m \in Msgs, to \in {"count", "park"} : Offer(r, m, to)
  BY DEF OnMessage, OnMessageFast, TryAcquire, TryAcquireFails
<1>2. /\ m \in buffered /\ buffered' = buffered \ {m} /\ msg[r] = None
      /\ msg' = [msg EXCEPT ![r] = m]
      /\ UNCHANGED <<waiting, parked, divideq, hand, work, fate>>
  BY <1>1 DEF Offer, Goto, ReactorTypes, parkVars, divideVars, workVars
<1>3. Is("buffer", m) /\ \A o \in Msgs : Is("buffer", o)' <=> Is("buffer", o) /\ o # m
  BY <1>2 DEF Is
<1>4. ~Is("reactor", m)
  BY <1>3, Elsewhere DEF PlaceInv, Kinds
<1>5. ReactorsApart' /\ \A o \in Msgs : Is("reactor", o)' <=> Is("reactor", o) \/ o = m
  BY <1>2, <1>4, ReactorGets, Twins DEF PlaceInv
<1>6. \A o \in Msgs : \A k \in Kinds \ {"buffer", "reactor"} : Is(k, o)' <=> Is(k, o)
  BY <1>2, Same DEF Kinds
<1>7. OnePlace'
  <2>1. "buffer" \in Kinds /\ "reactor" \in Kinds
    BY DEF Kinds
  <2>2. QED
    BY <1>3, <1>5, <1>6, <2>1, Moved DEF PlaceInv
<1>8. NoTwins'
  BY <1>2, <1>5, Twins, TwinsNext DEF PlaceInv, WorkersApart
<1>9. QED
  BY <1>7, <1>8 DEF PlaceInv

LEMMA ReactorMoves ==
  ASSUME TypeOK, PlaceInv, NEW r \in Reactors, ReactorStep(r)
  PROVE  PlaceInv'
<1> ReactorTypes /\ DrainTypes /\ DivideTypes /\ RestTypes /\ OnePlace
    /\ Single(waiting) /\ Single(divideq) /\ ReactorsApart /\ WorkersApart
  BY Parts, Twins DEF PlaceInv
<1> DEFINE m == msg[r]
\* To another place than a Reactor.
<1>0. ASSUME NEW to \in Kinds \ {"reactor"}, m \in Msgs, msg' = [msg EXCEPT ![r] = None],
             ~Is(to, m) => \A o \in Msgs : Is(to, o)' <=> Is(to, o) \/ o = m,
             \A o \in Msgs : \A k \in Kinds \ {"reactor", to} : Is(k, o)' <=> Is(k, o)
      PROVE  OnePlace' /\ ReactorsApart'
  <2>1. /\ Is("reactor", m) /\ ReactorsApart'
        /\ \A o \in Msgs : Is("reactor", o)' <=> Is("reactor", o) /\ o # m
    BY <1>0, ReactorPuts
  <2>2. "reactor" \in Kinds
    BY DEF Kinds
  <2>3. ~Is(to, m)
    BY <1>0, <2>1, <2>2, Elsewhere
  <2> HIDE DEF m
  <2>4. QED
    BY <1>0, <2>1, <2>2, <2>3, Moved
<1>1. CASE AddWaitingTask(r)
  <2>1. /\ m \in Msgs /\ msg' = [msg EXCEPT ![r] = None]
        /\ \/ buffered' = buffered \union {m} /\ waiting' = waiting
           \/ buffered' = buffered /\ waiting' = Append(waiting, m)
        /\ UNCHANGED <<parked, divideq, hand, work, fate>>
    BY <1>1, AdmissionAssumption DEF AddWaitingTask, Goto, ReactorTypes, divideVars, workVars
  <2>2. CASE buffered' = buffered \union {m} /\ waiting' = waiting
    <3>1. \A o \in Msgs : Is("buffer", o)' <=> Is("buffer", o) \/ o = m
      BY <2>2 DEF Is
    <3>2. "buffer" \in Kinds \ {"reactor"}
      BY DEF Kinds
    <3>3. \A o \in Msgs : \A k \in Kinds \ {"reactor", "buffer"} : Is(k, o)' <=> Is(k, o)
      BY <2>1, <2>2, Same DEF Kinds
    <3>4. OnePlace' /\ ReactorsApart'
      BY <1>0, <2>1, <3>1, <3>2, <3>3
    <3>5. NoTwins'
      BY <2>1, <2>2, <3>4, TwinsNext DEF WorkersApart
    <3>6. QED
      BY <3>4, <3>5 DEF PlaceInv
  <2>3. CASE buffered' = buffered /\ waiting' = Append(waiting, m)
    <3>1. ~Is("waiting", m)
      <4>1. Is("reactor", m)
        BY <2>1, ReactorPuts
      <4>2. QED
        BY <2>1, <4>1, Elsewhere DEF Kinds
    <3>2. ~InSeq(m, waiting) /\ waiting \in Seq(Msgs)
      BY <3>1 DEF Is, DrainTypes
    <3>3. Single(waiting') /\ \A o \in Msgs : InSeq(o, waiting') <=> InSeq(o, waiting) \/ o = m
      BY <2>1, <2>3, <3>2, PutLast
    <3>4. \A o \in Msgs : Is("waiting", o)' <=> Is("waiting", o) \/ o = m
      BY <3>3 DEF Is, InSeq
    <3>5. "waiting" \in Kinds \ {"reactor"}
      BY DEF Kinds
    <3>6. \A o \in Msgs : \A k \in Kinds \ {"reactor", "waiting"} : Is(k, o)' <=> Is(k, o)
      BY <2>1, <2>3, Same DEF Kinds
    <3>7. OnePlace' /\ ReactorsApart'
      BY <1>0, <2>1, <3>4, <3>5, <3>6
    <3>8. NoTwins'
      BY <2>1, <3>3, <3>7, TwinsNext DEF WorkersApart
    <3>9. QED
      BY <3>7, <3>8 DEF PlaceInv
  <2>4. QED
    BY <2>1, <2>2, <2>3
<1>2. CASE TryPush(r)
  <2>1. CASE UNCHANGED <<divideq, msg>>
    BY <1>2, <2>1, NothingMoves DEF TryPush, parkVars, workVars
  <2>2. CASE /\ divideq' = Append(divideq, m) /\ msg' = [msg EXCEPT ![r] = None]
             /\ pc[r] = "push"
    <3>1. /\ m \in Msgs /\ UNCHANGED <<buffered, waiting, parked, hand, work, fate>>
      BY <1>2, <2>2, AdmissionAssumption DEF TryPush, ReactorTypes, parkVars, workVars
    <3>2. ~Is("queue", m)
      <4>1. Is("reactor", m)
        BY <2>2, <3>1, ReactorPuts
      <4>2. QED
        BY <3>1, <4>1, Elsewhere DEF Kinds
    <3>3. ~InSeq(m, divideq) /\ divideq \in Seq(Msgs)
      BY <3>2 DEF Is, DivideTypes
    <3>4. Single(divideq') /\ \A o \in Msgs : InSeq(o, divideq') <=> InSeq(o, divideq) \/ o = m
      BY <2>2, <3>1, <3>3, PutLast
    <3>5. \A o \in Msgs : Is("queue", o)' <=> Is("queue", o) \/ o = m
      BY <3>4 DEF Is, InSeq
    <3>6. "queue" \in Kinds \ {"reactor"}
      BY DEF Kinds
    <3>7. \A o \in Msgs : \A k \in Kinds \ {"reactor", "queue"} : Is(k, o)' <=> Is(k, o)
      BY <3>1, Same DEF Kinds
    <3>8. OnePlace' /\ ReactorsApart'
      BY <1>0, <2>2, <3>1, <3>5, <3>6, <3>7
    <3>9. NoTwins'
      BY <3>1, <3>4, <3>8, TwinsNext DEF WorkersApart
    <3>10. QED
      BY <3>8, <3>9 DEF PlaceInv
  <2>3. QED
    BY <1>2, <2>1, <2>2 DEF TryPush, Goto
<1>3. CASE GiveBack(r)
  <2>1. /\ m \in Msgs /\ msg' = [msg EXCEPT ![r] = None]
        /\ \/ buffered' = buffered \union {m} /\ fate' = fate
           \/ buffered' = buffered /\ Ends(m, "refused")
        /\ UNCHANGED <<waiting, parked, divideq, hand, work>>
    BY <1>3, AdmissionAssumption DEF GiveBack, Goto, ReactorTypes, parkVars, divideVars
  <2>2. /\ buffered' = buffered \union {m}
           => \A o \in Msgs : Is("buffer", o)' <=> Is("buffer", o) \/ o = m
        /\ Ends(m, "refused") => \A o \in Msgs : Is("past", o)' <=> Is("past", o) \/ o = m
    BY <2>1, Ended DEF Is
  <2>3. "buffer" \in Kinds \ {"reactor"} /\ "past" \in Kinds \ {"reactor"}
    BY DEF Kinds
  <2>4. /\ fate' = fate => \A o \in Msgs : \A k \in Kinds \ {"reactor", "buffer"} :
                             Is(k, o)' <=> Is(k, o)
        /\ buffered' = buffered => \A o \in Msgs : \A k \in Kinds \ {"reactor", "past"} :
                                     Is(k, o)' <=> Is(k, o)
    BY <2>1, Same DEF Kinds
  <2>5. OnePlace' /\ ReactorsApart'
    BY <1>0, <2>1, <2>2, <2>3, <2>4
  <2>6. NoTwins'
    BY <2>1, <2>5, TwinsNext DEF WorkersApart
  <2>7. QED
    BY <2>5, <2>6 DEF PlaceInv
<1>4. CASE WaitingNote(r) \/ CountUp(r) \/ CountDown(r) \/ ReactorExits(r)
  BY <1>4, NothingMoves DEF WaitingNote, CountUp, CountDown, ReactorExits, parkVars, divideVars,
     workVars
<1>5. QED
  BY <1>1, <1>2, <1>3, <1>4 DEF ReactorStep

LEMMA DrainMoves ==
  ASSUME TypeOK, PlaceInv, Drain
  PROVE  PlaceInv'
<1> DrainTypes /\ DivideTypes /\ RestTypes /\ OnePlace
    /\ Single(waiting) /\ Single(divideq) /\ ReactorsApart /\ WorkersApart
  BY Parts, Twins DEF PlaceInv
<1>0. None \notin Msgs
  BY AdmissionAssumption
\* From the drain thread to another place.
<1>a. ASSUME NEW to \in Kinds \ {"drain"}, parked \in Msgs, parked' = None,
             ~Is(to, parked) => \A o \in Msgs : Is(to, o)' <=> Is(to, o) \/ o = parked,
             \A o \in Msgs : \A k \in Kinds \ {"drain", to} : Is(k, o)' <=> Is(k, o)
      PROVE  OnePlace'
  <2>1. /\ Is("drain", parked) /\ \A o \in Msgs : Is("drain", o)' <=> Is("drain", o) /\ o # parked
    BY <1>a, <1>0 DEF Is
  <2>2. "drain" \in Kinds
    BY DEF Kinds
  <2>3. ~Is(to, parked)
    BY <1>a, <2>1, <2>2, Elsewhere
  <2>4. QED
    BY <1>a, <2>1, <2>2, <2>3, Moved
<1>b. ASSUME parked \in Msgs, NEW k \in Kinds \ {"drain"} PROVE ~Is(k, parked)
  <2>1. Is("drain", parked)
    BY DEF Is
  <2>2. QED
    BY <1>b, <2>1, Elsewhere DEF Kinds
<1>1. CASE DrainTakes
  <2>1. CASE UNCHANGED <<waiting, parked>>
    BY <1>1, <2>1, NothingMoves DEF DrainTakes, readVars, divideVars, workVars
  <2>2. CASE /\ waiting # << >> /\ drain = "wait"
             /\ parked' = Head(waiting) /\ waiting' = Tail(waiting)
    <3> DEFINE m == Head(waiting)
    <3>1. /\ UNCHANGED <<buffered, msg, divideq, hand, work, fate>> /\ m \in Msgs
      BY <1>1, <2>2, HeadTailProperties DEF DrainTakes, DrainTypes, readVars, divideVars, workVars
    <3>2. /\ Single(waiting') /\ InSeq(m, waiting)
          /\ \A o \in Msgs : InSeq(o, waiting') <=> InSeq(o, waiting) /\ o # m
      BY <2>2, TakeFirst DEF DrainTypes
    <3>3. Is("waiting", m) /\ \A o \in Msgs : Is("waiting", o)' <=> Is("waiting", o) /\ o # m
      BY <3>2 DEF Is, InSeq
    <3>4. parked = None
      BY <2>2 DEF DrainTypes
    <3>5. \A o \in Msgs : Is("drain", o)' <=> Is("drain", o) \/ o = m
      BY <1>0, <2>2, <3>4 DEF Is
    <3>6. \A o \in Msgs : \A k \in Kinds \ {"waiting", "drain"} : Is(k, o)' <=> Is(k, o)
      BY <3>1, Same DEF Kinds
    <3>7. "waiting" \in Kinds /\ "drain" \in Kinds
      BY DEF Kinds
    <3> HIDE DEF m
    <3>8. OnePlace'
      BY <3>1, <3>3, <3>5, <3>6, <3>7, Moved
    <3>9. NoTwins'
      BY <3>1, <3>2, TwinsNext DEF WorkersApart, ReactorsApart
    <3>10. QED
      BY <3>8, <3>9 DEF PlaceInv
  <2>3. QED
    BY <1>1, <2>1, <2>2 DEF DrainTakes, DrainStep
<1>2. CASE DrainAcquires
  <2>1. CASE UNCHANGED <<waiting, parked>>
    BY <1>2, <2>1, NothingMoves DEF DrainAcquires, readVars, divideVars, workVars
  <2>2. CASE drain = "acquire" /\ waiting' = <<parked>> \o waiting /\ parked' = None
    <3>1. parked \in Msgs /\ UNCHANGED <<buffered, msg, divideq, hand, work, fate>>
      BY <1>2, <2>2 DEF DrainAcquires, DrainTypes, readVars, divideVars, workVars
    <3>2. ~Is("waiting", parked)
      BY <1>b, <3>1 DEF Kinds
    <3>3. ~InSeq(parked, waiting) /\ waiting \in Seq(Msgs)
      BY <3>2 DEF Is, DrainTypes
    <3>4. /\ Single(waiting')
          /\ \A o \in Msgs : InSeq(o, waiting') <=> InSeq(o, waiting) \/ o = parked
      BY <2>2, <3>1, <3>3, PutFirst
    <3>5. \A o \in Msgs : Is("waiting", o)' <=> Is("waiting", o) \/ o = parked
      BY <3>4 DEF Is, InSeq
    <3>6. \A o \in Msgs : \A k \in Kinds \ {"drain", "waiting"} : Is(k, o)' <=> Is(k, o)
      BY <3>1, Same DEF Kinds
    <3>7. "waiting" \in Kinds \ {"drain"}
      BY DEF Kinds
    <3>8. OnePlace'
      BY <1>a, <2>2, <3>1, <3>5, <3>6, <3>7
    <3>9. NoTwins'
      BY <3>1, <3>4, TwinsNext DEF WorkersApart, ReactorsApart
    <3>10. QED
      BY <3>8, <3>9 DEF PlaceInv
  <2>3. QED
    BY <1>2, <2>1, <2>2 DEF DrainAcquires, DrainStep
<1>3. CASE DrainPushes
  <2>1. CASE UNCHANGED <<divideq, parked>>
    BY <1>3, <2>1, NothingMoves DEF DrainPushes, readVars, workVars
  <2>2. CASE drain = "push" /\ divideq' = Append(divideq, parked) /\ parked' = None
    <3>1. parked \in Msgs /\ UNCHANGED <<buffered, msg, waiting, hand, work, fate>>
      BY <1>3, <2>2 DEF DrainPushes, DrainTypes, readVars, workVars
    <3>2. ~Is("queue", parked)
      BY <1>b, <3>1 DEF Kinds
    <3>3. ~InSeq(parked, divideq) /\ divideq \in Seq(Msgs)
      BY <3>2 DEF Is, DivideTypes
    <3>4. /\ Single(divideq')
          /\ \A o \in Msgs : InSeq(o, divideq') <=> InSeq(o, divideq) \/ o = parked
      BY <2>2, <3>1, <3>3, PutLast
    <3>5. \A o \in Msgs : Is("queue", o)' <=> Is("queue", o) \/ o = parked
      BY <3>4 DEF Is, InSeq
    <3>6. \A o \in Msgs : \A k \in Kinds \ {"drain", "queue"} : Is(k, o)' <=> Is(k, o)
      BY <3>1, Same DEF Kinds
    <3>7. "queue" \in Kinds \ {"drain"}
      BY DEF Kinds
    <3>8. OnePlace'
      BY <1>a, <2>2, <3>1, <3>5, <3>6, <3>7
    <3>9. NoTwins'
      BY <3>1, <3>4, TwinsNext DEF WorkersApart, ReactorsApart
    <3>10. QED
      BY <3>8, <3>9 DEF PlaceInv
  <2>3. QED
    BY <1>3, <2>1, <2>2 DEF DrainPushes, DrainStep
<1>4. CASE DrainGivesUp
  <2>1. /\ parked \in Msgs /\ parked' = None /\ Ends(parked, "dropped")
        /\ UNCHANGED <<buffered, msg, waiting, divideq, hand, work>>
    BY <1>4 DEF DrainGivesUp, DrainStep, DrainTypes, readVars, divideVars
  <2>2. \A o \in Msgs : Is("past", o)' <=> Is("past", o) \/ o = parked
    BY <2>1, Ended
  <2>3. \A o \in Msgs : \A k \in Kinds \ {"drain", "past"} : Is(k, o)' <=> Is(k, o)
    BY <2>1, Same DEF Kinds
  <2>4. "past" \in Kinds \ {"drain"}
    BY DEF Kinds
  <2>5. OnePlace'
    BY <1>a, <2>1, <2>2, <2>3, <2>4
  <2>6. NoTwins'
    BY <2>1, TwinsNext DEF WorkersApart, ReactorsApart
  <2>7. QED
    BY <2>5, <2>6 DEF PlaceInv
<1>5. CASE DrainCounts \/ DrainUncounts \/ DrainResumes
  BY <1>5, NothingMoves DEF DrainCounts, DrainUncounts, DrainResumes, readVars, divideVars,
     workVars, parkVars
<1>6. QED
  BY <1>1, <1>2, <1>3, <1>4, <1>5 DEF Drain

LEMMA DivideMoves ==
  ASSUME TypeOK, PlaceInv, NEW t \in Workers, Divide(t)
  PROVE  PlaceInv'
<1> DivideTypes /\ RestTypes /\ OnePlace
    /\ Single(waiting) /\ Single(divideq) /\ ReactorsApart /\ WorkersApart
  BY Parts, Twins DEF PlaceInv
<1>1. CASE DividePop(t)
  <2> DEFINE m == Head(divideq)
  <2>1. /\ hand[t] = None /\ hand' = [hand EXCEPT ![t] = m]
        /\ divideq # << >> /\ divideq' = Tail(divideq) /\ m \in Msgs
        /\ UNCHANGED <<buffered, msg, waiting, parked, work, fate>>
    BY <1>1, HeadTailProperties DEF DividePop, Step, DivideTypes, readVars, parkVars, workVars
  <2>2. /\ Single(divideq') /\ InSeq(m, divideq)
        /\ \A o \in Msgs : InSeq(o, divideq') <=> InSeq(o, divideq) /\ o # m
    BY <2>1, TakeFirst DEF DivideTypes
  <2>3. Is("queue", m) /\ \A o \in Msgs : Is("queue", o)' <=> Is("queue", o) /\ o # m
    BY <2>2 DEF Is, InSeq
  <2>4. "queue" \in Kinds /\ "worker" \in Kinds
    BY DEF Kinds
  <2> HIDE DEF m
  <2>5. ~Is("worker", m)
    BY <2>1, <2>3, <2>4, Elsewhere
  <2>6. WorkersApart' /\ \A o \in Msgs : Is("worker", o)' <=> Is("worker", o) \/ o = m
    BY <2>1, <2>5, WorkerGets
  <2>7. \A o \in Msgs : \A k \in Kinds \ {"queue", "worker"} : Is(k, o)' <=> Is(k, o)
    BY <2>1, Same DEF Kinds
  <2>8. OnePlace'
    BY <2>1, <2>3, <2>4, <2>6, <2>7, Moved
  <2>9. NoTwins'
    BY <2>1, <2>2, <2>6, TwinsNext DEF ReactorsApart
  <2>10. QED
    BY <2>8, <2>9 DEF PlaceInv
<1>2. CASE OnWork(t) \/ DivideThrows(t)
  <2> DEFINE m == hand[t]
  <2>1. /\ m \in Msgs /\ hand' = [hand EXCEPT ![t] = None]
        /\ \/ work' = work \union {m} /\ fate' = fate
           \/ work' = work /\ (Ends(m, "lost") \/ Ends(m, "thrown"))
        /\ UNCHANGED <<buffered, msg, waiting, parked, divideq>>
    BY <1>2 DEF OnWork, DivideThrows, Step, DivideTypes, readVars, parkVars
  <2>2. /\ Is("worker", m) /\ WorkersApart'
        /\ \A o \in Msgs : Is("worker", o)' <=> Is("worker", o) /\ o # m
    BY <2>1, WorkerPuts
  <2>3. /\ work' = work \union {m} => \A o \in Msgs : Is("work", o)' <=> Is("work", o) \/ o = m
        /\ Ends(m, "lost") \/ Ends(m, "thrown")
             => \A o \in Msgs : Is("past", o)' <=> Is("past", o) \/ o = m
    BY <2>1, Ended DEF Is
  <2>4. "worker" \in Kinds /\ "past" \in Kinds /\ "work" \in Kinds
    BY DEF Kinds
  <2>5. /\ fate' = fate => \A o \in Msgs : \A k \in Kinds \ {"worker", "work"} :
                             Is(k, o)' <=> Is(k, o)
        /\ work' = work => \A o \in Msgs : \A k \in Kinds \ {"worker", "past"} :
                             Is(k, o)' <=> Is(k, o)
    BY <2>1, Same DEF Kinds
  <2> HIDE DEF m
  <2>8. OnePlace'
    <3>1. CASE work' = work \union {m} /\ fate' = fate
      BY <2>1, <2>2, <2>3, <2>4, <2>5, <3>1, Moved
    <3>2. CASE work' = work /\ (Ends(m, "lost") \/ Ends(m, "thrown"))
      BY <2>1, <2>2, <2>3, <2>4, <2>5, <3>2, Moved
    <3>3. QED
      BY <2>1, <3>1, <3>2
  <2>9. NoTwins'
    BY <2>1, <2>2, TwinsNext DEF ReactorsApart
  <2>10. QED
    BY <2>8, <2>9 DEF PlaceInv
<1>3. CASE DivideExits(t) \/ FinishTask(t)
  BY <1>3, NothingMoves DEF DivideExits, FinishTask, readVars, parkVars, workVars
<1>4. QED
  BY <1>1, <1>2, <1>3 DEF Divide

LEMMA OthersMove ==
  ASSUME TypeOK, PlaceInv,
         \/ GateNote \/ Spurious \/ CloseDivide \/ Stopping \/ UNCHANGED vars
         \/ \E m \in Msgs : WorkEnds(m)
  PROVE  PlaceInv'
<1>1. ASSUME NEW m \in Msgs, WorkEnds(m) PROVE PlaceInv'
  <2>1. /\ m \in work /\ work' = work \ {m} /\ Ends(m, "ended")
        /\ UNCHANGED <<buffered, msg, waiting, parked, divideq, hand>>
    BY <1>1 DEF WorkEnds, readVars, parkVars, divideVars
  <2>2. Is("work", m) /\ \A o \in Msgs : Is("work", o)' <=> Is("work", o) /\ o # m
    BY <2>1 DEF Is
  <2>3. \A o \in Msgs : Is("past", o)' <=> Is("past", o) \/ o = m
    BY <2>1, Ended, Parts
  <2>4. \A o \in Msgs : \A k \in Kinds \ {"work", "past"} : Is(k, o)' <=> Is(k, o)
    BY <2>1, Same DEF Kinds
  <2>5. "work" \in Kinds /\ "past" \in Kinds
    BY DEF Kinds
  <2>6. OnePlace'
    BY <2>2, <2>3, <2>4, <2>5, Moved DEF PlaceInv
  <2>7. NoTwins'
    BY <2>1 DEF PlaceInv, NoTwins, Single
  <2>8. QED
    BY <2>6, <2>7 DEF PlaceInv
<1>2. CASE GateNote \/ Spurious \/ CloseDivide \/ UNCHANGED vars
  BY <1>2, NothingMoves DEF GateNote, Spurious, CloseDivide, vars, readVars, parkVars, divideVars,
     workVars
<1>3. CASE Stopping
  BY <1>3, NothingMoves DEF Stopping, WaitIdle, CloseWork, StopReading, ReactorsJoined, CloseGate,
     GateNoteAll, StopWaiting, WaitingNoteAll, DrainJoined, readVars, parkVars, divideVars, workVars
<1>4. QED
  BY <1>1, <1>2, <1>3

LEMMA PlaceStep == TypeOK /\ PlaceInv /\ [Next]_vars => PlaceInv'
BY OnMessageMoves, ReactorMoves, DrainMoves, DivideMoves, OthersMove DEF Next

LEMMA PlaceHolds == Spec => []PlaceInv
<1>1. Init => PlaceInv
  <2> SUFFICES ASSUME Init PROVE PlaceInv
    OBVIOUS
  <2>1. /\ buffered = Msgs /\ msg = [r \in Reactors |-> None] /\ waiting = << >> /\ parked = None
        /\ divideq = << >> /\ hand = [t \in Workers |-> None] /\ work = {}
        /\ fate = [m \in Msgs |-> "open"] /\ None \notin Msgs
    BY AdmissionAssumption DEF Init
  <2>2. 1 .. Len(<< >>) = {}
    OBVIOUS
  <2>3. \A m \in Msgs : \A k \in Kinds : Is(k, m) <=> k = "buffer"
    BY <2>1, <2>2 DEF Kinds, Is, InSeq
  <2>4. OnePlace
    BY <2>3 DEF OnePlace, Kinds
  <2>5. NoTwins
    BY <2>1, <2>2 DEF NoTwins, Single
  <2>6. QED
    BY <2>4, <2>5 DEF PlaceInv
<1>2. QED
  BY <1>1, PlaceStep, TypeCorrect, PTL DEF Spec

LEMMA InOnePlace ==
  ASSUME TypeOK, PlaceInv, NEW m \in Msgs
  PROVE  Cardinality(Places(m)) = 1
<1>1. PICK k \in Kinds : \A j \in Kinds : Is(j, m) <=> j = k
  BY DEF PlaceInv, OnePlace
<1> DEFINE Simple == {"buffer", "waiting", "drain", "queue", "work", "past"}
           Plain == {p \in Simple :
                       CASE p = "buffer"  -> m \in buffered
                         [] p = "waiting" -> InSeq(m, waiting)
                         [] p = "drain"   -> parked = m
                         [] p = "queue"   -> InSeq(m, divideq)
                         [] p = "work"    -> m \in work
                         [] p = "past"    -> fate[m] # "open"}
           Rs == {r \in Reactors : msg[r] = m}
           Ws == {t \in Workers : hand[t] = m}
<1>2. Places(m) = Plain \union Rs \union Ws
  BY DEF Places
<1>3. \A p \in Simple : p \in Plain <=> Is(p, m)
  BY DEF Is
<1>4. Simple \subseteq Kinds /\ Plain \subseteq Simple
  BY DEF Kinds
<1>5. (Rs # {} <=> Is("reactor", m)) /\ (Ws # {} <=> Is("worker", m))
  BY DEF Is
<1>6. m # None
  BY AdmissionAssumption
<1>7. (\A q, r \in Rs : q = r) /\ (\A t, u \in Ws : t = u)
  BY <1>6 DEF PlaceInv, NoTwins
<1>8. "reactor" \in Kinds \ Simple /\ "worker" \in Kinds \ Simple
  BY DEF Kinds
<1> HIDE DEF Plain, Rs, Ws, Simple
<1>9. CASE k \in Simple
  <2>1. Plain = {k} /\ Rs = {} /\ Ws = {}
    BY <1>1, <1>3, <1>4, <1>5, <1>8, <1>9
  <2>2. QED
    BY <1>2, <2>1, FS_Singleton
<1>10. CASE k = "reactor"
  <2>1. Plain = {} /\ Rs # {} /\ Ws = {}
    BY <1>1, <1>3, <1>4, <1>5, <1>8, <1>10
  <2>2. PICK r : r \in Rs
    BY <2>1
  <2>3. Rs = {r}
    BY <1>7, <2>2
  <2>4. QED
    BY <1>2, <2>1, <2>3, FS_Singleton
<1>11. CASE k = "worker"
  <2>1. Plain = {} /\ Rs = {} /\ Ws # {}
    BY <1>1, <1>3, <1>4, <1>5, <1>8, <1>11
  <2>2. PICK t : t \in Ws
    BY <2>1
  <2>3. Ws = {t}
    BY <1>7, <2>2
  <2>4. QED
    BY <1>2, <2>1, <2>3, FS_Singleton
<1>12. QED
  BY <1>9, <1>10, <1>11 DEF Kinds, Simple

---------------------------------------------------------------------------
(* Who has found the divide pool closed, or ended for it, has done so      *)
(* after it was closed.                                                    *)
RefusedInv ==
  /\ \A r \in Reactors : pc[r] \in {"closed", "give up"} => divide_closed
  /\ drain \in {"closed", "give up"} => divide_closed
  /\ \A m \in Msgs : fate[m] \in {"refused", "dropped"} => divide_closed

LEMMA RefusedStep == TypeOK /\ RefusedInv /\ [Next]_vars => RefusedInv'
<1> SUFFICES ASSUME TypeOK, RefusedInv, [Next]_vars PROVE RefusedInv'
  OBVIOUS
<1> ReactorTypes /\ RestTypes
  BY Parts
\* A thread that moves on, and a message that ends.
<1>1. ASSUME divide_closed' = divide_closed, UNCHANGED <<drain, fate>>,
             NEW r \in Reactors, NEW from, NEW to, Goto(r, from, to),
             to \in {"closed", "give up"} => divide_closed
      PROVE  RefusedInv'
  BY <1>1 DEF RefusedInv, Goto, ReactorTypes
<1>2. ASSUME divide_closed => divide_closed', UNCHANGED <<pc, drain, fate>> PROVE RefusedInv'
  BY <1>2 DEF RefusedInv
<1>3. ASSUME NEW r \in Reactors, OnMessage(r) PROVE RefusedInv'
  <2>1. PICK m \in Msgs, to \in {"count", "park"} : Offer(r, m, to)
    BY <1>3 DEF OnMessage, OnMessageFast, TryAcquire, TryAcquireFails
  <2>2. QED
    BY <1>1, <2>1 DEF Offer, parkVars, divideVars, workVars
<1>4. ASSUME NEW r \in Reactors, ReactorStep(r) PROVE RefusedInv'
  <2>1. CASE AddWaitingTask(r)
    BY <1>1, <2>1 DEF AddWaitingTask, divideVars, workVars
  <2>2. CASE WaitingNote(r)
    <3>1. drain' \in {"closed", "give up"} => drain' = drain
      BY <2>2 DEF WaitingNote, Notified
    <3>2. QED
      BY <2>2, <3>1 DEF RefusedInv, WaitingNote, Goto, ReactorTypes, divideVars, workVars
  <2>3. CASE TryPush(r)
    BY <1>1, <2>3 DEF TryPush, parkVars, workVars
  <2>4. CASE CountDown(r)
    <3>1. pc[r] = "closed" => divide_closed
      BY DEF RefusedInv
    <3>2. QED
      BY <1>1, <2>4, <3>1 DEF CountDown, Goto, parkVars, workVars
  <2>5. CASE GiveBack(r)
    <3>1. pc[r] = "give up" => divide_closed
      BY DEF RefusedInv
    <3>2. /\ \A q \in Reactors : pc'[q] \in {"closed", "give up"} => pc[q] \in {"closed", "give up"}
          /\ \A m \in Msgs : fate'[m] \in {"refused", "dropped"}
                               => fate[m] \in {"refused", "dropped"} \/ pc[r] = "give up"
      BY <2>5 DEF GiveBack, Goto, Ends, ReactorTypes, RestTypes
    <3>3. UNCHANGED <<divide_closed, drain>>
      BY <2>5 DEF GiveBack, parkVars, divideVars
    <3>4. QED
      BY <3>1, <3>2, <3>3 DEF RefusedInv
  <2>6. CASE CountUp(r) \/ ReactorExits(r)
    BY <1>1, <2>6 DEF CountUp, ReactorExits, parkVars, divideVars, workVars
  <2>7. QED
    BY <1>4, <2>1, <2>2, <2>3, <2>4, <2>5, <2>6 DEF ReactorStep
<1>5. CASE Drain
  <2>1. /\ drain' \in {"closed", "give up"} => divide_closed
        /\ divide_closed' = divide_closed /\ pc' = pc
    BY <1>5 DEF Drain, DrainTakes, DrainAcquires, DrainCounts, DrainPushes, DrainUncounts,
       DrainGivesUp, DrainResumes, DrainStep, RefusedInv, readVars, divideVars
  <2>2. \A m \in Msgs : fate'[m] \in {"refused", "dropped"}
                          => fate[m] \in {"refused", "dropped"} \/ drain = "give up"
    BY <1>5 DEF Drain, DrainTakes, DrainAcquires, DrainCounts, DrainPushes, DrainUncounts,
       DrainGivesUp, DrainResumes, DrainStep, Ends, RestTypes, workVars
  <2>3. QED
    BY <2>1, <2>2 DEF RefusedInv
<1>6. CASE GateNote \/ Spurious
  <2>1. /\ drain' \in {"closed", "give up"} => drain' = drain
        /\ UNCHANGED <<pc, divide_closed, fate>>
    BY <1>6 DEF GateNote, Spurious, Notified, readVars, divideVars, workVars
  <2>2. QED
    BY <2>1 DEF RefusedInv
<1>7. ASSUME NEW t \in Workers, Divide(t) PROVE RefusedInv'
  <2>1. /\ UNCHANGED <<pc, drain, divide_closed>>
        /\ \A m \in Msgs : fate'[m] \in {"refused", "dropped"} => fate'[m] = fate[m]
    BY <1>7 DEF Divide, DividePop, DivideExits, OnWork, DivideThrows, FinishTask, Ends, RestTypes,
       readVars, parkVars, workVars
  <2>2. QED
    BY <2>1 DEF RefusedInv
<1>8. ASSUME NEW m \in Msgs, WorkEnds(m) PROVE RefusedInv'
  <2>1. /\ UNCHANGED <<pc, drain, divide_closed>>
        /\ \A o \in Msgs : fate'[o] \in {"refused", "dropped"} => fate'[o] = fate[o]
    BY <1>8 DEF WorkEnds, Ends, RestTypes, readVars, parkVars, divideVars
  <2>2. QED
    BY <2>1 DEF RefusedInv
<1>9. CASE CloseDivide \/ Stopping
  <2>1. UNCHANGED <<pc, fate>> /\ (divide_closed => divide_closed')
    <3>1. CASE CloseDivide
      BY <3>1 DEF CloseDivide, readVars, workVars
    <3>2. CASE Stopping
      <4>1. UNCHANGED <<pc, fate, divide_closed>>
        BY <3>2 DEF Stopping, WaitIdle, CloseWork, StopReading, ReactorsJoined, CloseGate,
           GateNoteAll, StopWaiting, WaitingNoteAll, DrainJoined, readVars, divideVars, workVars
      <4>2. QED
        BY <4>1
    <3>3. QED
      BY <1>9, <3>1, <3>2
  <2>2. drain' \in {"closed", "give up"} => drain' = drain
    BY <1>9 DEF CloseDivide, Stopping, WaitIdle, CloseWork, StopReading, ReactorsJoined, CloseGate,
       GateNoteAll, StopWaiting, WaitingNoteAll, DrainJoined, Notified, parkVars
  <2>3. QED
    BY <2>1, <2>2 DEF RefusedInv
<1>10. CASE UNCHANGED vars
  BY <1>2, <1>10 DEF vars, readVars, parkVars, divideVars, workVars
<1>11. QED
  BY <1>3, <1>4, <1>5, <1>6, <1>7, <1>8, <1>9, <1>10 DEF Next

---------------------------------------------------------------------------
(* divide_pool's unfinished_tasks_ counts exactly the tasks that are being *)
(* pushed, are queued or are worked on.                                    *)
Pushers == {r \in Reactors : pc[r] \in {"push", "full", "closed"}}
Busy    == {t \in Workers : at[t] \in {"parse", "finish"}}
Draining == IF drain \in {"push", "closed"} THEN 1 ELSE 0

CountInv == unfinished = Cardinality(Pushers) + Draining + Len(divideq) + Cardinality(Busy)

LEMMA Numbers ==
  ASSUME TypeOK
  PROVE  /\ Cardinality(Pushers) \in Nat /\ IsFiniteSet(Pushers)
         /\ Cardinality(Busy) \in Nat /\ IsFiniteSet(Busy)
         /\ Draining \in Nat /\ Len(divideq) \in Nat /\ unfinished \in Int
<1>1. IsFiniteSet(Pushers) /\ IsFiniteSet(Busy)
  BY FS_Subset, AdmissionAssumption DEF Pushers, Busy
<1>2. Len(divideq) \in Nat /\ unfinished \in Int
  BY LenProperties DEF TypeOK
<1>3. QED
  BY <1>1, <1>2, FS_CardinalityType DEF Draining

(* A Reactor begins to count, stops to, or neither.                        *)
LEMMA PusherSteps ==
  ASSUME TypeOK, NEW r \in Reactors, NEW from, NEW to, Goto(r, from, to)
  PROVE  /\ from \notin {"push", "full", "closed"} /\ to \in {"push", "full", "closed"}
              => Cardinality(Pushers)' = Cardinality(Pushers) + 1
         /\ from \in {"push", "full", "closed"} /\ to \notin {"push", "full", "closed"}
              => Cardinality(Pushers)' = Cardinality(Pushers) - 1
         /\ (from \in {"push", "full", "closed"} <=> to \in {"push", "full", "closed"})
              => Cardinality(Pushers)' = Cardinality(Pushers)
<1> DEFINE S == {"push", "full", "closed"}
<1>1. \A q \in Reactors : pc'[q] = IF q = r THEN to ELSE pc[q]
  BY DEF Goto, TypeOK
<1>2. pc[r] = from
  BY DEF Goto
<1>3. from \notin S /\ to \in S => Pushers' = Pushers \union {r} /\ r \notin Pushers
  BY <1>1, <1>2 DEF Pushers
<1>4. from \in S /\ to \notin S => Pushers' = Pushers \ {r} /\ r \in Pushers
  BY <1>1, <1>2 DEF Pushers
<1>5. (from \in S <=> to \in S) => Pushers' = Pushers
  BY <1>1, <1>2 DEF Pushers
<1>6. QED
  BY <1>3, <1>4, <1>5, Numbers, FS_AddElement, FS_RemoveElement

LEMMA BusySteps ==
  ASSUME TypeOK, NEW t \in Workers, NEW from, NEW to, Step(t, from, to)
  PROVE  /\ from \notin {"parse", "finish"} /\ to \in {"parse", "finish"}
              => Cardinality(Busy)' = Cardinality(Busy) + 1
         /\ from \in {"parse", "finish"} /\ to \notin {"parse", "finish"}
              => Cardinality(Busy)' = Cardinality(Busy) - 1 /\ Cardinality(Busy) > 0
         /\ (from \in {"parse", "finish"} <=> to \in {"parse", "finish"})
              => Cardinality(Busy)' = Cardinality(Busy)
<1> DEFINE S == {"parse", "finish"}
<1>1. \A u \in Workers : at'[u] = IF u = t THEN to ELSE at[u]
  BY DEF Step, TypeOK
<1>2. at[t] = from
  BY DEF Step
<1>3. from \notin S /\ to \in S => Busy' = Busy \union {t} /\ t \notin Busy
  BY <1>1, <1>2 DEF Busy
<1>4. from \in S /\ to \notin S => Busy' = Busy \ {t} /\ t \in Busy
  BY <1>1, <1>2 DEF Busy
<1>5. (from \in S <=> to \in S) => Busy' = Busy
  BY <1>1, <1>2 DEF Busy
<1>6. /\ t \notin Busy => Cardinality(Busy \union {t}) = Cardinality(Busy) + 1
      /\ t \in Busy => Cardinality(Busy \ {t}) = Cardinality(Busy) - 1
                       /\ Cardinality(Busy \ {t}) \in Nat
  BY Numbers, FS_AddElement, FS_RemoveElement, FS_CardinalityType, FS_Difference
<1>7. from \in S /\ to \notin S => Cardinality(Busy)' = Cardinality(Busy) - 1 /\ Cardinality(Busy) > 0
  <2>1. SUFFICES ASSUME from \in S, to \notin S
                 PROVE  Cardinality(Busy)' = Cardinality(Busy) - 1 /\ Cardinality(Busy) > 0
    OBVIOUS
  <2>2. Busy' = Busy \ {t} /\ t \in Busy
    BY <1>4, <2>1
  <2>3. /\ Cardinality(Busy \ {t}) = Cardinality(Busy) - 1
        /\ Cardinality(Busy \ {t}) \in Nat /\ Cardinality(Busy) \in Nat
    BY <1>6, <2>2, Numbers
  <2>4. Cardinality(Busy) > 0
    BY <2>3
  <2>5. QED
    BY <2>2, <2>3, <2>4
<1>8. QED
  BY <1>3, <1>5, <1>6, <1>7

LEMMA QueueSteps ==
  ASSUME TypeOK
  PROVE  /\ \A m \in Msgs : Len(Append(divideq, m)) = Len(divideq) + 1
         /\ divideq # << >> => Len(Tail(divideq)) = Len(divideq) - 1
<1>1. divideq \in Seq(Msgs)
  BY DEF TypeOK
<1>2. \A m \in Msgs : Len(Append(divideq, m)) = Len(divideq) + 1
  BY <1>1, AppendProperties
<1>3. divideq # << >> => Len(Tail(divideq)) = Len(divideq) - 1
  BY <1>1, HeadTailProperties
<1>4. QED
  BY <1>2, <1>3

LEMMA CountStep == TypeOK /\ CountInv /\ [Next]_vars => CountInv'
<1> SUFFICES ASSUME TypeOK, CountInv, [Next]_vars PROVE CountInv'
  OBVIOUS
<1>0. /\ Cardinality(Pushers) \in Nat /\ Cardinality(Busy) \in Nat
      /\ Draining \in Nat /\ Len(divideq) \in Nat /\ unfinished \in Int
      /\ unfinished = Cardinality(Pushers) + Draining + Len(divideq) + Cardinality(Busy)
  BY Numbers DEF CountInv
<1>a. ReactorTypes /\ DrainTypes
  BY Parts
<1>1. ASSUME NEW r \in Reactors, OnMessage(r) PROVE CountInv'
  <2>1. PICK m \in Msgs, to \in {"count", "park"} : Offer(r, m, to)
    BY <1>1 DEF OnMessage, OnMessageFast, TryAcquire, TryAcquireFails
  <2>2. Cardinality(Pushers)' = Cardinality(Pushers)
    BY <2>1, PusherSteps DEF Offer
  <2>3. Draining' = Draining /\ Cardinality(Busy)' = Cardinality(Busy)
        /\ divideq' = divideq /\ unfinished' = unfinished
    BY <2>1 DEF Offer, parkVars, divideVars, Draining, Busy
  <2>4. QED
    BY <1>0, <2>2, <2>3 DEF CountInv
<1>2. ASSUME NEW r \in Reactors, ReactorStep(r) PROVE CountInv'
  <2>1. CASE AddWaitingTask(r) \/ WaitingNote(r) \/ GiveBack(r) \/ ReactorExits(r)
    <3>1. PICK from \in {"park", "note", "give back", "give up", "idle"},
               to \in {"idle", "note", "exited"} : Goto(r, from, to)
      BY <2>1 DEF AddWaitingTask, WaitingNote, GiveBack, ReactorExits
    <3>2. Cardinality(Pushers)' = Cardinality(Pushers)
      BY <3>1, PusherSteps
    <3>3. Draining' = Draining /\ UNCHANGED <<divideq, unfinished, at>>
      BY <2>1 DEF AddWaitingTask, WaitingNote, GiveBack, ReactorExits, Notified, parkVars,
         divideVars, Draining
    <3>4. Cardinality(Busy)' = Cardinality(Busy)
      BY <3>3 DEF Busy
    <3>5. QED
      BY <1>0, <3>2, <3>3, <3>4 DEF CountInv
  <2>2. CASE CountUp(r)
    <3>1. Goto(r, "count", "push") /\ unfinished' = unfinished + 1 /\ UNCHANGED <<divideq, at, drain>>
      BY <2>2 DEF CountUp, parkVars
    <3>2. Cardinality(Pushers)' = Cardinality(Pushers) + 1
      BY <3>1, PusherSteps
    <3>3. Draining' = Draining /\ Cardinality(Busy)' = Cardinality(Busy) /\ Len(divideq)' = Len(divideq)
      BY <3>1 DEF Draining, Busy
    <3>4. QED
      BY <1>0, <3>1, <3>2, <3>3 DEF CountInv
  <2>3. CASE TryPush(r)
    <3>1. unfinished' = unfinished /\ UNCHANGED <<at, drain>> /\ pc[r] = "push" /\ msg[r] \in Msgs
      BY <1>a, <2>3, AdmissionAssumption DEF TryPush, Goto, parkVars, ReactorTypes
    <3>2. Draining' = Draining /\ Cardinality(Busy)' = Cardinality(Busy)
      BY <3>1 DEF Draining, Busy
    <3>3. CASE Goto(r, "push", "idle") /\ divideq' = Append(divideq, msg[r])
      <4>1. Cardinality(Pushers)' = Cardinality(Pushers) - 1
        BY <3>3, PusherSteps
      <4>2. Len(divideq)' = Len(divideq) + 1
        BY <3>1, <3>3, QueueSteps
      <4>3. unfinished' = unfinished
        BY <3>1
      <4>4. QED
        BY <1>0, <3>2, <4>1, <4>2, <4>3 DEF CountInv
    <3>4. CASE /\ Goto(r, "push", "closed") \/ Goto(r, "push", "full")
               /\ divideq' = divideq
      <4>1. Cardinality(Pushers)' = Cardinality(Pushers)
        BY <3>4, PusherSteps
      <4>2. Len(divideq)' = Len(divideq) /\ unfinished' = unfinished
        BY <3>1, <3>4
      <4>3. QED
        BY <1>0, <3>2, <4>1, <4>2 DEF CountInv
    <3>5. QED
      BY <2>3, <3>3, <3>4 DEF TryPush
  <2>4. CASE CountDown(r)
    <3>1. unfinished' = unfinished - 1 /\ UNCHANGED <<divideq, at, drain>>
      BY <2>4 DEF CountDown, parkVars
    <3>2. Cardinality(Pushers)' = Cardinality(Pushers) - 1
      <4>1. PICK from \in {"full", "closed"}, to \in {"give back", "give up"} : Goto(r, from, to)
        BY <2>4 DEF CountDown
      <4>2. QED
        BY <4>1, PusherSteps
    <3>3. Draining' = Draining /\ Cardinality(Busy)' = Cardinality(Busy) /\ Len(divideq)' = Len(divideq)
      BY <3>1 DEF Draining, Busy
    <3>4. QED
      BY <1>0, <3>1, <3>2, <3>3 DEF CountInv
  <2>5. QED
    BY <1>2, <2>1, <2>2, <2>3, <2>4 DEF ReactorStep
<1>3. CASE Drain
  <2>0. Cardinality(Pushers)' = Cardinality(Pushers) /\ Cardinality(Busy)' = Cardinality(Busy)
    <3>1. pc' = pc /\ at' = at
      BY <1>3 DEF Drain, DrainTakes, DrainAcquires, DrainCounts, DrainPushes, DrainUncounts,
         DrainGivesUp, DrainResumes, readVars, divideVars
    <3>2. QED
      BY <3>1 DEF Pushers, Busy
  <2>1. CASE DrainTakes \/ DrainAcquires \/ DrainGivesUp \/ DrainResumes
    <3>1. Draining = 0 /\ Draining' = 0 /\ UNCHANGED <<divideq, unfinished>>
      BY <2>1 DEF DrainTakes, DrainAcquires, DrainGivesUp, DrainResumes, DrainStep, Draining,
         divideVars
    <3>2. QED
      BY <1>0, <2>0, <3>1 DEF CountInv
  <2>2. CASE DrainCounts
    <3>1. Draining = 0 /\ Draining' = 1 /\ divideq' = divideq /\ unfinished' = unfinished + 1
      BY <2>2 DEF DrainCounts, DrainStep, Draining
    <3>2. QED
      BY <1>0, <2>0, <3>1 DEF CountInv
  <2>3. CASE DrainPushes
    <3>1. Draining = 1 /\ unfinished' = unfinished /\ parked \in Msgs
      BY <1>a, <2>3 DEF DrainPushes, DrainStep, Draining, DrainTypes
    <3>2. \/ Draining' = 0 /\ divideq' = Append(divideq, parked)
          \/ Draining' = 1 /\ divideq' = divideq
      BY <2>3 DEF DrainPushes, DrainStep, Draining
    <3>3. \/ Draining' = 0 /\ Len(divideq)' = Len(divideq) + 1
          \/ Draining' = 1 /\ Len(divideq)' = Len(divideq)
      BY <3>1, <3>2, QueueSteps
    <3>4. QED
      BY <1>0, <2>0, <3>1, <3>3 DEF CountInv
  <2>4. CASE DrainUncounts
    <3>1. Draining = 1 /\ Draining' = 0 /\ divideq' = divideq /\ unfinished' = unfinished - 1
      BY <2>4 DEF DrainUncounts, DrainStep, Draining
    <3>2. QED
      BY <1>0, <2>0, <3>1 DEF CountInv
  <2>5. QED
    BY <1>3, <2>1, <2>2, <2>3, <2>4 DEF Drain
<1>4. ASSUME NEW t \in Workers, Divide(t) PROVE CountInv'
  <2>0. Cardinality(Pushers)' = Cardinality(Pushers) /\ Draining' = Draining
    <3>1. pc' = pc /\ drain' = drain
      BY <1>4 DEF Divide, DividePop, DivideExits, OnWork, DivideThrows, FinishTask, readVars, parkVars
    <3>2. QED
      BY <3>1 DEF Pushers, Draining
  <2>1. CASE DividePop(t)
    <3>1. Step(t, "idle", "parse") /\ Len(divideq)' = Len(divideq) - 1 /\ unfinished' = unfinished
      BY <2>1, QueueSteps DEF DividePop
    <3>2. Cardinality(Busy)' = Cardinality(Busy) + 1
      BY <3>1, BusySteps
    <3>3. QED
      BY <1>0, <2>0, <3>1, <3>2 DEF CountInv
  <2>2. CASE DivideExits(t) \/ OnWork(t) \/ DivideThrows(t)
    <3>1. UNCHANGED <<divideq, unfinished>> /\ (Step(t, "idle", "exited") \/ Step(t, "parse", "finish"))
      BY <2>2 DEF DivideExits, OnWork, DivideThrows
    <3>2. Cardinality(Busy)' = Cardinality(Busy)
      BY <3>1, BusySteps
    <3>3. QED
      BY <1>0, <2>0, <3>1, <3>2 DEF CountInv
  <2>3. CASE FinishTask(t)
    <3>1. /\ Step(t, "finish", "idle") /\ Len(divideq)' = Len(divideq)
          /\ unfinished' = IF unfinished > 0 THEN unfinished - 1 ELSE unfinished
      BY <2>3 DEF FinishTask
    <3>2. Cardinality(Busy)' = Cardinality(Busy) - 1 /\ Cardinality(Busy) > 0
      BY <3>1, BusySteps
    <3>3. unfinished' = unfinished - 1
      BY <1>0, <3>1, <3>2
    <3>4. QED
      BY <1>0, <2>0, <3>1, <3>2, <3>3 DEF CountInv
  <2>4. QED
    BY <1>4, <2>1, <2>2, <2>3 DEF Divide
<1>5. CASE \/ GateNote \/ Spurious \/ (\E m \in Msgs : WorkEnds(m)) \/ CloseDivide \/ Stopping
           \/ UNCHANGED vars
  <2>1. Draining' = Draining
    BY <1>5 DEF GateNote, Spurious, WorkEnds, CloseDivide, Stopping, WaitIdle, CloseWork, StopReading,
       ReactorsJoined, CloseGate, GateNoteAll, StopWaiting, WaitingNoteAll, DrainJoined, Notified,
       vars, parkVars, Draining
  <2>2. UNCHANGED <<pc, at, divideq, unfinished>>
    BY <1>5 DEF GateNote, Spurious, WorkEnds, CloseDivide, Stopping, WaitIdle, CloseWork, StopReading,
       ReactorsJoined, CloseGate, GateNoteAll, StopWaiting, WaitingNoteAll, DrainJoined,
       vars, readVars, divideVars
  <2>3. Pushers' = Pushers /\ Busy' = Busy
    BY <2>2 DEF Pushers, Busy
  <2>4. QED
    BY <1>0, <2>1, <2>2, <2>3 DEF CountInv
<1>6. QED
  BY <1>1, <1>2, <1>3, <1>4, <1>5 DEF Next

---------------------------------------------------------------------------
(* What Server::stop knows when it goes on: the divide pool takes nothing  *)
(* more, and unless wait_idle gave up it has nothing left, so that nobody  *)
(* finds the work pool closed.                                             *)
Later == Stages \ {"up", "divide wait", "work"}
Drained == divideq = << >> /\ \A t \in Workers : at[t] # "parse"
StopInv ==
  /\ stage # "up" => divide_closed
  /\ gave_up => stage \notin {"up", "divide wait"}
  /\ work_closed => stage \in Later
  /\ stage \notin {"up", "divide wait"} /\ ~gave_up => Drained
  /\ \A m \in Msgs : fate[m] = "lost" => gave_up

LEMMA IdleIsDrained ==
  ASSUME TypeOK, CountInv, unfinished = 0
  PROVE  Drained
<1>1. Len(divideq) = 0 /\ Cardinality(Busy) = 0 /\ IsFiniteSet(Busy)
  BY Numbers DEF CountInv
<1>2. Busy = {}
  BY <1>1, FS_EmptySet
<1>3. divideq = << >>
  BY <1>1, EmptySeq DEF TypeOK
<1>4. QED
  BY <1>2, <1>3 DEF Busy, Drained

\* A closed pool that is drained stays so.
LEMMA StaysDrained ==
  ASSUME TypeOK, Drained, divide_closed, [Next]_vars
  PROVE  Drained'
<1>1. ASSUME NEW r \in Reactors, OnMessage(r) PROVE Drained'
  BY <1>1 DEF OnMessage, OnMessageFast, TryAcquire, TryAcquireFails, Offer, divideVars, Drained
<1>2. ASSUME NEW r \in Reactors, ReactorStep(r) PROVE Drained'
  BY <1>2 DEF ReactorStep, AddWaitingTask, WaitingNote, CountUp, TryPush, CountDown, GiveBack,
     ReactorExits, divideVars, Drained
<1>3. CASE Drain
  BY <1>3 DEF Drain, DrainTakes, DrainAcquires, DrainCounts, DrainPushes, DrainUncounts,
     DrainGivesUp, DrainResumes, divideVars, Drained
<1>4. ASSUME NEW t \in Workers, Divide(t) PROVE Drained'
  <2>1. divideq' = divideq /\ \A u \in Workers : at'[u] = at[u] \/ at'[u] # "parse"
    BY <1>4 DEF Divide, DividePop, DivideExits, OnWork, DivideThrows, FinishTask, Step, TypeOK,
       Drained
  <2>2. QED
    BY <2>1 DEF Drained
<1>5. CASE \/ GateNote \/ Spurious \/ (\E m \in Msgs : WorkEnds(m)) \/ CloseDivide \/ Stopping
           \/ UNCHANGED vars
  <2>1. UNCHANGED <<divideq, at>>
    BY <1>5 DEF GateNote, Spurious, WorkEnds, CloseDivide, Stopping, WaitIdle, CloseWork, StopReading,
       ReactorsJoined, CloseGate, GateNoteAll, StopWaiting, WaitingNoteAll, DrainJoined,
       vars, divideVars
  <2>2. QED
    BY <2>1 DEF Drained
<1>6. QED
  BY <1>1, <1>2, <1>3, <1>4, <1>5 DEF Next

LEMMA StopStep == TypeOK /\ CountInv /\ StopInv /\ [Next]_vars => StopInv'
<1> SUFFICES ASSUME TypeOK, CountInv, StopInv, [Next]_vars PROVE StopInv'
  OBVIOUS
<1> RestTypes
  BY Parts
\* Everybody but stop itself and a worker that finds the work pool closed.
<1>1. ASSUME UNCHANGED <<stage, gave_up, work_closed, divide_closed>>,
             \A m \in Msgs : fate'[m] = "lost" => fate[m] = "lost"
      PROVE  StopInv'
  <2>1. stage \notin {"up", "divide wait"} /\ ~gave_up => Drained'
    BY StaysDrained DEF StopInv
  <2>2. QED
    BY <1>1, <2>1 DEF StopInv
<1>2. ASSUME NEW r \in Reactors, OnMessage(r) \/ ReactorStep(r) PROVE StopInv'
  <2>1. /\ UNCHANGED <<stage, gave_up, work_closed, divide_closed>>
        /\ \A m \in Msgs : fate'[m] = "lost" => fate[m] = "lost"
    BY <1>2 DEF OnMessage, OnMessageFast, TryAcquire, TryAcquireFails, Offer,
       ReactorStep, AddWaitingTask, WaitingNote, CountUp, TryPush, CountDown, GiveBack,
       ReactorExits, Ends, RestTypes, divideVars, workVars, stopVars
  <2>2. QED
    BY <1>1, <2>1
<1>3. CASE GateNote \/ Spurious \/ Drain \/ (\E m \in Msgs : WorkEnds(m)) \/ UNCHANGED vars
  <2>1. /\ UNCHANGED <<stage, gave_up, work_closed, divide_closed>>
        /\ \A m \in Msgs : fate'[m] = "lost" => fate[m] = "lost"
    BY <1>3 DEF GateNote, Spurious, WorkEnds, Drain, DrainTakes, DrainAcquires, DrainCounts,
       DrainPushes, DrainUncounts, DrainGivesUp, DrainResumes, Ends, RestTypes, vars, divideVars,
       workVars, stopVars
  <2>2. QED
    BY <1>1, <2>1
<1>4. ASSUME NEW t \in Workers, Divide(t) PROVE StopInv'
  <2>1. UNCHANGED <<stage, gave_up, work_closed, divide_closed>>
    BY <1>4 DEF Divide, DividePop, DivideExits, OnWork, DivideThrows, FinishTask, divideVars,
       workVars, stopVars
  <2>2. ASSUME NEW m \in Msgs, fate'[m] = "lost", fate[m] # "lost" PROVE gave_up
    <3>1. work_closed /\ at[t] = "parse"
      BY <1>4, <2>2 DEF Divide, DividePop, DivideExits, OnWork, DivideThrows, FinishTask, Ends,
         Step, RestTypes, workVars
    <3>2. stage \notin {"up", "divide wait"} /\ ~Drained
      BY <3>1 DEF StopInv, Later, Drained
    <3>3. QED
      BY <3>2 DEF StopInv
  <2>3. stage \notin {"up", "divide wait"} /\ ~gave_up => Drained'
    BY StaysDrained DEF StopInv
  <2>4. QED
    BY <2>1, <2>2, <2>3 DEF StopInv
<1>5. CASE CloseDivide
  <2>1. /\ stage = "up" /\ stage' = "divide wait" /\ divide_closed'
        /\ UNCHANGED <<gave_up, work_closed, fate>>
    BY <1>5 DEF CloseDivide, Stage, workVars
  <2>2. QED
    BY <2>1 DEF StopInv, Later
<1>6. CASE WaitIdle
  <2>1. /\ stage = "divide wait" /\ stage' \in {"divide wait", "work"}
        /\ UNCHANGED <<unfinished, divideq, at, divide_closed, work_closed, fate>>
        /\ stage' = "work" => (gave_up' = (unfinished # 0)) \/ (unfinished = 0 /\ gave_up' = gave_up)
        /\ stage' = "divide wait" => gave_up' = gave_up
    BY <1>6 DEF WaitIdle, divideVars, workVars
  <2>2. unfinished = 0 => Drained'
    BY <2>1, IdleIsDrained DEF Drained
  <2>3. ~gave_up /\ ~work_closed /\ divide_closed /\ \A m \in Msgs : fate[m] # "lost"
    BY <2>1 DEF StopInv, Later
  <2>4. stage' \notin {"up", "divide wait"} /\ ~gave_up' => Drained'
    BY <2>1, <2>2
  <2>5. gave_up' => stage' \notin {"up", "divide wait"}
    BY <2>1, <2>3
  <2>6. QED
    BY <2>1, <2>3, <2>4, <2>5 DEF StopInv
<1>7. CASE Stopping /\ ~WaitIdle
  <2>1. /\ UNCHANGED <<gave_up, divide_closed, fate, divideq, at>>
        /\ stage \notin {"up", "divide wait"} /\ stage' \in Later
    BY <1>7 DEF Stopping, CloseWork, StopReading, ReactorsJoined, CloseGate,
       GateNoteAll, StopWaiting, WaitingNoteAll, DrainJoined, Stage, Later, Stages, divideVars, workVars
  <2>2. Drained' <=> Drained
    BY <2>1 DEF Drained
  <2>3. stage' \notin {"up", "divide wait"}
    BY <2>1 DEF Later
  <2>4. QED
    BY <2>1, <2>2, <2>3 DEF StopInv
<1>8. QED
  BY <1>2, <1>3, <1>4, <1>5, <1>6, <1>7 DEF Next

LEMMA StopHolds == Spec => [](RefusedInv /\ CountInv /\ StopInv)
<1>1. Init => RefusedInv
  BY DEF Init, RefusedInv
<1>2. Init => CountInv
  <2>1. Init => Pushers = {} /\ Busy = {} /\ Draining = 0 /\ unfinished = 0
    BY DEF Init, Pushers, Busy, Draining
  <2>2. Init => Len(divideq) = 0
    BY DEF Init
  <2>3. Cardinality({}) = 0 /\ 0 = 0 + 0 + 0 + 0
    BY FS_EmptySet
  <2>4. QED
    BY <2>1, <2>2, <2>3 DEF CountInv
<1>3. Init => StopInv
  BY DEF Init, StopInv, Stages
<1>4. QED
  BY <1>1, <1>2, <1>3, RefusedStep, CountStep, StopStep, TypeCorrect, PTL DEF Spec

(* A message is always in one place, ends unserved only once the divide    *)
(* pool is closed, and what that accepted finds the work pool open unless  *)
(* wait_idle gave up.                                                      *)
LEMMA NoMessageIsLost == Spec => []AcceptedReachesWork
<1>1. TypeOK /\ PlaceInv /\ RefusedInv /\ StopInv => AcceptedReachesWork
  BY InOnePlace DEF AcceptedReachesWork, RefusedInv, StopInv
<1>2. QED
  BY <1>1, TypeCorrect, PlaceHolds, StopHolds, PTL

---------------------------------------------------------------------------
(* Credits.                                                                *)
Charged(m) == \/ \E r \in Reactors : msg[r] = m /\ pc[r] # "park"
              \/ parked = m /\ drain \in {"count", "push", "closed", "give up"}
              \/ InSeq(m, divideq) \/ \E t \in Workers : hand[t] = m
              \/ m \in work \/ fate[m] \in {"thrown", "lost"}

WithReactor(m) == \E r \in Reactors : msg[r] = m /\ pc[r] # "park"
WithDrain(m)   == parked = m /\ drain \in {"count", "push", "closed", "give up"}
WithWorker(m)  == \E t \in Workers : hand[t] = m

LEMMA StillCharged ==
  ASSUME NEW m,
         WithReactor(m)' <=> WithReactor(m), WithDrain(m)' <=> WithDrain(m),
         WithWorker(m)' <=> WithWorker(m), divideq' = divideq,
         m \in work' <=> m \in work, fate'[m] = fate[m]
  PROVE  Charged(m)' <=> Charged(m)
BY DEF Charged, WithReactor, WithDrain, WithWorker, InSeq

LEMMA CreditedAreCharged ==
  /\ Credited = {m \in DB : Charged(m)}
  /\ Credited' = {m \in DB : Charged(m)'}
  /\ IsFiniteSet(Credited) /\ Cardinality(Credited) \in Nat
<1>1. IsFiniteSet(DB)
  BY FS_Subset, AdmissionAssumption DEF DB
<1>2. IsFiniteSet(Credited)
  BY <1>1, FS_Subset DEF Credited
<1>3. QED
  BY <1>2, FS_CardinalityType DEF Credited, Charged

(* Who has no credit: a message that is not yet admitted, or is through.   *)
LEMMA NotCharged ==
  ASSUME OnePlace, NEW m \in Msgs,
         \/ Is("buffer", m) \/ Is("waiting", m)
         \/ Is("past", m) /\ fate[m] \notin {"thrown", "lost"}
         \/ Is("drain", m) /\ drain \notin {"count", "push", "closed", "give up"}
  PROVE  ~Charged(m)
<1>1. PICK k \in Kinds : \A j \in Kinds : Is(j, m) <=> j = k
  BY DEF OnePlace
<1>2. k \in {"buffer", "waiting", "past", "drain"}
  BY <1>1 DEF Kinds
<1>3. ~Is("reactor", m) /\ ~Is("queue", m) /\ ~Is("worker", m) /\ ~Is("work", m)
  BY <1>1, <1>2 DEF Kinds
<1>4. /\ Is("drain", m) => k = "drain"
      /\ Is("past", m) => k = "past"
      /\ Is("buffer", m) => k = "buffer"
      /\ Is("waiting", m) => k = "waiting"
  BY <1>1 DEF Kinds
<1>5. /\ fate[m] \in {"thrown", "lost"} => Is("past", m)
      /\ parked = m => Is("drain", m)
  BY DEF Is
<1>6. fate[m] \notin {"thrown", "lost"}
      /\ ~(parked = m /\ drain \in {"count", "push", "closed", "give up"})
  BY <1>4, <1>5
<1>7. QED
  BY <1>3, <1>6 DEF Charged, Is

LEMMA NotChargedNext ==
  ASSUME OnePlace', NEW m \in Msgs,
         \/ m \in buffered'
         \/ fate'[m] # "open" /\ fate'[m] \notin {"thrown", "lost"}
  PROVE  ~Charged(m)'
<1>1. PICK k \in Kinds : \A j \in Kinds : Is(j, m)' <=> j = k
  BY DEF OnePlace
<1>2. Is("buffer", m)' \/ (Is("past", m)' /\ fate'[m] \notin {"thrown", "lost"})
  BY DEF Is
<1>3. k = "buffer" \/ (k = "past" /\ fate'[m] \notin {"thrown", "lost"})
  BY <1>1, <1>2 DEF Kinds
<1>4. /\ ~Is("reactor", m)' /\ ~Is("drain", m)' /\ ~Is("queue", m)' /\ ~Is("worker", m)'
      /\ ~Is("work", m)' /\ (Is("past", m)' => k = "past")
  BY <1>1, <1>3 DEF Kinds
<1>5. QED
  BY <1>3, <1>4 DEF Charged, Is

LEMMA CreditKept ==
  ASSUME CreditsAreExact, available' = available, closed' = closed,
         \A m \in DB : Charged(m)' <=> Charged(m)
  PROVE  CreditsAreExact'
<1>1. Credited' = Credited
  BY CreditedAreCharged
<1>2. QED
  BY <1>1 DEF CreditsAreExact

LEMMA CreditTaken ==
  ASSUME CreditsAreExact, GateTypes, NEW m \in DB, ~Charged(m),
         available' = available - 1, closed' = closed,
         \A o \in DB : Charged(o)' <=> Charged(o) \/ o = m
  PROVE  CreditsAreExact'
<1>1. Credited' = Credited \union {m} /\ m \notin Credited
  BY CreditedAreCharged
<1>2. Cardinality(Credited)' = Cardinality(Credited) + 1 /\ Cardinality(Credited) \in Nat
  BY <1>1, CreditedAreCharged, FS_AddElement
<1>3. available \in Nat /\ CreditLimit \in Nat
  BY AdmissionAssumption DEF GateTypes
<1>4. QED
  BY <1>2, <1>3 DEF CreditsAreExact

LEMMA CreditGiven ==
  ASSUME CreditsAreExact, GateTypes, NEW m \in Msgs, Charged(m), Release(m), closed' = closed,
         \A o \in DB : Charged(o)' <=> Charged(o) /\ o # m
  PROVE  CreditsAreExact'
<1>1. CASE m \notin DB
  <2>1. available' = available /\ \A o \in DB : Charged(o)' <=> Charged(o)
    BY <1>1 DEF Release
  <2>2. QED
    BY <2>1, CreditKept
<1>2. CASE m \in DB /\ ~closed
  <2>1. Credited' = Credited \ {m} /\ m \in Credited
    BY <1>2, CreditedAreCharged
  <2>2. /\ Cardinality(Credited)' = Cardinality(Credited) - 1 /\ Cardinality(Credited) \in Nat
        /\ Cardinality(Credited)' \in Nat
    BY <2>1, CreditedAreCharged, FS_RemoveElement, FS_CardinalityType, FS_Difference
  <2>3. available \in Nat /\ CreditLimit \in Nat
    BY AdmissionAssumption DEF GateTypes
  <2>4. available + Cardinality(Credited) = CreditLimit
    BY <1>2 DEF CreditsAreExact
  <2>5. available < CreditLimit
    BY <2>2, <2>3, <2>4
  <2>6. available' = available + 1
    BY <1>2, <2>5 DEF Release
  <2>7. QED
    BY <2>2, <2>3, <2>4, <2>6 DEF CreditsAreExact
<1>3. CASE closed
  BY <1>3 DEF CreditsAreExact
<1>4. QED
  BY <1>1, <1>2, <1>3

(* Only messages that need a credit wait for one.                          *)
ParkInv ==
  /\ \A r \in Reactors : pc[r] = "park" => msg[r] \in DB
  /\ \A m \in Msgs : InSeq(m, waiting) \/ parked = m => m \in DB

LEMMA ParkStep ==
  ASSUME TypeOK, PlaceInv, ParkInv, [Next]_vars
  PROVE  ParkInv'
<1> ReactorTypes /\ DrainTypes
  BY Parts
<1>a. None \notin Msgs
  BY AdmissionAssumption
<1>b. Single(waiting) /\ waiting \in Seq(Msgs)
  BY DEF PlaceInv, NoTwins, DrainTypes
<1>0. ASSUME UNCHANGED <<pc, msg>>,
             \A m \in Msgs : InSeq(m, waiting') \/ parked' = m => InSeq(m, waiting) \/ parked = m
      PROVE  ParkInv'
  BY <1>0 DEF ParkInv, InSeq
<1>1. ASSUME NEW r \in Reactors, OnMessage(r) PROVE ParkInv'
  <2>1. PICK m \in Msgs, to \in {"count", "park"} : Offer(r, m, to) /\ (to = "park" => m \in DB)
    BY <1>1 DEF OnMessage, OnMessageFast, TryAcquire, TryAcquireFails
  <2>2. /\ \A q \in Reactors : /\ msg'[q] = IF q = r THEN m ELSE msg[q]
                               /\ pc'[q] = IF q = r THEN to ELSE pc[q]
        /\ UNCHANGED <<waiting, parked>>
    BY <2>1 DEF Offer, Goto, ReactorTypes, parkVars
  <2>3. QED
    BY <2>1, <2>2 DEF ParkInv, InSeq
<1>2. ASSUME NEW r \in Reactors, ReactorStep(r) PROVE ParkInv'
  <2>1. /\ \A q \in Reactors : pc'[q] = "park" => pc[q] = "park" /\ msg'[q] = msg[q]
        /\ parked' = parked
    BY <1>2 DEF ReactorStep, AddWaitingTask, WaitingNote, CountUp, TryPush, CountDown, GiveBack,
       ReactorExits, Goto, ReactorTypes, parkVars
  <2>2. CASE waiting' = waiting
    BY <2>1, <2>2 DEF ParkInv, InSeq
  <2>3. CASE waiting' # waiting
    <3>1. waiting' = Append(waiting, msg[r]) /\ msg[r] \in DB /\ msg[r] \in Msgs
      BY <1>2, <1>a, <2>3 DEF ReactorStep, AddWaitingTask, WaitingNote, CountUp, TryPush, CountDown,
         GiveBack, ReactorExits, Goto, ReactorTypes, parkVars, ParkInv
    <3>2. ~InSeq(msg[r], waiting)
      <4>1. Is("reactor", msg[r])
        BY DEF Is
      <4>2. ~Is("waiting", msg[r])
        BY <3>1, <4>1, Elsewhere DEF Kinds, PlaceInv
      <4>3. QED
        BY <4>2 DEF Is
    <3>3. \A m : InSeq(m, waiting') <=> InSeq(m, waiting) \/ m = msg[r]
      BY <1>b, <3>1, <3>2, PutLast
    <3>4. \A m \in Msgs : InSeq(m, waiting)' <=> InSeq(m, waiting) \/ m = msg[r]
      BY <3>3 DEF InSeq
    <3>5. QED
      BY <2>1, <3>1, <3>4 DEF ParkInv
  <2>4. QED
    BY <2>2, <2>3
<1>3. CASE Drain
  <2>0. UNCHANGED <<pc, msg>>
    BY <1>3 DEF Drain, DrainTakes, DrainAcquires, DrainCounts, DrainPushes, DrainUncounts,
       DrainGivesUp, DrainResumes, readVars
  <2>1. CASE DrainTakes
    <3>1. CASE waiting # << >> /\ parked' = Head(waiting) /\ waiting' = Tail(waiting)
      <4>1. /\ InSeq(Head(waiting), waiting)
            /\ \A o : InSeq(o, waiting') <=> InSeq(o, waiting) /\ o # Head(waiting)
        BY <1>b, <3>1, TakeFirst
      <4>2. \A m \in Msgs : InSeq(m, waiting') \/ parked' = m => InSeq(m, waiting) \/ parked = m
        BY <3>1, <4>1
      <4>3. QED
        BY <1>0, <2>0, <4>2
    <3>2. CASE UNCHANGED <<waiting, parked>>
      BY <1>0, <2>0, <3>2
    <3>3. QED
      BY <2>1, <3>1, <3>2 DEF DrainTakes
  <2>2. CASE DrainAcquires
    <3>1. CASE drain = "acquire" /\ waiting' = <<parked>> \o waiting /\ parked' = None
      <4>1. parked \in Msgs
        BY <3>1 DEF DrainTypes
      <4>2. ~InSeq(parked, waiting)
        <5>1. Is("drain", parked)
          BY DEF Is
        <5>2. ~Is("waiting", parked)
          BY <4>1, <5>1, Elsewhere DEF Kinds, PlaceInv
        <5>3. QED
          BY <5>2 DEF Is
      <4>3. \A o : InSeq(o, waiting') <=> InSeq(o, waiting) \/ o = parked
        BY <1>b, <3>1, <4>1, <4>2, PutFirst
      <4>4. \A m \in Msgs : InSeq(m, waiting') \/ parked' = m => InSeq(m, waiting) \/ parked = m
        BY <1>a, <3>1, <4>3
      <4>5. QED
        BY <1>0, <2>0, <4>4
    <3>2. CASE UNCHANGED <<waiting, parked>>
      BY <1>0, <2>0, <3>2
    <3>3. QED
      BY <2>2, <3>1, <3>2 DEF DrainAcquires, DrainStep
  <2>3. CASE DrainCounts \/ DrainPushes \/ DrainUncounts \/ DrainGivesUp \/ DrainResumes
    <3>1. waiting' = waiting /\ parked' \in {parked, None}
      BY <2>3 DEF DrainCounts, DrainPushes, DrainUncounts, DrainGivesUp, DrainResumes
    <3>2. \A m \in Msgs : InSeq(m, waiting') \/ parked' = m => InSeq(m, waiting) \/ parked = m
      BY <1>a, <3>1
    <3>3. QED
      BY <1>0, <2>0, <3>2
  <2>4. QED
    BY <1>3, <2>1, <2>2, <2>3 DEF Drain
<1>4. CASE \/ \E t \in Workers : Divide(t)
           \/ GateNote \/ Spurious \/ (\E m \in Msgs : WorkEnds(m)) \/ CloseDivide \/ Stopping
           \/ UNCHANGED vars
  <2>1. UNCHANGED <<pc, msg, waiting, parked>>
    BY <1>4 DEF Divide, DividePop, DivideExits, OnWork, DivideThrows, FinishTask,
       GateNote, Spurious, WorkEnds, CloseDivide, Stopping, WaitIdle, CloseWork, StopReading,
       ReactorsJoined, CloseGate, GateNoteAll, StopWaiting, WaitingNoteAll, DrainJoined,
       vars, readVars, parkVars
  <2>2. QED
    BY <1>0, <2>1
<1>5. QED
  BY <1>1, <1>2, <1>3, <1>4 DEF Next

LEMMA CreditStep ==
  ASSUME TypeOK, PlaceInv, PlaceInv', ParkInv, CreditsAreExact, [Next]_vars
  PROVE  CreditsAreExact'
<1> ReactorTypes /\ GateTypes /\ DrainTypes /\ DivideTypes /\ RestTypes
  BY Parts
<1>a. None \notin Msgs /\ DB \subseteq Msgs
  BY AdmissionAssumption DEF DB
<1>1. ASSUME NEW r \in Reactors, OnMessage(r) PROVE CreditsAreExact'
  <2>1. PICK m \in Msgs : OnMessageFast(r, m) \/ TryAcquire(r, m) \/ TryAcquireFails(r, m)
    BY <1>1 DEF OnMessage
  <2>2. PICK to \in {"count", "park"} : Offer(r, m, to) /\ (TryAcquire(r, m) => to = "count")
                                        /\ (TryAcquireFails(r, m) => to = "park")
    BY <2>1 DEF OnMessageFast, TryAcquire, TryAcquireFails
  <2>3. /\ \A q \in Reactors : /\ msg'[q] = IF q = r THEN m ELSE msg[q]
                               /\ pc'[q] = IF q = r THEN to ELSE pc[q]
        /\ msg[r] = None /\ m \in buffered
        /\ UNCHANGED <<parked, drain, divideq, hand, work, fate, closed>>
    BY <2>2 DEF Offer, Goto, ReactorTypes, parkVars, divideVars, workVars
  <2>4. \A o \in DB : Charged(o)' <=> Charged(o) \/ (o = m /\ to # "park")
    BY <1>a, <2>3 DEF Charged, InSeq
  <2>5. ~Charged(m)
    <3>1. Is("buffer", m)
      BY <2>3 DEF Is
    <3>2. QED
      BY <3>1, NotCharged DEF PlaceInv
  <2>6. CASE TryAcquire(r, m)
    BY <2>2, <2>3, <2>4, <2>5, <2>6, CreditTaken DEF TryAcquire
  <2>7. CASE OnMessageFast(r, m) \/ TryAcquireFails(r, m)
    <3>1. available' = available /\ (m \notin DB \/ to = "park")
      BY <2>2, <2>7 DEF OnMessageFast, TryAcquireFails, DB
    <3>2. QED
      BY <2>3, <2>4, <3>1, CreditKept
  <2>8. QED
    BY <2>1, <2>6, <2>7
<1>2. ASSUME NEW r \in Reactors, ReactorStep(r) PROVE CreditsAreExact'
  <2>1. CASE AddWaitingTask(r)
    <3>1. /\ \A q \in Reactors : /\ msg'[q] = IF q = r THEN None ELSE msg[q]
                                 /\ q # r => pc'[q] = pc[q]
          /\ pc[r] = "park"
          /\ UNCHANGED <<parked, drain, divideq, hand, work, fate, closed, available>>
      BY <2>1 DEF AddWaitingTask, Goto, ReactorTypes, gateVars, divideVars, workVars
    <3>2. \A o \in DB : Charged(o)' <=> Charged(o)
      BY <1>a, <3>1 DEF Charged, InSeq
    <3>3. QED
      BY <3>1, <3>2, CreditKept
  <2>2. CASE WaitingNote(r) \/ CountUp(r) \/ CountDown(r) \/ ReactorExits(r)
    <3>1. /\ \A q \in Reactors : q # r => pc'[q] = pc[q]
          /\ (pc[r] # "park" /\ pc'[r] # "park") \/ msg[r] = None
          /\ drain' = drain \/ drain \in {"no credit", "no task"}
          /\ drain' = drain \/ drain' \in {"acquire", "wait"}
          /\ UNCHANGED <<msg, parked, divideq, hand, work, fate, closed, available>>
      BY <2>2 DEF WaitingNote, CountUp, CountDown, ReactorExits, Goto, Notified, ReactorTypes,
         gateVars, parkVars, divideVars, workVars
    <3>2. \A o \in DB : Charged(o)' <=> Charged(o)
      BY <1>a, <3>1 DEF Charged, InSeq
    <3>3. QED
      BY <3>1, <3>2, CreditKept
  <2>3. CASE TryPush(r)
    <3>1. CASE divideq' = Append(divideq, msg[r]) /\ Goto(r, "push", "idle")
               /\ msg' = [msg EXCEPT ![r] = None]
      <4>1. /\ \A q \in Reactors : /\ msg'[q] = IF q = r THEN None ELSE msg[q]
                                   /\ q # r => pc'[q] = pc[q]
            /\ pc[r] = "push" /\ msg[r] \in Msgs
            /\ UNCHANGED <<parked, drain, hand, work, fate, closed, available>>
        BY <2>3, <3>1, <1>a DEF TryPush, Goto, ReactorTypes, gateVars, parkVars, workVars
      <4>2. \A o : InSeq(o, divideq') <=> InSeq(o, divideq) \/ o = msg[r]
        <5>1. ~Is("queue", msg[r])
          <6>1. Is("reactor", msg[r])
            BY DEF Is
          <6>2. QED
            BY <4>1, <6>1, Elsewhere DEF Kinds, PlaceInv
        <5>2. QED
          BY <3>1, <4>1, <5>1, PutLast DEF Is, DivideTypes, PlaceInv, NoTwins
      <4>3. \A o \in DB : InSeq(o, divideq)' <=> InSeq(o, divideq) \/ o = msg[r]
        BY <4>2 DEF InSeq
      <4>4. \A o \in DB : Charged(o)' <=> Charged(o)
        BY <1>a, <4>1, <4>3 DEF Charged
      <4>5. QED
        BY <4>1, <4>4, CreditKept
    <3>2. CASE UNCHANGED <<divideq, msg>>
      <4>1. /\ \A q \in Reactors : q # r => pc'[q] = pc[q]
            /\ pc[r] = "push" /\ pc'[r] # "park"
            /\ UNCHANGED <<msg, divideq, parked, drain, hand, work, fate, closed, available>>
        BY <2>3, <3>2 DEF TryPush, Goto, ReactorTypes, gateVars, parkVars, workVars
      <4>2. \A o \in DB : Charged(o)' <=> Charged(o)
        BY <1>a, <4>1 DEF Charged, InSeq
      <4>3. QED
        BY <4>1, <4>2, CreditKept
    <3>3. QED
      BY <2>3, <3>1, <3>2 DEF TryPush
  <2>4. CASE GiveBack(r)
    <3>1. PICK m \in Msgs :
            /\ \A q \in Reactors : /\ msg'[q] = IF q = r THEN None ELSE msg[q]
                                   /\ q # r => pc'[q] = pc[q]
            /\ pc[r] # "park" /\ m = msg[r]
            /\ \A o \in Msgs : o # m => fate'[o] = fate[o]
            /\ m \in buffered' \/ fate'[m] = "refused"
            /\ UNCHANGED <<parked, drain, divideq, hand, work, closed>> /\ Release(m)
      BY <2>4, <1>a DEF GiveBack, Goto, Ends, ReactorTypes, RestTypes, parkVars, divideVars
    <3>2. Charged(m)
      BY <3>1 DEF Charged
    <3>3. ~Charged(m)'
      BY <3>1, NotChargedNext DEF PlaceInv
    <3>4. \A o \in DB : Charged(o)' <=> Charged(o) /\ o # m
      <4>1. ASSUME NEW o \in DB, o # m PROVE Charged(o)' <=> Charged(o)
        <5>1. WithReactor(o)' <=> WithReactor(o)
          BY <1>a, <3>1, <4>1 DEF WithReactor
        <5>2. (WithDrain(o)' <=> WithDrain(o)) /\ (WithWorker(o)' <=> WithWorker(o))
          BY <3>1 DEF WithDrain, WithWorker
        <5>3. divideq' = divideq /\ work' = work /\ fate'[o] = fate[o]
          BY <1>a, <3>1, <4>1
        <5>4. QED
          BY <5>1, <5>2, <5>3, StillCharged
      <4>2. QED
        BY <3>3, <4>1
    <3>5. QED
      BY <3>1, <3>2, <3>4, CreditGiven
  <2>5. QED
    BY <1>2, <2>1, <2>2, <2>3, <2>4 DEF ReactorStep
<1>3. CASE Drain
  <2>0. UNCHANGED <<buffered, msg, pc, hand, work>>
    BY <1>3 DEF Drain, DrainTakes, DrainAcquires, DrainCounts, DrainPushes, DrainUncounts,
       DrainGivesUp, DrainResumes, readVars, divideVars, workVars
  <2>1. CASE DrainTakes
    <3>1. /\ drain = "wait" /\ drain' \notin {"count", "push", "closed", "give up"}
          /\ UNCHANGED <<divideq, fate, closed, available>>
      BY <2>1 DEF DrainTakes, DrainStep, gateVars, divideVars, workVars
    <3>2. \A o \in DB : Charged(o)' <=> Charged(o)
      BY <2>0, <3>1 DEF Charged, InSeq
    <3>3. QED
      BY <3>1, <3>2, CreditKept
  <2>2. CASE DrainAcquires
    <3>1. drain = "acquire" /\ parked \in Msgs /\ UNCHANGED <<divideq, fate, closed>>
      BY <2>2 DEF DrainAcquires, DrainStep, DrainTypes, divideVars, workVars
    <3>2. CASE closed
      BY <3>1, <3>2 DEF CreditsAreExact
    <3>3. CASE drain' = "no credit" /\ available' = available
      <4>1. \A o \in DB : Charged(o)' <=> Charged(o)
        BY <2>0, <3>1, <3>3 DEF Charged, InSeq
      <4>2. QED
        BY <3>1, <3>3, <4>1, CreditKept
    <3>4. CASE /\ drain' = "count" /\ available' = available - 1 /\ UNCHANGED parked
      <4>1. \A o \in DB : Charged(o)' <=> Charged(o) \/ o = parked
        BY <2>0, <3>1, <3>4 DEF Charged, InSeq
      <4>2. ~Charged(parked)
        <5>1. Is("drain", parked)
          BY DEF Is
        <5>2. QED
          BY <3>1, <5>1, NotCharged DEF PlaceInv
      <4>3. CASE parked \in DB
        BY <3>1, <3>4, <4>1, <4>2, <4>3, CreditTaken
      <4>4. QED
        BY <4>3, <3>1 DEF ParkInv
    <3>5. QED
      BY <2>2, <3>2, <3>3, <3>4 DEF DrainAcquires, DrainStep
  <2>3. CASE DrainCounts \/ DrainUncounts \/ DrainResumes
    <3>1. /\ drain' \in {"count", "push", "closed", "give up"}
               <=> drain \in {"count", "push", "closed", "give up"}
          /\ UNCHANGED <<parked, divideq, fate, closed, available>>
      BY <2>3 DEF DrainCounts, DrainUncounts, DrainResumes, DrainStep, gateVars, divideVars, workVars
    <3>2. \A o \in DB : Charged(o)' <=> Charged(o)
      BY <2>0, <3>1 DEF Charged, InSeq
    <3>3. QED
      BY <3>1, <3>2, CreditKept
  <2>4. CASE DrainPushes
    <3>1. /\ drain = "push" /\ parked \in Msgs /\ UNCHANGED <<fate, closed, available>>
          /\ \/ divideq' = Append(divideq, parked) /\ parked' = None
             \/ UNCHANGED <<divideq, parked>> /\ drain' = "closed"
      BY <2>4 DEF DrainPushes, DrainStep, DrainTypes, gateVars, workVars
    <3>2. CASE divideq' = Append(divideq, parked) /\ parked' = None
      <4>1. \A o : InSeq(o, divideq') <=> InSeq(o, divideq) \/ o = parked
        <5>1. ~Is("queue", parked)
          <6>1. Is("drain", parked)
            BY DEF Is
          <6>2. QED
            BY <3>1, <6>1, Elsewhere DEF Kinds, PlaceInv
        <5>2. QED
          BY <3>1, <3>2, <5>1, PutLast DEF Is, DivideTypes, PlaceInv, NoTwins
      <4>2. \A o \in DB : InSeq(o, divideq)' <=> InSeq(o, divideq) \/ o = parked
        BY <4>1 DEF InSeq
      <4>3. \A o \in DB : Charged(o)' <=> Charged(o)
        BY <1>a, <2>0, <3>1, <3>2, <4>2 DEF Charged
      <4>4. QED
        BY <3>1, <4>3, CreditKept
    <3>3. CASE UNCHANGED <<divideq, parked>> /\ drain' = "closed"
      <4>1. \A o \in DB : Charged(o)' <=> Charged(o)
        BY <2>0, <3>1, <3>3 DEF Charged, InSeq
      <4>2. QED
        BY <3>1, <4>1, CreditKept
    <3>4. QED
      BY <3>1, <3>2, <3>3
  <2>5. CASE DrainGivesUp
    <3>1. PICK m \in Msgs :
            /\ drain = "give up" /\ drain' = "wait" /\ m = parked /\ Release(m)
            /\ \A o \in Msgs : o # m => fate'[o] = fate[o]
            /\ fate'[m] = "dropped" /\ parked' = None /\ UNCHANGED <<divideq, closed>>
      BY <2>5 DEF DrainGivesUp, DrainStep, DrainTypes, Ends, RestTypes, divideVars
    <3>2. Charged(m) /\ ~Charged(m)'
      BY <3>1, NotChargedNext DEF Charged, PlaceInv
    <3>3. ASSUME NEW o \in DB, o # m PROVE Charged(o)' <=> Charged(o)
      <4>1. (WithReactor(o)' <=> WithReactor(o)) /\ (WithWorker(o)' <=> WithWorker(o))
        BY <2>0 DEF WithReactor, WithWorker
      <4>2. WithDrain(o)' <=> WithDrain(o)
        BY <1>a, <3>1, <3>3 DEF WithDrain
      <4>3. divideq' = divideq /\ work' = work /\ fate'[o] = fate[o]
        BY <1>a, <2>0, <3>1, <3>3
      <4>4. QED
        BY <4>1, <4>2, <4>3, StillCharged
    <3>4. QED
      BY <3>1, <3>2, <3>3, CreditGiven
  <2>6. QED
    BY <1>3, <2>1, <2>2, <2>3, <2>4, <2>5 DEF Drain
<1>4. ASSUME NEW t \in Workers, Divide(t) PROVE CreditsAreExact'
  <2>0. UNCHANGED <<msg, pc, parked, drain, available, closed>>
    BY <1>4 DEF Divide, DividePop, DivideExits, OnWork, DivideThrows, FinishTask, readVars, parkVars,
       gateVars
  <2>1. CASE DividePop(t)
    <3>1. /\ \A u \in Workers : hand'[u] = IF u = t THEN Head(divideq) ELSE hand[u]
          /\ hand[t] = None /\ divideq # << >> /\ divideq' = Tail(divideq) /\ UNCHANGED <<work, fate>>
      BY <2>1 DEF DividePop, Step, DivideTypes, workVars
    <3>2. /\ InSeq(Head(divideq), divideq)
          /\ \A o : InSeq(o, divideq') <=> InSeq(o, divideq) /\ o # Head(divideq)
      BY <3>1, TakeFirst DEF DivideTypes, PlaceInv, NoTwins
    <3>3. \A o \in DB : InSeq(o, divideq)' <=> InSeq(o, divideq) /\ o # Head(divideq)
      BY <3>2 DEF InSeq
    <3> DEFINE m == Head(divideq)
    <3> HIDE DEF m
    <3>4. \A o \in DB : /\ (\E u \in Workers : hand'[u] = o)
                              <=> (\E u \in Workers : hand[u] = o) \/ o = m
                        /\ InSeq(o, divideq)' <=> InSeq(o, divideq) /\ o # m
                        /\ o = m => InSeq(o, divideq)
      BY <1>a, <3>1, <3>2, <3>3 DEF m
    <3>5. \A o \in DB : Charged(o)' <=> Charged(o)
      BY <2>0, <3>1, <3>4 DEF Charged
    <3>6. QED
      BY <2>0, <3>5, CreditKept
  <2>2. CASE OnWork(t) \/ DivideThrows(t)
    <3>1. PICK m \in Msgs :
            /\ \A u \in Workers : hand'[u] = IF u = t THEN None ELSE hand[u]
            /\ hand[t] = m /\ divideq' = divideq
            /\ \/ work' = work \union {m} /\ fate' = fate
               \/ /\ work' = work /\ fate'[m] \in {"lost", "thrown"}
                  /\ \A o \in Msgs : o # m => fate'[o] = fate[o]
      BY <2>2 DEF OnWork, DivideThrows, Step, Ends, DivideTypes, RestTypes
    <3>2. ASSUME NEW o \in DB, o # m PROVE Charged(o)' <=> Charged(o)
      <4>1. (WithReactor(o)' <=> WithReactor(o)) /\ (WithDrain(o)' <=> WithDrain(o))
        BY <2>0 DEF WithReactor, WithDrain
      <4>2. WithWorker(o)' <=> WithWorker(o)
        BY <1>a, <3>1, <3>2 DEF WithWorker
      <4>3. divideq' = divideq /\ (o \in work' <=> o \in work) /\ fate'[o] = fate[o]
        BY <1>a, <3>1, <3>2
      <4>4. QED
        BY <4>1, <4>2, <4>3, StillCharged
    <3>3. Charged(m) /\ Charged(m)'
      BY <3>1 DEF Charged
    <3>4. QED
      BY <2>0, <3>2, <3>3, CreditKept
  <2>3. CASE DivideExits(t) \/ FinishTask(t)
    <3>1. UNCHANGED <<divideq, hand, work, fate>>
      BY <2>3 DEF DivideExits, FinishTask, workVars
    <3>2. \A o \in DB : Charged(o)' <=> Charged(o)
      BY <2>0, <3>1 DEF Charged, InSeq
    <3>3. QED
      BY <2>0, <3>2, CreditKept
  <2>4. QED
    BY <1>4, <2>1, <2>2, <2>3 DEF Divide
<1>5. ASSUME NEW m \in Msgs, WorkEnds(m) PROVE CreditsAreExact'
  <2>1. /\ m \in work /\ Release(m) /\ \A o \in Msgs : o # m => fate'[o] = fate[o]
        /\ fate'[m] = "ended" /\ work' = work \ {m}
        /\ UNCHANGED <<msg, pc, parked, drain, divideq, hand, closed>>
    BY <1>5 DEF WorkEnds, Ends, RestTypes, readVars, parkVars, divideVars
  <2>2. Charged(m) /\ ~Charged(m)'
    BY <2>1, NotChargedNext DEF Charged, PlaceInv
  <2>3. ASSUME NEW o \in DB, o # m PROVE Charged(o)' <=> Charged(o)
    <3>1. /\ WithReactor(o)' <=> WithReactor(o)
          /\ WithDrain(o)' <=> WithDrain(o)
          /\ WithWorker(o)' <=> WithWorker(o)
      BY <2>1 DEF WithReactor, WithDrain, WithWorker
    <3>2. divideq' = divideq /\ (o \in work' <=> o \in work) /\ fate'[o] = fate[o]
      BY <1>a, <2>1, <2>3
    <3>3. QED
      BY <3>1, <3>2, StillCharged
  <2>4. QED
    BY <2>1, <2>2, <2>3, CreditGiven
<1>6. CASE GateNote \/ Spurious \/ CloseDivide \/ Stopping \/ UNCHANGED vars
  <2>1. UNCHANGED <<msg, pc, parked, divideq, hand, work, fate, available>>
    BY <1>6 DEF GateNote, Spurious, CloseDivide, Stopping, WaitIdle, CloseWork, StopReading,
       ReactorsJoined, CloseGate, GateNoteAll, StopWaiting, WaitingNoteAll, DrainJoined, vars,
       readVars, gateVars, parkVars, divideVars, workVars
  <2>2. /\ drain' = drain \/ (drain \in {"no credit", "no task"} /\ drain' \in {"acquire", "wait"})
        /\ closed' = closed \/ closed' = TRUE
    BY <1>6 DEF GateNote, Spurious, CloseDivide, Stopping, WaitIdle, CloseWork, StopReading,
       ReactorsJoined, CloseGate, GateNoteAll, StopWaiting, WaitingNoteAll, DrainJoined, Notified,
       vars, gateVars, parkVars
  <2>3. \A o \in DB : Charged(o)' <=> Charged(o)
    BY <2>1, <2>2 DEF Charged, InSeq
  <2>4. CASE closed' = closed
    BY <2>1, <2>3, <2>4, CreditKept
  <2>5. CASE closed' = TRUE
    BY <2>5 DEF CreditsAreExact
  <2>6. QED
    BY <2>2, <2>4, <2>5
<1>7. QED
  BY <1>1, <1>2, <1>3, <1>4, <1>5, <1>6 DEF Next

(* For any messages, Reactors, workers and limits: no message is lost or   *)
(* doubled by refusals, parking or stop, what the divide pool accepted     *)
(* reaches the work pool, and until the gate closes every credit is        *)
(* available or with one message.                                          *)
THEOREM NoMessageOrCreditIsLost == Spec => []NothingIsLost
<1>1. Init => ParkInv
  <2> SUFFICES ASSUME Init PROVE ParkInv
    OBVIOUS
  <2>1. /\ pc = [r \in Reactors |-> "idle"] /\ waiting = << >> /\ parked = None
        /\ None \notin Msgs
    BY AdmissionAssumption DEF Init
  <2>2. 1 .. Len(<< >>) = {}
    OBVIOUS
  <2>3. QED
    BY <2>1, <2>2 DEF ParkInv, InSeq
<1>2. Init => CreditsAreExact
  <2> SUFFICES ASSUME Init PROVE CreditsAreExact
    OBVIOUS
  <2>1. /\ msg = [r \in Reactors |-> None] /\ parked = None /\ divideq = << >>
        /\ hand = [t \in Workers |-> None] /\ work = {} /\ fate = [m \in Msgs |-> "open"]
        /\ None \notin Msgs /\ available = CreditLimit /\ CreditLimit \in Nat
    BY AdmissionAssumption DEF Init
  <2>2. 1 .. Len(<< >>) = {}
    OBVIOUS
  <2>3. Credited = {}
    BY <2>1, <2>2 DEF Credited, DB, InSeq
  <2>4. Cardinality(Credited) = 0
    BY <2>3, FS_EmptySet
  <2>5. QED
    BY <2>1, <2>4 DEF CreditsAreExact
<1>3. TypeOK /\ PlaceInv /\ PlaceInv' /\ ParkInv /\ CreditsAreExact /\ [Next]_vars
        => ParkInv' /\ CreditsAreExact'
  BY ParkStep, CreditStep
<1>4. Spec => []CreditsAreExact
  BY <1>1, <1>2, <1>3, TypeCorrect, PlaceHolds, PTL DEF Spec
<1>5. QED
  BY <1>4, NoMessageIsLost, PTL DEF NothingIsLost
=============================================================================
