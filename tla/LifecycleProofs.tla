-------------------------- MODULE LifecycleProofs --------------------------
(***************************************************************************)
(* What Lifecycle keeps for any number of overlapping requests, what it    *)
(* keeps when they come one at a time, and what that means for the         *)
(* countdown a player sees (TimerView).                                    *)
(***************************************************************************)
EXTENDS TimerView, TLAPS

\* Requests never overlap: one worker at most.
Serial == \A v, w \in Workers : v = w

-----------------------------------------------------------------------------
(* The countdown's arithmetic.                                             *)

\* A difference of two dates in order is a natural number of seconds
\* (Math.floor in pauseTimer and calculateRemainingTime).
LEMMA SecondsNat ==
  ASSUME NEW a \in Nat, NEW b \in Nat, a <= b
  PROVE  Seconds(a, b) \in Nat
<1>1. b - a \in Nat
  OBVIOUS
<1>2. TicksPerSecond \in Nat /\ TicksPerSecond > 0
  BY LifecycleAssumption
<1>3. \A x, y \in Nat : y > 0 => x \div y \in Nat
  OBVIOUS
<1> QED  BY <1>1, <1>2, <1>3 DEF Seconds

\* calculateRemainingTime clamps at zero.
LEMMA RemainingNat ==
  ASSUME NEW t \in Timer, NEW i \in Nat, t.duration # None,
         Running(t) => t.started <= i
  PROVE  Remaining(t, i) \in Nat
<1> DEFINE running == IF Running(t) THEN Seconds(t.started, i) ELSE 0
<1>1. t.duration \in Nat /\ t.elapsed \in Nat
  BY DEF Timer
<1>2. running \in Nat
  <2>1. CASE Running(t)
    <3>1. t.started \in Nat
      BY <2>1 DEF Running, Timer
    <3> QED  BY <2>1, <3>1, SecondsNat
  <2>2. CASE ~Running(t)
    BY <2>2
  <2> QED  BY <2>1, <2>2
<1>3. t.duration - t.elapsed - running \in Int
  BY <1>1, <1>2
<1>4. Remaining(t, i) =
        IF t.duration - t.elapsed - running < 0 THEN 0 ELSE t.duration - t.elapsed - running
  BY DEF Remaining
<1> HIDE DEF running
<1> QED  BY <1>3, <1>4

\* Both reset and pause leave a well-formed timer.
LEMMA ResetTimer ==
  ASSUME NEW t \in Timer
  PROVE  Reset(t) \in Timer /\ Reset(t).started = None
BY DEF Reset, Timer

\* What pauseTimer writes is a timer again.
LEMMA PausedTimer ==
  ASSUME NEW t \in Timer, NEW seen \in Timer, NEW i \in Nat,
         seen.started # None, seen.started <= i
  PROVE  Paused(t, seen, i) \in Timer /\ Paused(t, seen, i).started = t.started
<1>1. seen.started \in Nat
  BY DEF Timer
<1>2. seen.elapsed + Seconds(seen.started, i) \in Nat
  BY <1>1, SecondsNat DEF Timer
<1> QED  BY <1>2 DEF Paused, Timer

\* What update writes is a timer again.
LEMMA EditedTimer ==
  ASSUME NEW t \in Timer, NEW e \in Edit
  PROVE  /\ Edited(e, t) \in Timer
         /\ Edited(e, t).started \in {t.started, None}
<1> DEFINE base == IF e.enabled = FALSE THEN Reset(t) ELSE t
<1>1. base \in Timer /\ base.started \in {t.started, None}
  BY ResetTimer
<1>2. e.enabled = Missing \/ e.enabled \in BOOLEAN
  BY DEF Edit
<1>3. e.duration = Missing \/ e.duration \in Nat \cup {None}
  BY DEF Edit
<1>4. Edited(e, t) =
        [base EXCEPT !.enabled  = IF e.enabled = Missing THEN @ ELSE e.enabled,
                     !.duration = IF e.duration = Missing THEN @ ELSE e.duration]
  BY DEF Edited
<1> HIDE DEF base
<1> QED  BY <1>1, <1>2, <1>3, <1>4 DEF Timer

-----------------------------------------------------------------------------
(* NEXT_STATUS.                                                            *)

\* advanceStatus moves one position: the next phase is a phase, and the phases
\* before it are the phase itself and the phases before that.
LEMMA NextIsOneOn ==
  ASSUME NEW s \in Status, s # "FINISHED"
  PROVE  /\ NextStatus[s] \in Status
         /\ Position(s) \in Nat
         /\ Position(NextStatus[s]) = Position(s) + 1
BY DEF NextStatus, Status, Position

\* The positions of the phases: a successor is one further on.
LEMMA PositionFacts ==
  /\ \A s \in Status : Position(s) \in Nat
  /\ \A s, t \in Status : Position(s) = Position(t) => s = t
<1>1. /\ Position("SETUP") = 0 /\ Position("ROUND_1_CONFIG") = 1
      /\ Position("ROUND_1") = 2 /\ Position("RECONFIGURATION") = 3
      /\ Position("ROUND_2") = 4 /\ Position("ROUND_3") = 5
      /\ Position("FINISHED") = 6
  BY DEF Position
<1> QED  BY <1>1 DEF Status

-----------------------------------------------------------------------------
(* Type correctness.                                                       *)

\* The request record of an idle worker.
LEMMA IdleShape ==
  /\ Idle \in Request
  /\ InitialTimer \in Timer
  /\ NoEdit \in Edit
BY LifecycleAssumption
   DEF Idle, Request, InitialTimer, Timer, NoEdit, Edit, Steps

\* A step that gives worker w a new well-formed request q and lets the clock
\* stand keeps every request well formed.
LEMMA RequestsKept ==
  ASSUME TypeOK, NEW w \in Workers, NEW q \in Request, Shape(q, now),
         now' = now, req' = [req EXCEPT ![w] = q]
  PROVE  /\ req' \in [Workers -> Request]
         /\ \A v \in Workers : Shape(req'[v], now')
BY DEF TypeOK, Shape

\* A handler that ends leaves a well-formed request table.
LEMMA DoneKept ==
  ASSUME TypeOK, NEW w \in Workers, now' = now, Done(w)
  PROVE  /\ req' \in [Workers -> Request]
         /\ \A v \in Workers : Shape(req'[v], now')
<1>1. Shape(Idle, now)
  BY IdleShape DEF Idle, Shape, TypeOK
<1> QED  BY <1>1, IdleShape, RequestsKept DEF Done

\* So does a handler that goes on to its event.
LEMMA EmitsKept ==
  ASSUME TypeOK, NEW w \in Workers, now' = now, timer' \in Timer, Emits(w)
  PROVE  /\ req' \in [Workers -> Request]
         /\ \A v \in Workers : Shape(req'[v], now')
<1> DEFINE q == [Idle EXCEPT !.step = "emit", !.row = timer']
<1>1. q \in Request
  BY IdleShape DEF Request, Steps
<1>2. Shape(q, now)
  BY IdleShape DEF Idle, Shape, TypeOK
<1> QED  BY <1>1, <1>2, RequestsKept DEF Emits

\* So does a handler that goes on to its next query.
LEMMA GotoKept ==
  ASSUME TypeOK, NEW w \in Workers, NEW step \in Steps, Goto(w, step),
         Shape([req[w] EXCEPT !.step = step], now)
  PROVE  TypeOK'
<1>1. [req[w] EXCEPT !.step = step] \in Request
  BY DEF TypeOK, Request
<1>2. now' = now /\ req' = [req EXCEPT ![w] = [req[w] EXCEPT !.step = step]]
  BY DEF Goto, TypeOK
<1> QED  BY <1>1, <1>2, RequestsKept DEF TypeOK, Goto, row

\* The first query of a handler.
LEMMA ReadKept ==
  ASSUME TypeOK, NEW w \in Workers, NEW step \in Steps,
         NEW u \in Users \cup {None}, NEW e \in Edit, Read(w, step, u, e),
         step \in {"advance_gate", "advance_write"} => status # "FINISHED",
         step = "pause_write" => timer.started # None,
         step \in {"finish_member", "finish_write"} => status \in ActiveStatus /\ u \in Users
  PROVE  TypeOK'
<1> DEFINE q == [step |-> step, seen |-> status, row |-> timer, at |-> now,
                 user |-> u, edit |-> e]
<1>1. q \in Request
  BY DEF TypeOK, Request
<1>2. Shape(q, now)
  BY DEF TypeOK, Shape, Running
<1>3. now' = now /\ req' = [req EXCEPT ![w] = q]
  BY DEF Read
<1> QED  BY <1>1, <1>2, <1>3, RequestsKept DEF TypeOK, Read, row

\* The stamp a handler takes is a date, not before its read, not in the future.
LEMMA StampFacts ==
  ASSUME TypeOK, NEW w \in Workers, NEW t \in Stamps(w)
  PROVE  t \in Nat /\ req[w].at <= t /\ t <= now
<1>1. req[w].at \in Nat /\ now \in Nat
  BY DEF TypeOK, Request
<1> QED  BY <1>1 DEF Stamps

\* A step of the requests keeps the rows and the requests well formed.
LEMMA QuietKeepsType ==
  ASSUME TypeOK, NEW w \in Workers, Quietly(w)
  PROVE  TypeOK'
<1>0. req[w] \in Request /\ Shape(req[w], now) /\ timer \in Timer /\ status \in Status
  BY DEF TypeOK
<1>r. req[w].row \in Timer /\ req[w].seen \in Status /\ req[w].at \in Nat
      /\ req[w].edit \in Edit
  BY <1>0 DEF Request
<1>1. CASE AdvanceRead(w)
  <2> DEFINE step == IF status = "RECONFIGURATION" THEN "advance_gate" ELSE "advance_write"
  <2>1. step \in Steps /\ step \in {"advance_gate", "advance_write"}
    BY DEF Steps, WriteSteps
  <2>2. Read(w, step, None, NoEdit) /\ status # "FINISHED"
    BY <1>1 DEF AdvanceRead
  <2> HIDE DEF step
  <2> QED  BY <2>1, <2>2, ReadKept, IdleShape
<1>2. CASE AdvanceGate(w)
  <2>1. Shape([req[w] EXCEPT !.step = "advance_write"], now)
    BY <1>0, <1>2 DEF AdvanceGate, At, Shape, Request
  <2> QED  BY <1>2, <2>1, GotoKept DEF AdvanceGate, Steps, WriteSteps
<1>3. CASE AdvanceWrite(w)
  <2>1. req[w].seen # "FINISHED"
    BY <1>0, <1>3 DEF AdvanceWrite, At, Shape
  <2>2. status' \in Status
    BY <1>3, <1>r, <2>1, NextIsOneOn DEF AdvanceWrite
  <2>3. timer' \in Timer /\ (timer'.started # None => timer'.started <= now')
    BY <1>0, <1>3, ResetTimer DEF AdvanceWrite, TypeOK
  <2>4. now' = now /\ Done(w)
    BY <1>3 DEF AdvanceWrite
  <2> QED  BY <1>3, <2>2, <2>3, <2>4, DoneKept DEF AdvanceWrite, TypeOK
<1>4. CASE StartRead(w)
  BY <1>4, ReadKept, IdleShape DEF StartRead, Steps, WriteSteps
<1>5. CASE StartWrite(w)
  <2>1. PICK t \in Stamps(w) : timer' = [timer EXCEPT !.started = t, !.paused = None]
    BY <1>5 DEF StartWrite
  <2>2. t \in Nat /\ t <= now
    BY StampFacts
  <2>3. timer' \in Timer /\ timer'.started <= now
    BY <1>0, <2>1, <2>2 DEF Timer
  <2>4. now' = now /\ Emits(w)
    BY <1>5 DEF StartWrite
  <2> QED  BY <1>5, <2>3, <2>4, EmitsKept DEF StartWrite, TypeOK
<1>6. CASE PauseRead(w)
  BY <1>6, ReadKept, IdleShape DEF PauseRead, Running, Steps, WriteSteps
<1>7. CASE PauseWrite(w)
  <2>1. PICK t \in Stamps(w) : timer' = Paused(timer, req[w].row, t)
    BY <1>7 DEF PauseWrite
  <2>2. t \in Nat /\ req[w].at <= t
    BY StampFacts
  <2>3. req[w].row.started # None /\ req[w].row.started <= req[w].at
    BY <1>0, <1>7 DEF PauseWrite, At, Shape
  <2>4. req[w].row.started \in Nat
    BY <1>r, <2>3 DEF Timer
  <2>5. req[w].row.started <= t
    BY <1>r, <2>2, <2>3, <2>4
  <2>6. timer' \in Timer /\ timer'.started = timer.started
    BY <1>0, <1>r, <2>1, <2>2, <2>3, <2>5, PausedTimer
  <2>7. now' = now /\ Emits(w)
    BY <1>7 DEF PauseWrite
  <2> QED  BY <1>7, <2>6, <2>7, EmitsKept DEF PauseWrite, TypeOK
<1>8. CASE StopRead(w)
  BY <1>8, ReadKept, IdleShape DEF StopRead, Steps, WriteSteps
<1>9. CASE StopWrite(w)
  <2>1. timer' \in Timer /\ timer'.started = None
    BY <1>0, <1>9, ResetTimer DEF StopWrite
  <2>2. now' = now /\ Emits(w)
    BY <1>9 DEF StopWrite
  <2> QED  BY <1>9, <2>1, <2>2, EmitsKept DEF StopWrite, TypeOK
<1>10. CASE \E e \in Edits : EditRead(w, e)
  <2>1. PICK e \in Edits : EditRead(w, e)
    BY <1>10
  <2>2. e \in Edit
    BY LifecycleAssumption DEF Edits, Edit
  <2> QED  BY <2>1, <2>2, ReadKept DEF EditRead, Steps, WriteSteps
<1>11. CASE EditWrite(w)
  <2>1. timer' \in Timer /\ timer'.started \in {timer.started, None}
    BY <1>0, <1>r, <1>11, EditedTimer DEF EditWrite
  <2>2. now' = now /\ Done(w)
    BY <1>11 DEF EditWrite
  <2> QED  BY <1>11, <2>1, <2>2, DoneKept DEF EditWrite, TypeOK
<1>12. CASE \E u \in Users : FinishRead(w, u)
  BY <1>12, ReadKept, IdleShape DEF FinishRead, Steps
<1>13. CASE FinishMember(w)
  <2>1. Shape([req[w] EXCEPT !.step = "finish_write"], now)
    BY <1>0, <1>13 DEF FinishMember, At, Shape, Request
  <2> QED  BY <1>13, <2>1, GotoKept DEF FinishMember, Steps, WriteSteps
<1>14. CASE FinishWrite(w)
  <2> DEFINE q == req[w]
  <2>1. q.seen \in ActiveStatus /\ q.user \in Users
        /\ (Running(q.row) => q.row.started <= q.at)
    BY <1>0, <1>14 DEF FinishWrite, At, Shape
  <2>2. PICK t \in Stamps(w) :
          finishes' = [finishes EXCEPT ![q.user][RoundOf[q.seen]] =
                         IF q.row.duration = None THEN None ELSE Remaining(q.row, t)]
    BY <1>14 DEF FinishWrite
  <2>3. t \in Nat /\ q.at <= t
    BY StampFacts
  <2>4. Running(q.row) => q.row.started <= t
    <3>1. Running(q.row) => q.row.started \in Nat
      BY <1>r DEF Running, Timer
    <3> QED  BY <1>r, <2>1, <2>3, <3>1
  <2>5. (IF q.row.duration = None THEN None ELSE Remaining(q.row, t)) \in Finish
    BY <1>r, <2>3, <2>4, RemainingNat DEF Finish
  <2>6. RoundOf[q.seen] \in 1..3
    BY <2>1 DEF RoundOf, ActiveStatus
  <2>7. finishes' \in [Users -> [1..3 -> Finish]]
    BY <2>1, <2>2, <2>5, <2>6 DEF TypeOK
  <2>8. now' = now /\ Done(w)
    BY <1>14 DEF FinishWrite
  <2> QED  BY <1>14, <2>7, <2>8, DoneKept DEF FinishWrite, TypeOK
<1> QED
  BY <1>1, <1>2, <1>3, <1>4, <1>5, <1>6, <1>7, <1>8, <1>9, <1>10, <1>11, <1>12, <1>13, <1>14
  DEF Quietly, AdvanceStep, StartStep, PauseStep, StopStep, EditStep, FinishStep

\* The clock moves on: what was past stays past.
LEMMA TickKeepsType ==
  ASSUME TypeOK, Tick
  PROVE  TypeOK'
<1>1. now \in Nat /\ now' = now + 1 /\ req' = req /\ timer' = timer
  BY DEF TypeOK, Tick, row
<1>2. timer'.started # None => timer'.started <= now'
  <2>1. timer.started # None => timer.started \in Nat
    BY DEF TypeOK, Timer
  <2> QED  BY <1>1, <2>1 DEF TypeOK
<1>3. ASSUME NEW w \in Workers  PROVE Shape(req'[w], now')
  <2>1. req[w].at \in Nat
    BY DEF TypeOK, Request
  <2> QED  BY <1>1, <2>1 DEF TypeOK, Shape
<1> QED  BY <1>1, <1>2, <1>3 DEF TypeOK, Tick, row

\* A fresh session is well formed.
LEMMA TypeInit == Init => TypeOK
<1> SUFFICES ASSUME Init PROVE TypeOK
  OBVIOUS
<1>1. Shape(Idle, now)
  BY IdleShape DEF Init, Idle, Shape
<1> QED  BY <1>1, IdleShape, LifecycleAssumption DEF Init, TypeOK, Finish, InitialTimer

\* Every step keeps the rows and the handlers' variables well formed.
LEMMA TypeStep == TypeOK /\ [Next]_vars => TypeOK'
<1> SUFFICES ASSUME TypeOK, [Next]_vars PROVE TypeOK'
  OBVIOUS
<1>1. CASE \E w \in Workers : Quietly(w)
  BY <1>1, QuietKeepsType
<1>2. CASE \E w \in Workers : Emit(w) \/ Fail(w)
  <2>1. PICK w \in Workers : Done(w) /\ UNCHANGED <<row, now, visited>>
    BY <1>2 DEF Emit, Fail
  <2> QED  BY <2>1, DoneKept DEF TypeOK, row
<1>3. CASE Tick
  BY <1>3, TickKeepsType
<1>4. CASE UNCHANGED vars
  BY <1>4 DEF vars, TypeOK, Shape
<1> QED  BY <1>1, <1>2, <1>3, <1>4 DEF Next

\* However many requests overlap, the session row, the finish rows and what the
\* handlers hold stay well formed; in particular no remaining time and no
\* elapsed time turns negative.
THEOREM TypeCorrect == Spec => []TypeOK
<1> QED  BY TypeInit, TypeStep, PTL DEF Spec

-----------------------------------------------------------------------------
(* The phases, for any number of overlapping requests.  A stale request can  *)
(* move the status back, so the status alone says little; the inductive      *)
(* invariant is about the set of phases the session has been in: whatever a  *)
(* request has read is in it.                                                *)

SeenVisited ==
  /\ InitialStatus \in visited
  /\ status \in visited
  /\ \A w \in Workers : req[w].seen \in visited

PhaseInv == TypeOK /\ SeenVisited /\ PhasesInOrder /\ FinishedRoundWasPlayed

\* Entering the successor of a visited phase keeps the visited phases closed
\* under "earlier".
LEMMA ClosedUnderNext ==
  ASSUME visited \subseteq Status, PhasesInOrder,
         NEW s \in visited, s # "FINISHED", visited' = visited \cup {NextStatus[s]}
  PROVE  PhasesInOrder'
<1> SUFFICES ASSUME NEW x \in Status, NEW y \in Status,
                    x \in visited', Position(y) < Position(x)
             PROVE  y \in visited'
  BY DEF PhasesInOrder
<1>1. CASE x \in visited
  BY <1>1 DEF PhasesInOrder
<1>2. CASE x = NextStatus[s]
  <2>1. s \in Status /\ Position(x) = Position(s) + 1
    BY <1>2, NextIsOneOn
  <2>2. Position(y) \in Nat /\ Position(s) \in Nat
    BY <2>1, PositionFacts
  <2>3. Position(y) < Position(s) \/ Position(y) = Position(s)
    BY <2>1, <2>2
  <2>4. CASE Position(y) = Position(s)
    BY <2>1, <2>4, PositionFacts
  <2>5. CASE Position(y) < Position(s)
    BY <2>1, <2>5 DEF PhasesInOrder
  <2> QED  BY <2>3, <2>4, <2>5
<1> QED  BY <1>1, <1>2

\* The phases before the initial one count as visited.
LEMMA PhaseInit == Init => PhaseInv
<1> SUFFICES ASSUME Init PROVE PhaseInv
  OBVIOUS
<1>1. visited = {s \in Status : Position(s) <= Position(InitialStatus)}
  BY DEF Init
<1>2. \A s \in Status : Position(s) \in Nat
  BY PositionFacts
<1>3. InitialStatus \in visited
  BY <1>1, <1>2, LifecycleAssumption
<1>4. SeenVisited
  BY <1>3 DEF Init, Idle, SeenVisited
<1>5. PhasesInOrder
  <2> SUFFICES ASSUME NEW s \in Status, NEW t \in Status,
                      s \in visited, Position(t) < Position(s)
               PROVE  t \in visited
    BY DEF PhasesInOrder
  <2>1. Position(s) <= Position(InitialStatus) /\ Position(InitialStatus) \in Nat
        /\ Position(s) \in Nat /\ Position(t) \in Nat
    BY <1>1, <1>2, LifecycleAssumption
  <2>2. Position(t) <= Position(InitialStatus)
    BY <2>1
  <2> QED  BY <1>1, <2>2
<1>6. FinishedRoundWasPlayed
  BY DEF Init, FinishedRoundWasPlayed, ActiveStatus, RoundOf
<1> QED  BY <1>4, <1>5, <1>6, TypeInit DEF PhaseInv

\* Most steps leave the phases alone and give one request a status that was
\* just read, kept, or the initial one.
Holds(w) ==
  \E q \in Request :
    /\ q.seen \in {status, InitialStatus, req[w].seen}
    /\ req' = [req EXCEPT ![w] = q]
    /\ UNCHANGED <<status, visited>>

\* The status a handler has read stays one that was visited.
LEMMA HoldsKeepsSeen ==
  ASSUME TypeOK, SeenVisited, NEW w \in Workers, Holds(w)
  PROVE  SeenVisited' /\ UNCHANGED <<status, visited>>
BY DEF TypeOK, SeenVisited, Holds

\* Any step of a request but the write of an advance leaves the phases alone.
LEMMA RequestHolds ==
  ASSUME TypeOK, TypeOK', NEW w \in Workers,
         Quietly(w) \/ Emit(w) \/ Fail(w), ~AdvanceWrite(w)
  PROVE  Holds(w)
<1>0. req[w] \in Request /\ timer \in Timer /\ status \in Status
      /\ req' \in [Workers -> Request] /\ timer' \in Timer
  BY DEF TypeOK
<1>1. ASSUME NEW step, NEW u, NEW e, Read(w, step, u, e)  PROVE Holds(w)
  <2> DEFINE q == [step |-> step, seen |-> status, row |-> timer, at |-> now,
                   user |-> u, edit |-> e]
  <2>1. req' = [req EXCEPT ![w] = q] /\ UNCHANGED <<status, visited>>
    BY <1>1 DEF Read, row
  <2>2. req'[w] = q
    BY <2>1 DEF TypeOK
  <2>3. q \in Request
    BY <1>0, <2>2
  <2> QED  BY <2>1, <2>3 DEF Holds
<1>2. ASSUME Done(w), UNCHANGED <<status, visited>>  PROVE Holds(w)
  BY <1>2, IdleShape DEF Done, Holds, Idle
<1>3. ASSUME Emits(w), UNCHANGED <<status, visited>>  PROVE Holds(w)
  <2> DEFINE q == [Idle EXCEPT !.step = "emit", !.row = timer']
  <2>1. q \in Request /\ q.seen = InitialStatus
    BY <1>0, IdleShape DEF Request, Steps, Idle
  <2> QED  BY <1>3, <2>1 DEF Emits, Holds
<1>4. ASSUME NEW step \in Steps, Goto(w, step)  PROVE Holds(w)
  <2>1. [req[w] EXCEPT !.step = step] \in Request
    BY <1>0 DEF Request
  <2>2. [req[w] EXCEPT !.step = step].seen = req[w].seen
    BY <1>0 DEF Request
  <2>3. req' = [req EXCEPT ![w] = [req[w] EXCEPT !.step = step]]
        /\ UNCHANGED <<status, visited>>
    BY <1>4 DEF Goto, row
  <2> QED  BY <2>1, <2>2, <2>3 DEF Holds
<1>5. CASE AdvanceRead(w) \/ StartRead(w) \/ PauseRead(w) \/ StopRead(w)
           \/ (\E e \in Edits : EditRead(w, e)) \/ (\E u \in Users : FinishRead(w, u))
  BY <1>1, <1>5 DEF AdvanceRead, StartRead, PauseRead, StopRead, EditRead, FinishRead
<1>6. CASE AdvanceGate(w) \/ FinishMember(w)
  BY <1>4, <1>6 DEF AdvanceGate, FinishMember, Steps, WriteSteps
<1>7. CASE StartWrite(w) \/ PauseWrite(w) \/ StopWrite(w)
  BY <1>3, <1>7 DEF StartWrite, PauseWrite, StopWrite
<1>8. CASE EditWrite(w) \/ FinishWrite(w) \/ Emit(w) \/ Fail(w)
  BY <1>2, <1>8 DEF EditWrite, FinishWrite, Emit, Fail, row
<1> QED
  BY <1>5, <1>6, <1>7, <1>8
  DEF Quietly, AdvanceStep, StartStep, PauseStep, StopStep, EditStep, FinishStep

\* Only a finish writes to the finish rows.
LEMMA FinishesKept ==
  ASSUME NEW w \in Workers, Quietly(w) \/ Emit(w) \/ Fail(w), ~FinishWrite(w)
  PROVE  finishes' = finishes
BY DEF Quietly, AdvanceStep, StartStep, PauseStep, StopStep, EditStep, FinishStep,
       AdvanceRead, AdvanceGate, AdvanceWrite, StartRead, StartWrite, PauseRead,
       PauseWrite, StopRead, StopWrite, EditRead, EditWrite, FinishRead, FinishMember,
       Emit, Fail, Read, Goto, row

\* The visited phases stay closed under "earlier", and finishes name visited rounds.
LEMMA PhaseStep == PhaseInv /\ [Next]_vars => PhaseInv'
<1> SUFFICES ASSUME PhaseInv, [Next]_vars PROVE PhaseInv'
  OBVIOUS
<1>0. TypeOK /\ TypeOK'
  BY TypeStep DEF PhaseInv
<1>1. ASSUME NEW w \in Workers, AdvanceWrite(w)  PROVE PhaseInv'
  <2>1. req[w].seen \in visited /\ req[w].seen # "FINISHED"
    BY <1>0, <1>1 DEF PhaseInv, SeenVisited, AdvanceWrite, At, TypeOK, Shape
  <2>2. status' = NextStatus[req[w].seen] /\ visited' = visited \cup {status'}
        /\ req' = [req EXCEPT ![w] = Idle] /\ finishes' = finishes
    BY <1>1 DEF AdvanceWrite, Done
  <2>3. PhasesInOrder'
    BY <1>0, <2>1, <2>2, ClosedUnderNext DEF PhaseInv, TypeOK
  <2>4. SeenVisited'
    BY <1>0, <2>2 DEF PhaseInv, SeenVisited, TypeOK, Idle
  <2>5. FinishedRoundWasPlayed'
    BY <2>2 DEF PhaseInv, FinishedRoundWasPlayed
  <2> QED  BY <1>0, <2>3, <2>4, <2>5 DEF PhaseInv
<1>2. ASSUME NEW w \in Workers, FinishWrite(w)  PROVE PhaseInv'
  <2> DEFINE q == req[w]
  <2>1. q.seen \in ActiveStatus /\ q.user \in Users /\ q.seen \in visited
    BY <1>0, <1>2 DEF PhaseInv, SeenVisited, FinishWrite, At, TypeOK, Shape
  <2>2. /\ \A u \in Users, r \in 1..3 :
             finishes'[u][r] # finishes[u][r] => r = RoundOf[q.seen]
        /\ UNCHANGED <<status, visited>> /\ req' = [req EXCEPT ![w] = Idle]
    BY <1>0, <1>2 DEF FinishWrite, Done, TypeOK
  <2>3. \A s \in ActiveStatus : RoundOf[s] \in 1..3 /\
          (RoundOf[s] = RoundOf[q.seen] => s = q.seen)
    BY <2>1 DEF ActiveStatus, RoundOf
  <2>4. FinishedRoundWasPlayed'
    BY <2>1, <2>2, <2>3 DEF PhaseInv, FinishedRoundWasPlayed
  <2>5. SeenVisited'
    BY <1>0, <2>2 DEF PhaseInv, SeenVisited, TypeOK, Idle
  <2>6. PhasesInOrder'
    BY <2>2 DEF PhaseInv, PhasesInOrder
  <2> QED  BY <1>0, <2>4, <2>5, <2>6 DEF PhaseInv
<1>3. ASSUME NEW w \in Workers, Quietly(w) \/ Emit(w) \/ Fail(w),
             ~AdvanceWrite(w), ~FinishWrite(w)
      PROVE  PhaseInv'
  <2>1. SeenVisited' /\ UNCHANGED <<status, visited>>
    BY <1>0, <1>3, RequestHolds, HoldsKeepsSeen DEF PhaseInv
  <2>2. finishes' = finishes
    BY <1>3, FinishesKept
  <2> QED  BY <1>0, <2>1, <2>2 DEF PhaseInv, PhasesInOrder, FinishedRoundWasPlayed
<1>4. CASE Tick
  BY <1>0, <1>4 DEF Tick, row, PhaseInv, SeenVisited, PhasesInOrder, FinishedRoundWasPlayed
<1>5. CASE UNCHANGED vars
  BY <1>0, <1>5 DEF vars, PhaseInv, SeenVisited, PhasesInOrder, FinishedRoundWasPlayed
<1> QED  BY <1>1, <1>2, <1>3, <1>4, <1>5 DEF Next

\* "Não dá para pular", however many facilitator requests overlap.
THEOREM PhasesTheorem == Spec => []PhasesInOrder
<1>1. PhaseInv => PhasesInOrder
  BY DEF PhaseInv
<1> QED  BY <1>1, PhaseInit, PhaseStep, PTL DEF Spec

\* A player's finish is filed under a round the session has been in, however
\* late the write comes.
THEOREM FinishTheorem == Spec => []FinishedRoundWasPlayed
<1>1. PhaseInv => FinishedRoundWasPlayed
  BY DEF PhaseInv
<1> QED  BY <1>1, PhaseInit, PhaseStep, PTL DEF Spec

-----------------------------------------------------------------------------
(* One request at a time.  Then nothing moves between a read and its write,  *)
(* and what the handlers checked still holds when they write.                *)

Fresh ==
  \A w \in Workers :
    /\ ~At(w, "idle") /\ ~At(w, "emit") => req[w].seen = status /\ req[w].row = timer
    /\ At(w, "start_write") => Startable(timer, status)
    /\ At(w, "pause_write") => Running(timer)

SerialInv == TypeOK /\ Fresh /\ TimerOnlyInRound /\ StoppedIsReset

\* At the start no handler has read anything and the timer is reset.
LEMMA SerialInit == Init => SerialInv
BY TypeInit DEF Init, SerialInv, Fresh, TimerOnlyInRound, StoppedIsReset, Idle, At,
   InitialTimer

\* A step of the only request finds the row as it read it and keeps the timer in its round.
LEMMA SerialRequestStep ==
  ASSUME Serial, SerialInv, TypeOK', NEW w \in Workers, Quietly(w) \/ Emit(w) \/ Fail(w)
  PROVE  SerialInv'
<1> USE DEF SerialInv
<1>0. /\ Workers = {w} /\ req[w] \in Request /\ timer \in Timer
      /\ Shape(req[w], now) /\ DOMAIN req = Workers
  BY DEF Serial, TypeOK
<1>1. ASSUME req'[w].step \in {"idle", "emit"}  PROVE Fresh'
  BY <1>0, <1>1 DEF Fresh, At
<1>2. Done(w) => req'[w].step = "idle"
  BY <1>0 DEF Done, Idle
<1>3. Emits(w) => req'[w].step = "emit"
  BY <1>0 DEF Emits, Idle
<1>4. ASSUME NEW step, NEW u, NEW e, Read(w, step, u, e),
             step = "start_write" => Startable(timer, status),
             step = "pause_write" => Running(timer)
      PROVE  SerialInv'
  <2>1. /\ req'[w].step = step /\ req'[w].seen = status /\ req'[w].row = timer
        /\ UNCHANGED <<status, timer>>
    BY <1>0, <1>4 DEF Read, row
  <2>2. Fresh'
    BY <1>0, <1>4, <2>1 DEF Fresh, At, Running, Startable
  <2> QED  BY <2>1, <2>2 DEF TimerOnlyInRound, StoppedIsReset
<1>5. ASSUME NEW step, Goto(w, step), step \notin {"start_write", "pause_write"},
             ~At(w, "idle"), ~At(w, "emit")
      PROVE  SerialInv'
  <2>1. /\ req'[w].step = step /\ req'[w].seen = req[w].seen /\ req'[w].row = req[w].row
        /\ UNCHANGED <<status, timer>>
    BY <1>0, <1>5 DEF Goto, row, Request
  <2>2. Fresh'
    BY <1>0, <1>5, <2>1 DEF Fresh, At
  <2> QED  BY <2>1, <2>2 DEF TimerOnlyInRound, StoppedIsReset
<1>6. CASE AdvanceWrite(w)
  <2>1. req[w].seen = status
    BY <1>6 DEF AdvanceWrite, Fresh, At
  <2>2. timer'.started = None /\ timer'.paused = None /\ timer'.elapsed = 0
    <3>1. CASE status \in ActiveStatus
      BY <1>0, <1>6, <2>1, <3>1 DEF AdvanceWrite, Reset, Timer
    <3>2. CASE status \notin ActiveStatus
      BY <1>6, <2>1, <3>2 DEF AdvanceWrite, TimerOnlyInRound, StoppedIsReset
    <3> QED  BY <3>1, <3>2
  <2> QED  BY <1>1, <1>2, <1>6, <2>2 DEF AdvanceWrite, TimerOnlyInRound, StoppedIsReset
<1>7. CASE StartWrite(w)
  <2>1. status \in ActiveStatus /\ status' = status
    BY <1>7 DEF StartWrite, Fresh, Startable
  <2>2. PICK t \in Stamps(w) : timer' = [timer EXCEPT !.started = t, !.paused = None]
    BY <1>7 DEF StartWrite
  <2>3. t \in Nat
    BY StampFacts
  <2>4. timer'.started # None
    BY <1>0, <2>2, <2>3, LifecycleAssumption DEF Timer
  <2> QED  BY <1>1, <1>3, <1>7, <2>1, <2>4 DEF StartWrite, TimerOnlyInRound, StoppedIsReset
<1>8. CASE PauseWrite(w)
  <2>1. timer.started # None /\ status' = status
    BY <1>8 DEF PauseWrite, Fresh, Running
  <2>2. timer'.started = timer.started
    BY <1>0, <1>8 DEF PauseWrite, Paused, Timer
  <2> QED  BY <1>1, <1>3, <1>8, <2>1, <2>2 DEF PauseWrite, TimerOnlyInRound, StoppedIsReset
<1>9. CASE StopWrite(w)
  <2>1. timer'.started = None /\ timer'.paused = None /\ timer'.elapsed = 0
    BY <1>0, <1>9 DEF StopWrite, Reset, Timer
  <2> QED  BY <1>1, <1>3, <1>9, <2>1 DEF StopWrite, TimerOnlyInRound, StoppedIsReset
<1>10. CASE EditWrite(w)
  <2>1. status' = status /\ timer' = Edited(req[w].edit, timer)
    BY <1>10 DEF EditWrite
  <2>2. \/ /\ timer'.started = timer.started /\ timer'.paused = timer.paused
           /\ timer'.elapsed = timer.elapsed
        \/ timer'.started = None /\ timer'.paused = None /\ timer'.elapsed = 0
    BY <1>0, <2>1 DEF Edited, Reset, Timer
  <2> QED  BY <1>1, <1>2, <1>10, <2>1, <2>2 DEF EditWrite, TimerOnlyInRound, StoppedIsReset
<1>11. CASE FinishWrite(w) \/ Emit(w) \/ Fail(w)
  <2>1. UNCHANGED <<status, timer>> /\ Done(w)
    BY <1>11 DEF FinishWrite, Emit, Fail, row
  <2> QED  BY <1>1, <1>2, <2>1 DEF TimerOnlyInRound, StoppedIsReset
<1>12. CASE AdvanceRead(w) \/ StartRead(w) \/ PauseRead(w) \/ StopRead(w)
            \/ (\E e \in Edits : EditRead(w, e)) \/ (\E u \in Users : FinishRead(w, u))
  <2>1. CASE AdvanceRead(w)
    BY <1>4, <2>1 DEF AdvanceRead
  <2>2. CASE StartRead(w)
    BY <1>4, <2>2 DEF StartRead
  <2>3. CASE PauseRead(w)
    BY <1>4, <2>3 DEF PauseRead
  <2>4. CASE StopRead(w)
    BY <1>4, <2>4 DEF StopRead
  <2>5. CASE \E e \in Edits : EditRead(w, e)
    BY <1>4, <2>5 DEF EditRead
  <2>6. CASE \E u \in Users : FinishRead(w, u)
    BY <1>4, <2>6 DEF FinishRead
  <2> QED  BY <1>12, <2>1, <2>2, <2>3, <2>4, <2>5, <2>6
<1>13. CASE AdvanceGate(w) \/ FinishMember(w)
  BY <1>5, <1>13 DEF AdvanceGate, FinishMember, At
<1> QED
  BY <1>6, <1>7, <1>8, <1>9, <1>10, <1>11, <1>12, <1>13
  DEF Quietly, AdvanceStep, StartStep, PauseStep, StopStep, EditStep, FinishStep

\* The clock does not disturb it either.
LEMMA SerialStep == Serial /\ SerialInv /\ [Next]_vars => SerialInv'
<1> SUFFICES ASSUME Serial, SerialInv, [Next]_vars PROVE SerialInv'
  OBVIOUS
<1>0. TypeOK'
  BY TypeStep DEF SerialInv
<1>1. CASE \E w \in Workers : Quietly(w) \/ Emit(w) \/ Fail(w)
  BY <1>0, <1>1, SerialRequestStep
<1>2. CASE Tick
  BY <1>0, <1>2 DEF Tick, row, SerialInv, Fresh, At, TimerOnlyInRound, StoppedIsReset
<1>3. CASE UNCHANGED vars
  BY <1>0, <1>3 DEF vars, SerialInv, Fresh, At, TimerOnlyInRound, StoppedIsReset
<1> QED  BY <1>1, <1>2, <1>3 DEF Next

\* With requests one at a time the countdown belongs to its round: nothing is
\* started outside a round and a stopped timer carries nothing over.  A start or a
\* pause that overlaps an advance breaks it.
THEOREM TimerTheorem ==
  ASSUME Serial
  PROVE  Spec => [](TimerOnlyInRound /\ StoppedIsReset)
<1>1. SerialInv => TimerOnlyInRound /\ StoppedIsReset
  BY DEF SerialInv
<1>2. SerialInv /\ [Next]_vars => SerialInv'
  BY SerialStep
<1> QED  BY <1>1, <1>2, SerialInit, PTL DEF Spec

\* With requests one at a time "só anda uma casa" holds: the status read is the
\* status that the successor replaces.
THEOREM StepTheorem ==
  ASSUME Serial
  PROVE  Spec => OneStepForward
<1>1. ASSUME SerialInv, [Next]_vars, status' # status
      PROVE  status # "FINISHED" /\ status' = NextStatus[status]
  <2>1. TypeOK /\ TypeOK'
    BY <1>1, TypeStep DEF SerialInv
  <2>2. PICK w \in Workers : Quietly(w) \/ Emit(w) \/ Fail(w)
    BY <1>1 DEF Next, Tick, row, vars
  <2>3. ~Holds(w)
    BY <1>1 DEF Holds
  <2>4. AdvanceWrite(w)
    BY <2>1, <2>2, <2>3, RequestHolds
  <2>5. req[w].seen = status /\ req[w].seen # "FINISHED"
    BY <1>1, <2>1, <2>4 DEF SerialInv, Fresh, TypeOK, Shape, AdvanceWrite, At
  <2> QED  BY <2>4, <2>5 DEF AdvanceWrite
<1>2. SerialInv /\ [Next]_vars => SerialInv'
  BY SerialStep
<1>3. SerialInv /\ [Next]_vars =>
        [status' # status => status # "FINISHED" /\ status' = NextStatus[status]]_vars
  BY <1>1
<1> QED  BY <1>2, <1>3, SerialInit, PTL DEF Spec, OneStepForward

-----------------------------------------------------------------------------
(* The time on the clock.                                                  *)

\* The later of two dates is at least as many seconds away.
LEMMA SecondsGrow ==
  ASSUME NEW a \in Nat, NEW b \in Nat, NEW c \in Nat, a <= b, b <= c
  PROVE  Seconds(a, b) <= Seconds(a, c)
<1>1. b - a \in Nat /\ c - a \in Nat /\ b - a <= c - a
  OBVIOUS
<1>2. \A x, y, k \in Nat : k > 0 /\ x <= y => x \div k <= y \div k
  OBVIOUS
<1> QED  BY <1>1, <1>2, LifecycleAssumption DEF Seconds

\* What is left of a timer with e seconds used up and n more running.
Left(duration, e, n) == IF duration - e - n < 0 THEN 0 ELSE duration - e - n

LEMMA LeftFalls ==
  ASSUME NEW duration \in Nat, NEW e \in Nat, NEW n \in Nat, NEW m \in Nat, n <= m
  PROVE  Left(duration, e, m) <= Left(duration, e, n)
BY DEF Left

LEMMA RemainingLeft ==
  ASSUME NEW t \in Timer, NEW i \in Nat, t.duration # None
  PROVE  /\ Running(t) => Remaining(t, i) = Left(t.duration, t.elapsed, Seconds(t.started, i))
         /\ ~Running(t) => Remaining(t, i) = Left(t.duration, t.elapsed, 0)
BY DEF Remaining, Left, Timer

\* The only request of a serial instance writes a start or a pause that leaves no
\* more time than there was when it read the row.
LEMMA NoTimeStep ==
  ASSUME Serial, SerialInv, [Next]_vars, NEW w \in Workers,
         req[w].step \in {"start_write", "pause_write"}, req'[w].step = "emit", timer.duration # None
  PROVE  Remaining(timer', now) <= Remaining(timer, req[w].at)
<1>1. /\ Workers = {w} /\ req[w] \in Request /\ timer \in Timer /\ timer' \in Timer /\ now \in Nat
      /\ Shape(req[w], now) /\ req[w].at \in Nat
  BY TypeStep DEF Serial, SerialInv, TypeOK, Request
<1>2. timer.duration \in Nat /\ timer.elapsed \in Nat
  BY <1>1 DEF Timer
<1>3. (At(w, "start_write") /\ StartWrite(w)) \/ (At(w, "pause_write") /\ PauseWrite(w))
  <2>1. ~Done(w)
    BY <1>1 DEF Done, Idle, SerialInv, TypeOK
  <2>2. req' # req
    OBVIOUS
  <2>3. \A op : ~Arrives(w, op)
    BY DEF Arrives, Idle
  <2>4. At(w, "start_write") \/ At(w, "pause_write")
    BY DEF At
  <2>5. PICK v \in Workers : Quietly(v) \/ Emit(v) \/ Fail(v)
    BY <2>2 DEF Next, Tick, vars
  <2>6. v = w
    BY <1>1
  <2>7. ~AdvanceStep(w)
    BY <2>3, <2>4 DEF AdvanceStep, AdvanceRead, AdvanceGate, AdvanceWrite, At
  <2>8. ~StopStep(w) /\ ~EditStep(w) /\ ~FinishStep(w)
    BY <2>3, <2>4
    DEF StopStep, StopRead, StopWrite, EditStep, EditRead, EditWrite, FinishStep, FinishRead,
        FinishMember, FinishWrite, At
  <2>9. ~Emit(w) /\ ~Fail(w)
    BY <2>1 DEF Emit, Fail
  <2> QED
    BY <2>3, <2>5, <2>6, <2>7, <2>8, <2>9
    DEF Quietly, StartStep, StartRead, StartWrite, PauseStep, PauseRead, PauseWrite
<1>4. CASE At(w, "start_write") /\ StartWrite(w)
  <2>1. PICK t \in Stamps(w) : timer' = [timer EXCEPT !.started = t, !.paused = None]
    BY <1>4 DEF StartWrite
  <2>2. t \in Nat /\ t <= now /\ t # None
    BY <1>1, <2>1, LifecycleAssumption DEF Stamps
  <2>3. ~Running(timer) /\ Running(timer') /\ timer'.started = t
        /\ timer'.duration = timer.duration /\ timer'.elapsed = timer.elapsed
    BY <1>1, <1>4, <2>1, <2>2 DEF SerialInv, Fresh, Startable, Running, Timer
  <2>4. Seconds(t, now) \in Nat
    BY <1>1, <2>2, SecondsNat
  <2>5. Remaining(timer', now) = Left(timer.duration, timer.elapsed, Seconds(t, now))
    BY <1>1, <2>3, RemainingLeft
  <2>6. Remaining(timer, req[w].at) = Left(timer.duration, timer.elapsed, 0)
    BY <1>1, <2>3, RemainingLeft
  <2> QED  BY <1>2, <2>4, <2>5, <2>6, LeftFalls
<1>5. CASE At(w, "pause_write") /\ PauseWrite(w)
  <2>1. PICK t \in Stamps(w) : timer' = Paused(timer, req[w].row, t)
    BY <1>5 DEF PauseWrite
  <2>2. t \in Nat /\ req[w].at <= t /\ t # None
    BY <1>1, <2>1, LifecycleAssumption DEF Stamps
  <2>3. /\ req[w].row = timer /\ Running(timer) /\ timer.started \in Nat /\ timer.started <= req[w].at
    BY <1>1, <1>5 DEF SerialInv, Fresh, At, Shape, Running, Timer
  <2>4. ~Running(timer') /\ timer'.duration = timer.duration
        /\ timer'.elapsed = timer.elapsed + Seconds(timer.started, t)
    BY <1>1, <2>1, <2>2, <2>3 DEF Paused, Running, Timer
  <2>5. /\ Seconds(timer.started, t) \in Nat /\ Seconds(timer.started, req[w].at) \in Nat
        /\ Seconds(timer.started, req[w].at) <= Seconds(timer.started, t)
    <3>1. PICK a \in Nat, b \in Nat : a = timer.started /\ b = req[w].at
      BY <1>1, <2>3
    <3>2. a <= b /\ b <= t /\ a <= t
      BY <2>2, <2>3, <3>1
    <3>3. Seconds(a, t) \in Nat /\ Seconds(a, b) \in Nat
      BY <2>2, <3>2, SecondsNat
    <3>4. Seconds(a, b) <= Seconds(a, t)
      BY <2>2, <3>2, SecondsGrow
    <3> QED  BY <3>1, <3>3, <3>4
  <2>6. Remaining(timer', now) = Left(timer.duration, timer.elapsed, Seconds(timer.started, t))
    <3>1. Remaining(timer', now) = Left(timer.duration, timer.elapsed + Seconds(timer.started, t), 0)
      BY <1>1, <2>4, RemainingLeft
    <3> QED  BY <1>2, <2>5, <3>1 DEF Left
  <2>7. Remaining(timer, req[w].at) = Left(timer.duration, timer.elapsed, Seconds(timer.started, req[w].at))
    BY <1>1, <2>3, RemainingLeft
  <2> QED  BY <1>2, <2>5, <2>6, <2>7, LeftFalls
<1> QED  BY <1>3, <1>4, <1>5

\* "Precisão em pausas": with requests one at a time, pausing takes the seconds
\* that ran off the clock and resuming puts none back.  Two starts that overlap do
\* not keep it: the second sets a countdown that already runs back to its start.
THEOREM NoTimeTheorem ==
  ASSUME Serial
  PROVE  Spec => NoTimeGivenBack
<1>1. SerialInv /\ [Next]_vars => SerialInv'
  BY SerialStep
<1>2. SerialInv /\ [Next]_vars =>
        [\A w \in Workers :
           /\ req[w].step \in {"start_write", "pause_write"}
           /\ req'[w].step = "emit"
           /\ timer.duration # None
           => Remaining(timer', now) <= Remaining(timer, req[w].at)]_vars
  BY NoTimeStep
<1> QED  BY <1>1, <1>2, SerialInit, PTL DEF Spec, NoTimeGivenBack

-----------------------------------------------------------------------------
(* The countdown a player sees.  TimerView adds the player's page to the     *)
(* session and takes nothing away.                                          *)

LEMMA PageStep == [TNext]_tvars => [Next]_vars
BY DEF TNext, TStep, Next, Broadcast, Deliver, Reload, Answer, Land, Drop, Reconnect, tvars

\* Every behaviour of the session with a page that watches it is a behaviour of the
\* session: what is proved of Lifecycle holds here too.
THEOREM WatchedTheorem == TSpec => Spec
BY PageStep, PTL DEF TSpec, TInit, Spec

Countdowns ==
  [ duration : Nat \cup {None}, started : Nat \cup {None}, paused : Nat \cup {None}, elapsed : Nat ]

\* The page holds countdowns, and at most one GET.
PageOK ==
  /\ wire \in Seq(Countdowns)
  /\ view \in Countdowns \cup {None}
  /\ get \in [stage : {"none", "asked", "answered"}, row : Timer]
  /\ up \in BOOLEAN /\ calm \in BOOLEAN

LEMMA CountdownOf == ASSUME NEW t \in Timer  PROVE Countdown(t) \in Countdowns
BY DEF Timer, Countdown, Countdowns

\* What a request does to the countdown and to its own event.
LEMMA RequestEmits ==
  ASSUME TypeOK, NEW w \in Workers, Quietly(w) \/ Emit(w) \/ Fail(w)
  PROVE  /\ \A v \in Workers \ {w} : req'[v] = req[v]
         /\ At(w, "emit") => Emit(w)
         /\ \/ timer' = timer /\ ~At(w, "emit")'
            \/ /\ At(w, "emit")' /\ req'[w].row = timer'
               /\ StartWrite(w) \/ PauseWrite(w) \/ StopWrite(w)
            \/ (AdvanceWrite(w) \/ EditWrite(w)) /\ ~At(w, "emit")'
<1> DEFINE Others == \A v \in Workers \ {w} : req'[v] = req[v]
<1>0. req \in [Workers -> Request] /\ req[w] \in Request
  BY DEF TypeOK
<1>1. ASSUME Done(w)  PROVE Others /\ ~At(w, "emit")'
  BY <1>0, <1>1 DEF Done, At, Idle
<1>2. ASSUME Emits(w)  PROVE Others /\ At(w, "emit")' /\ req'[w].row = timer'
  <2>1. PICK q : q = [Idle EXCEPT !.step = "emit", !.row = timer']
    OBVIOUS
  <2>2. q.step = "emit" /\ q.row = timer'
    BY <2>1 DEF Idle
  <2>3. req' = [req EXCEPT ![w] = q]
    BY <1>2, <2>1 DEF Emits
  <2> QED  BY <1>0, <2>2, <2>3 DEF At
<1>3. ASSUME NEW step, NEW u, NEW e, Read(w, step, u, e), step # "emit"
      PROVE  Others /\ timer' = timer /\ ~At(w, "emit")'
  BY <1>0, <1>3 DEF Read, At, row
<1>4. ASSUME NEW step, Goto(w, step), step # "emit"
      PROVE  Others /\ timer' = timer /\ ~At(w, "emit")'
  BY <1>0, <1>4 DEF Goto, At, row, Request
<1>5. CASE AdvanceRead(w) \/ StartRead(w) \/ PauseRead(w) \/ StopRead(w)
           \/ (\E e \in Edits : EditRead(w, e)) \/ (\E u \in Users : FinishRead(w, u))
  <2>1. req[w].step = "idle"
    BY <1>5 DEF AdvanceRead, StartRead, PauseRead, StopRead, EditRead, FinishRead, Arrives, Idle
  <2>2. Others /\ timer' = timer /\ ~At(w, "emit")'
    <3>1. CASE AdvanceRead(w)
      BY <1>3, <3>1 DEF AdvanceRead
    <3>2. CASE StartRead(w) \/ PauseRead(w) \/ StopRead(w)
      BY <1>3, <3>2 DEF StartRead, PauseRead, StopRead
    <3>3. CASE (\E e \in Edits : EditRead(w, e)) \/ (\E u \in Users : FinishRead(w, u))
      BY <1>3, <3>3 DEF EditRead, FinishRead
    <3> QED  BY <1>5, <3>1, <3>2, <3>3
  <2> QED  BY <2>1, <2>2 DEF At
<1>6. CASE AdvanceGate(w) \/ FinishMember(w)
  BY <1>4, <1>6 DEF AdvanceGate, FinishMember, At
<1>7. CASE StartWrite(w) \/ PauseWrite(w) \/ StopWrite(w)
  BY <1>2, <1>7 DEF StartWrite, PauseWrite, StopWrite, At
<1>8. CASE AdvanceWrite(w) \/ EditWrite(w)
  BY <1>1, <1>8 DEF AdvanceWrite, EditWrite, At
<1>9. CASE FinishWrite(w) \/ Emit(w) \/ Fail(w)
  BY <1>1, <1>9 DEF FinishWrite, Emit, Fail, At, row
<1> HIDE DEF Others
<1>10. Others /\ (At(w, "emit") => Emit(w))
         /\ \/ timer' = timer /\ ~At(w, "emit")'
            \/ /\ At(w, "emit")' /\ req'[w].row = timer'
               /\ StartWrite(w) \/ PauseWrite(w) \/ StopWrite(w)
            \/ (AdvanceWrite(w) \/ EditWrite(w)) /\ ~At(w, "emit")'
  BY <1>5, <1>6, <1>7, <1>8, <1>9
  DEF Quietly, AdvanceStep, StartStep, PauseStep, StopStep, EditStep, FinishStep, Others
<1> QED  BY <1>10 DEF Others

\* What a step does to what is under way to the page and to what it shows.
LEMMA WireSteps ==
  ASSUME TypeOK, PageOK, [TNext]_tvars
  PROVE  \/ UNCHANGED <<wire, view, get, up>>
         \/ \E w \in Workers : /\ Broadcast(w) /\ UNCHANGED <<view, get, up>>
                               /\ wire' = IF up THEN Append(wire, Countdown(req[w].row)) ELSE wire
         \/ /\ wire # <<>> /\ wire' = Tail(wire) /\ UNCHANGED <<vars, get, up>>
            /\ view' = IF Head(wire).duration = None THEN view ELSE Head(wire)
         \/ Reload
         \/ /\ get' \in {NoGet, [stage |-> "answered", row |-> timer]} /\ get.stage # "none"
            /\ UNCHANGED <<vars, wire, up>>
            /\ view' = view \/ (get.stage = "answered" /\ view' = Shown(get.row) /\ view' # None)
         \/ wire' = <<>> /\ ~up' /\ up /\ UNCHANGED <<vars, view, get>>
         \/ ~up /\ up' /\ UNCHANGED <<vars, wire, view, get>>
<1>1. CASE UNCHANGED tvars
  BY <1>1 DEF tvars, client
<1>2. CASE TNext
  BY <1>2 DEF TNext, TStep, Broadcast, Deliver, Answer, Land, Drop, Reconnect, client
<1> QED  BY <1>1, <1>2

LEMMA PageOKInit == TInit => PageOK
<1> SUFFICES ASSUME TInit  PROVE PageOK
  OBVIOUS
<1>1. timer \in Timer /\ InitialTimer \in Timer
  BY TypeInit DEF TInit, TypeOK, Init
<1>2. Shown(timer) \in Countdowns \cup {None}
  BY <1>1, CountdownOf DEF Shown
<1>3. <<>> \in Seq(Countdowns)
  OBVIOUS
<1> QED  BY <1>1, <1>2, <1>3 DEF TInit, PageOK, NoGet

LEMMA PageOKNext ==
  ASSUME TypeOK, PageOK, [TNext]_tvars
  PROVE  PageOK'
<1>0. calm' \in BOOLEAN
  BY DEF TNext, Recorded, Disturbed, Reached, tvars, PageOK
<1>1. timer \in Timer /\ InitialTimer \in Timer /\ \A w \in Workers : req[w].row \in Timer
  BY IdleShape DEF TypeOK, Request
<1>2. \A t \in Timer : Countdown(t) \in Countdowns /\ Shown(t) \in Countdowns \cup {None}
  BY CountdownOf DEF Shown
<1>3. wire # <<>> => Head(wire) \in Countdowns /\ Tail(wire) \in Seq(Countdowns)
  BY DEF PageOK
<1>4. \A w \in Workers : Append(wire, Countdown(req[w].row)) \in Seq(Countdowns)
  BY <1>1, <1>2 DEF PageOK
<1>5. wire' \in Seq(Countdowns)
  <2>1. <<>> \in Seq(Countdowns)
    OBVIOUS
  <2>2. Reload => wire' = wire
    BY DEF Reload
  <2> QED  BY <1>3, <1>4, <2>1, <2>2, WireSteps DEF PageOK
<1>6. view' \in Countdowns \cup {None}
  BY <1>1, <1>2, <1>3, WireSteps DEF PageOK, Reload
<1>7. get' \in [stage : {"none", "asked", "answered"}, row : Timer] /\ up' \in BOOLEAN
  <2>1. NoGet \in [stage : {"none", "asked", "answered"}, row : Timer]
    BY <1>1 DEF NoGet
  <2>2. Reload => get' \in [stage : {"none", "asked", "answered"}, row : Timer] /\ up' = up
    BY <1>1 DEF Reload, NoGet
  <2>3. [stage |-> "answered", row |-> timer] \in [stage : {"none", "asked", "answered"}, row : Timer]
    BY <1>1
  <2>4. get' = get \/ get' = NoGet \/ get' = [stage |-> "answered", row |-> timer] \/ Reload
    BY WireSteps
  <2>5. get' \in [stage : {"none", "asked", "answered"}, row : Timer]
    BY <2>1, <2>2, <2>3, <2>4 DEF PageOK
  <2>6. up' \in BOOLEAN
    <3>1. CASE UNCHANGED tvars
      BY <3>1 DEF tvars, client, PageOK
    <3>2. CASE TNext
      BY <3>2 DEF TNext, TStep, Broadcast, Deliver, Reload, Answer, Land, Drop, Reconnect, client, PageOK
    <3> QED  BY <3>1, <3>2
  <2> QED  BY <2>5, <2>6
<1> QED  BY <1>0, <1>5, <1>6, <1>7 DEF PageOK

LEMMA WireParts ==
  ASSUME NEW q \in Seq(Countdowns)
  PROVE  /\ q # <<>> => /\ Head(q) = q[1] /\ Len(q) \in Nat \ {0} /\ 1 \in 1..Len(q) /\ Len(q) \in 1..Len(q)
                        /\ Len(Tail(q)) = Len(q) - 1
                        /\ \A i \in 1..Len(Tail(q)) : i + 1 \in 1..Len(q) /\ Tail(q)[i] = q[i + 1]
                        /\ Tail(q) # <<>> => Tail(q)[Len(Tail(q))] = q[Len(q)]
                        /\ Tail(q) = <<>> => Head(q) = q[Len(q)]
         /\ \A x \in Countdowns :
              /\ Append(q, x) # <<>> /\ Append(q, x)[Len(Append(q, x))] = x
              /\ \A i \in 1..Len(Append(q, x)) : Append(q, x)[i] = x \/ (i \in 1..Len(q) /\ Append(q, x)[i] = q[i])
<1>1. ASSUME q # <<>>
      PROVE  /\ Head(q) = q[1] /\ Len(q) \in Nat \ {0} /\ Len(Tail(q)) = Len(q) - 1
             /\ \A i \in 1..(Len(q) - 1) : Tail(q)[i] = q[i + 1]
  BY <1>1
<1>2. ASSUME q # <<>>, Tail(q) # <<>>  PROVE Tail(q)[Len(Tail(q))] = q[Len(q)]
  <2>1. Len(q) - 1 \in 1..(Len(q) - 1) /\ (Len(q) - 1) + 1 = Len(q)
    BY <1>1, <1>2
  <2> QED  BY <1>1, <1>2, <2>1
<1>3. ASSUME q # <<>>, Tail(q) = <<>>  PROVE Head(q) = q[Len(q)]
  <2>1. Len(q) - 1 = 0
    BY <1>1, <1>3
  <2> QED  BY <1>1, <1>3, <2>1
<1>4. ASSUME q # <<>>, NEW i \in 1..Len(Tail(q))  PROVE i + 1 \in 1..Len(q) /\ Tail(q)[i] = q[i + 1]
  BY <1>1, <1>4
<1>5. ASSUME NEW x \in Countdowns
      PROVE  /\ Append(q, x) # <<>> /\ Append(q, x)[Len(Append(q, x))] = x
             /\ \A i \in 1..Len(Append(q, x)) : Append(q, x)[i] = x \/ (i \in 1..Len(q) /\ Append(q, x)[i] = q[i])
  <2>1. /\ Len(Append(q, x)) = Len(q) + 1 /\ Len(q) \in Nat /\ Append(q, x)[Len(q) + 1] = x
        /\ \A i \in 1..Len(q) : Append(q, x)[i] = q[i]
    OBVIOUS
  <2>2. 1..(Len(q) + 1) = (1..Len(q)) \cup {Len(q) + 1}
    BY <2>1
  <2>3. Append(q, x) # <<>>
    <3>1. Len(Append(q, x)) # 0 /\ Len(<<>>) = 0
      BY <2>1
    <3> QED  BY <3>1
  <2> QED  BY <2>1, <2>2, <2>3
<1> QED  BY <1>1, <1>2, <1>3, <1>4, <1>5

\* A handler that is about to send its event holds what it wrote.
LEMMA EventSteps ==
  ASSUME TypeOK, [TNext]_tvars, NEW w \in Workers, At(w, "emit")'
  PROVE  (At(w, "emit") /\ req'[w] = req[w]) \/ req'[w].row = timer'
<1>1. req' = req => At(w, "emit") /\ req'[w] = req[w]
  BY DEF At
<1>2. ASSUME NEW v \in Workers, Quietly(v) \/ Emit(v) \/ Fail(v)
      PROVE  (At(w, "emit") /\ req'[w] = req[w]) \/ req'[w].row = timer'
  <2>1. CASE v = w
    BY <1>2, <2>1, RequestEmits
  <2>2. CASE v # w
    BY <1>2, <2>2, RequestEmits DEF At
  <2> QED  BY <2>1, <2>2
<1> QED  BY <1>1, <1>2, PageStep DEF Next, Tick, vars

PastInv ==
  /\ Countdown(timer) \in past
  /\ \A w \in Workers : At(w, "emit") => Countdown(req[w].row) \in past
  /\ \A i \in 1..Len(wire) : wire[i] \in past
  /\ get.stage = "answered" => Countdown(get.row) \in past
  /\ view # None => view \in past

LEMMA PastInit == TInit => PastInv
<1> SUFFICES ASSUME TInit  PROVE PastInv
  OBVIOUS
<1>1. \A w \in Workers : ~At(w, "emit")
  BY DEF TInit, Init, At, Idle
<1>2. Len(wire) = 0 /\ 1..0 = {}
  BY DEF TInit
<1>3. Shown(timer) # None => Shown(timer) = Countdown(timer)
  BY DEF Shown
<1> QED  BY <1>1, <1>2, <1>3 DEF TInit, PastInv, NoGet

LEMMA PastNext ==
  ASSUME TypeOK, PageOK, PastInv, [TNext]_tvars
  PROVE  PastInv'
<1>1. past \subseteq past' /\ Countdown(timer') \in past'
  <2>1. CASE TNext
    BY <2>1 DEF TNext, Recorded
  <2>2. CASE UNCHANGED tvars
    BY <2>2 DEF tvars, vars, row, PastInv
  <2> QED  BY <2>1, <2>2
<1>2. ASSUME NEW w \in Workers, At(w, "emit")'  PROVE Countdown(req'[w].row) \in past'
  <2>1. CASE At(w, "emit") /\ req'[w] = req[w]
    BY <1>1, <2>1 DEF PastInv
  <2>2. CASE req'[w].row = timer'
    BY <1>1, <2>2
  <2> QED  BY <1>2, <2>1, <2>2, EventSteps
<1>3. ASSUME NEW w \in Workers, Broadcast(w)  PROVE Countdown(req[w].row) \in Countdowns \cap past
  BY <1>3, CountdownOf DEF Broadcast, Emit, PastInv, TypeOK, Request
<1>4. ASSUME NEW i \in 1..Len(wire')  PROVE wire'[i] \in past'
  <2>1. CASE wire' = wire
    BY <1>1, <1>4, <2>1 DEF PastInv
  <2>2. ASSUME NEW w \in Workers, Broadcast(w), wire' = Append(wire, Countdown(req[w].row))
        PROVE  wire'[i] \in past'
    <3>1. PICK x : x = Countdown(req[w].row)
      OBVIOUS
    <3>2. x \in Countdowns /\ x \in past
      BY <1>3, <2>2, <3>1
    <3>3. wire'[i] = x \/ (i \in 1..Len(wire) /\ wire'[i] = wire[i])
      BY <1>4, <2>2, <3>1, <3>2, WireParts DEF PageOK
    <3> QED  BY <1>1, <3>2, <3>3 DEF PastInv
  <2>3. CASE wire # <<>> /\ wire' = Tail(wire)
    <3>1. i + 1 \in 1..Len(wire) /\ wire'[i] = wire[i + 1]
      BY <1>4, <2>3, WireParts DEF PageOK
    <3> QED  BY <1>1, <3>1 DEF PastInv
  <2>4. CASE wire' = <<>>
    BY <1>4, <2>4
  <2> QED  BY <2>1, <2>2, <2>3, <2>4, WireSteps DEF Reload
<1>5. ASSUME get'.stage = "answered"  PROVE Countdown(get'.row) \in past'
  <2>1. get' = get \/ get' = NoGet \/ get' = [stage |-> "answered", row |-> timer] \/ Reload
    BY WireSteps
  <2>2. CASE get' = get
    BY <1>1, <1>5, <2>2 DEF PastInv
  <2>3. CASE get' = [stage |-> "answered", row |-> timer]
    BY <1>1, <2>3 DEF PastInv
  <2> QED  BY <1>5, <2>1, <2>2, <2>3 DEF NoGet, Reload
<1>6. ASSUME view' # None  PROVE view' \in past'
  <2>1. CASE view' = view
    BY <1>1, <1>6, <2>1 DEF PastInv
  <2>2. CASE wire # <<>> /\ view' = Head(wire)
    <3>1. Head(wire) = wire[1] /\ 1 \in 1..Len(wire)
      BY <2>2, WireParts DEF PageOK
    <3> QED  BY <1>1, <2>2, <3>1 DEF PastInv
  <2>3. CASE get.stage = "answered" /\ view' = Shown(get.row)
    <3>1. view' = Countdown(get.row)
      BY <1>6, <2>3 DEF Shown
    <3> QED  BY <1>1, <2>3, <3>1 DEF PastInv
  <2> QED  BY <1>6, <2>1, <2>2, <2>3, WireSteps DEF Reload
<1>7. \A i \in 1..Len(wire') : (wire[i])' \in past'
  BY <1>4
<1> HIDE DEF Countdown
<1> QED  BY <1>1, <1>2, <1>5, <1>6, <1>7 DEF PastInv

\* However requests overlap and whatever is lost on the way, what a player sees is
\* a countdown the session has had.
THEOREM ShownTheorem == TSpec => []ShownWasTrue
<1>1. TInit => TypeOK /\ PageOK /\ PastInv
  BY TypeInit, PageOKInit, PastInit DEF TInit
<1>2. (TypeOK /\ PageOK /\ PastInv) /\ [TNext]_tvars => (TypeOK /\ PageOK /\ PastInv)'
  BY PageStep, TypeStep, PageOKNext, PastNext
<1>3. PastInv => ShownWasTrue
  BY DEF PastInv, ShownWasTrue
<1> QED  BY <1>1, <1>2, <1>3, PTL DEF TSpec

\* Only timer requests and finishes: neither an advance nor an edit of the session,
\* which change the countdown and send no event, is on its way.
NoSilentWrite ==
  \A w \in Workers : req[w].step \notin {"advance_gate", "advance_write", "edit_write"}

\* The last countdown under way, or the one shown, is the session's, unless an
\* event with it is about to be sent.
SyncInv ==
  /\ NoSilentWrite
  /\ calm => up /\ get = NoGet
  /\ ~up => wire = <<>>
  /\ timer.duration = InitialDuration /\ get.row.duration = InitialDuration
  /\ InitialDuration = None => view = None
  /\ \A i \in 1..Len(wire) : wire[i].duration = InitialDuration
  /\ \A w \in Workers : At(w, "emit") => req[w].row = timer
  /\ (\A w \in Workers : ~At(w, "emit")) =>
       /\ wire # <<>> => wire[Len(wire)] = Countdown(timer)
       /\ wire = <<>> /\ calm => view \in {None, Countdown(timer)}

LEMMA SyncInit == TInit => SyncInv
<1> SUFFICES ASSUME TInit  PROVE SyncInv
  OBVIOUS
<1>1. \A w \in Workers : req[w].step = "idle"
  BY DEF TInit, Init, Idle
<1>2. Len(wire) = 0 /\ 1..0 = {} /\ wire = <<>>
  BY DEF TInit
<1>3. view \in {None, Countdown(timer)} /\ timer.duration = InitialDuration
      /\ (InitialDuration = None => view = None)
  BY DEF TInit, Init, Shown, InitialTimer
<1> QED  BY <1>1, <1>2, <1>3 DEF TInit, SyncInv, NoSilentWrite, At, NoGet, InitialTimer

\* Which requests come is up to the clients of the instance.
LEMMA SilentKept ==
  ASSUME TypeOK, NoSilentWrite, Mix \cap {"advance", "edit"} = {}, [Next]_vars
  PROVE  /\ NoSilentWrite'
         /\ \A w \in Workers : ~AdvanceWrite(w) /\ ~EditWrite(w)
<1>0. req \in [Workers -> Request] /\ \A w \in Workers : ~AdvanceWrite(w) /\ ~EditWrite(w)
  BY DEF TypeOK, NoSilentWrite, AdvanceWrite, EditWrite, At
<1>1. ASSUME NEW w \in Workers, NEW step, NEW u, NEW e, Read(w, step, u, e),
             step \notin {"advance_gate", "advance_write", "edit_write"}
      PROVE  NoSilentWrite'
  BY <1>0, <1>1 DEF Read, NoSilentWrite
<1>2. ASSUME NEW w \in Workers, Done(w) \/ Emits(w)  PROVE NoSilentWrite'
  <2>1. PICK q : req' = [req EXCEPT ![w] = q] /\ q.step \in {"idle", "emit"}
    <3>1. Idle.step = "idle" /\ [Idle EXCEPT !.step = "emit", !.row = timer'].step = "emit"
      BY DEF Idle
    <3> QED  BY <1>2, <3>1 DEF Done, Emits
  <2> QED  BY <1>0, <2>1 DEF NoSilentWrite
<1>3. ASSUME NEW w \in Workers, Goto(w, "finish_write")  PROVE NoSilentWrite'
  BY <1>0, <1>3 DEF Goto, NoSilentWrite, Request
<1>4. ASSUME NEW w \in Workers, Quietly(w) \/ Emit(w) \/ Fail(w)  PROVE NoSilentWrite'
  <2>1. ~AdvanceRead(w) /\ \A e \in Edits : ~EditRead(w, e)
    BY DEF AdvanceRead, EditRead, Arrives
  <2>2. ~AdvanceGate(w)
    BY DEF AdvanceGate, NoSilentWrite, At
  <2>3. CASE StartRead(w) \/ PauseRead(w) \/ StopRead(w) \/ \E u \in Users : FinishRead(w, u)
    BY <1>1, <2>3 DEF StartRead, PauseRead, StopRead, FinishRead
  <2>4. CASE FinishMember(w)
    BY <1>3, <2>4 DEF FinishMember
  <2>5. CASE StartWrite(w) \/ PauseWrite(w) \/ StopWrite(w) \/ FinishWrite(w) \/ Emit(w) \/ Fail(w)
    BY <1>2, <2>5 DEF StartWrite, PauseWrite, StopWrite, FinishWrite, Emit, Fail
  <2> QED
    BY <1>0, <1>4, <2>1, <2>2, <2>3, <2>4, <2>5
    DEF Quietly, AdvanceStep, StartStep, PauseStep, StopStep, EditStep, FinishStep
<1>5. req' = req => NoSilentWrite'
  BY DEF NoSilentWrite
<1> QED  BY <1>0, <1>4, <1>5 DEF Next, Tick, vars

\* Starting, pausing and stopping keep the duration.
LEMMA DurationKept ==
  ASSUME TypeOK, NEW w \in Workers, StartWrite(w) \/ PauseWrite(w) \/ StopWrite(w)
  PROVE  timer'.duration = timer.duration
BY DEF StartWrite, PauseWrite, StopWrite, Paused, Reset, TypeOK, Timer

\* With requests one at a time, what a handler is about to send is the session's
\* countdown, and a step that changes that countdown ends in such a handler.
LEMMA SerialEmits ==
  ASSUME Serial, TypeOK, SyncInv, Mix \cap {"advance", "edit"} = {}, [Next]_vars
  PROVE  /\ timer'.duration = InitialDuration
         /\ \A w \in Workers : At(w, "emit")' => req'[w].row = timer'
         /\ \/ UNCHANGED timer /\ \A w \in Workers : At(w, "emit")' <=> At(w, "emit")
            \/ \E w \in Workers : At(w, "emit")'
            \/ UNCHANGED timer /\ \E w \in Workers : Emit(w)
<1>0. \A w \in Workers : ~AdvanceWrite(w) /\ ~EditWrite(w)
  BY SilentKept DEF SyncInv
<1>1. CASE UNCHANGED <<timer, req>>
  BY <1>1 DEF SyncInv, At
<1>2. ASSUME NEW w \in Workers, Quietly(w) \/ Emit(w) \/ Fail(w)
      PROVE  /\ timer'.duration = InitialDuration
             /\ \A v \in Workers : At(v, "emit")' => req'[v].row = timer'
             /\ \/ UNCHANGED timer /\ \A v \in Workers : At(v, "emit")' <=> At(v, "emit")
                \/ \E v \in Workers : At(v, "emit")'
                \/ UNCHANGED timer /\ \E v \in Workers : Emit(v)
  <2>1. Workers = {w}
    BY DEF Serial
  <2>2. CASE timer' = timer /\ ~At(w, "emit")'
    BY <1>2, <2>1, <2>2, RequestEmits DEF SyncInv
  <2>3. CASE /\ At(w, "emit")' /\ req'[w].row = timer'
             /\ StartWrite(w) \/ PauseWrite(w) \/ StopWrite(w)
    BY <2>1, <2>3, DurationKept DEF SyncInv
  <2> QED  BY <1>0, <1>2, <2>2, <2>3, RequestEmits
<1> QED  BY <1>1, <1>2 DEF Next, Tick, row, vars

\* A handler that is about to send its event does nothing else.
LEMMA EmitBroadcasts ==
  ASSUME TypeOK, [TNext]_tvars, NEW w \in Workers, At(w, "emit"), ~At(w, "emit")'
  PROVE  Broadcast(w)
<1>1. req' # req
  BY DEF At
<1>2. PICK v \in Workers : Broadcast(v) \/ Quietly(v) \/ Fail(v)
  BY <1>1 DEF TNext, TStep, Tick, Deliver, Reload, Answer, Land, Drop, Reconnect, tvars, vars
<1>3. v = w
  <2>1. Quietly(v) \/ Emit(v) \/ Fail(v)
    BY <1>2 DEF Broadcast
  <2> QED  BY <2>1, RequestEmits DEF At
<1>4. ~Fail(w)
  BY DEF Fail, At
<1>5. ~Quietly(w)
  BY DEF Quietly, AdvanceStep, StartStep, PauseStep, StopStep, EditStep, FinishStep, Arrives, At, Idle,
         AdvanceRead, AdvanceGate, AdvanceWrite, StartRead, StartWrite, PauseRead, PauseWrite, StopRead,
         StopWrite, EditRead, EditWrite, FinishRead, FinishMember, FinishWrite
<1> QED  BY <1>2, <1>3, <1>4, <1>5

\* A page that is calm has its connection and no GET under way, and was so before or
\* has just been reached.
LEMMA CalmSteps ==
  ASSUME TypeOK, PageOK, SyncInv, [TNext]_tvars, calm'
  PROVE  up' /\ get = NoGet /\ get' = NoGet /\ (calm \/ (wire # <<>> /\ wire' = Tail(wire)))
<1>1. CASE UNCHANGED tvars
  BY <1>1 DEF tvars, client, SyncInv
<1>2. CASE TNext
  <2>1. (calm \/ Reached) /\ ~Disturbed
    BY <1>2 DEF TNext, Recorded
  <2>2. get = NoGet /\ up'
    BY <2>1 DEF SyncInv, Reached, Disturbed
  <2>3. get'.stage # "asked"
    BY <2>1 DEF Disturbed
  <2>4. get' = NoGet
    BY <2>2, <2>3, WireSteps DEF Reload, NoGet
  <2> QED  BY <2>1, <2>2, <2>4 DEF Reached
<1> QED  BY <1>1, <1>2

LEMMA SyncNext ==
  ASSUME Serial, TypeOK, PageOK, SyncInv, Mix \cap {"advance", "edit"} = {}, [TNext]_tvars
  PROVE  SyncInv'
<1>1. NoSilentWrite'
  BY SilentKept, PageStep DEF SyncInv
<1>2. calm' => up' /\ get' = NoGet
  BY CalmSteps
<1>3. ~up' => wire' = <<>>
  BY WireSteps DEF SyncInv, Reload
<1>4. timer'.duration = InitialDuration /\ \A w \in Workers : At(w, "emit")' => req'[w].row = timer'
  BY SerialEmits, PageStep
<1>5. get'.row.duration = InitialDuration
  <2>1. get' = get \/ get' = NoGet \/ get' = [stage |-> "answered", row |-> timer] \/ Reload
    BY WireSteps
  <2> QED  BY <2>1 DEF SyncInv, NoGet, InitialTimer, Reload
<1>6. ASSUME NEW w \in Workers, Broadcast(w)
      PROVE  /\ Countdown(req[w].row) = Countdown(timer) /\ timer' = timer
             /\ Countdown(timer) \in Countdowns /\ Countdown(timer).duration = InitialDuration
  <2>1. req[w].row = timer /\ timer' = timer
    BY <1>6 DEF Broadcast, Emit, SyncInv, row
  <2> QED  BY <2>1, CountdownOf DEF SyncInv, TypeOK, Countdown
<1>7. ASSUME InitialDuration = None  PROVE view' = None
  <2>1. view = None
    BY <1>7 DEF SyncInv
  <2>2. wire # <<>> => Head(wire).duration = None
    BY <1>7, WireParts DEF SyncInv, PageOK
  <2>3. Shown(get.row) = None
    BY <1>7 DEF SyncInv, Shown
  <2> QED  BY <2>1, <2>2, <2>3, WireSteps DEF Reload
<1>8. ASSUME NEW i \in 1..Len(wire')  PROVE wire'[i].duration = InitialDuration
  <2>1. CASE wire' = wire
    BY <1>8, <2>1 DEF SyncInv
  <2>2. ASSUME NEW w \in Workers, Broadcast(w), wire' = Append(wire, Countdown(req[w].row))
        PROVE  wire'[i].duration = InitialDuration
    <3>1. PICK x : x = Countdown(timer)
      OBVIOUS
    <3>2. x \in Countdowns /\ x.duration = InitialDuration /\ wire' = Append(wire, x)
      BY <1>6, <2>2, <3>1
    <3>3. wire'[i] = x \/ (i \in 1..Len(wire) /\ wire'[i] = wire[i])
      BY <1>8, <3>2, WireParts DEF PageOK
    <3> QED  BY <3>2, <3>3 DEF SyncInv
  <2>3. CASE wire # <<>> /\ wire' = Tail(wire)
    <3>1. i + 1 \in 1..Len(wire) /\ wire'[i] = wire[i + 1]
      BY <1>8, <2>3, WireParts DEF PageOK
    <3> QED  BY <3>1 DEF SyncInv
  <2>4. CASE wire' = <<>>
    BY <1>8, <2>4
  <2> QED  BY <2>1, <2>2, <2>3, <2>4, WireSteps DEF Reload
<1>9. ASSUME \A w \in Workers : ~At(w, "emit")'
      PROVE  /\ wire' # <<>> => wire'[Len(wire')] = Countdown(timer')
             /\ wire' = <<>> /\ calm' => view' \in {None, Countdown(timer')}
  <2>1. CASE \E w \in Workers : At(w, "emit")
    <3>1. PICK w \in Workers : Broadcast(w)
      BY <1>9, <2>1, EmitBroadcasts
    <3>2. PICK x : x = Countdown(timer)
      OBVIOUS
    <3>3. wire' = (IF up THEN Append(wire, x) ELSE wire) /\ timer' = timer /\ x \in Countdowns /\ up' = up
      BY <1>6, <3>1, <3>2 DEF Broadcast
    <3>4. CASE up
      BY <3>2, <3>3, <3>4, WireParts DEF PageOK
    <3>5. CASE ~up
      BY <3>3, <3>5, <1>2 DEF SyncInv
    <3> QED  BY <3>4, <3>5
  <2>2. CASE \A w \in Workers : ~At(w, "emit")
    <3>1. timer' = timer
      BY <1>9, <2>2, SerialEmits, PageStep DEF Emit
    <3>2. PICK x : x = Countdown(timer)
      OBVIOUS
    <3>3. /\ wire # <<>> => wire[Len(wire)] = x
          /\ wire = <<>> /\ calm => view \in {None, x}
      BY <2>2, <3>2 DEF SyncInv
    <3>4. CASE wire' = wire /\ view' = view
      BY <3>1, <3>2, <3>3, <3>4, CalmSteps
    <3>5. CASE /\ wire # <<>> /\ wire' = Tail(wire)
               /\ view' = IF Head(wire).duration = None THEN view ELSE Head(wire)
      <4>1. wire' # <<>> => wire'[Len(wire')] = x
        BY <3>3, <3>5, WireParts DEF PageOK
      <4>2. ASSUME wire' = <<>>  PROVE view' \in {None, x}
        <5>1. Head(wire) = x
          BY <3>3, <3>5, <4>2, WireParts DEF PageOK
        <5>2. x.duration = None => view = None
          BY <3>2 DEF SyncInv, Countdown
        <5> QED  BY <3>5, <5>1, <5>2
      <4> QED  BY <3>1, <3>2, <4>1, <4>2
    <3>6. CASE Reload
      BY <3>1, <3>2, <3>3, <3>6 DEF Reload
    <3>7. CASE get.stage # "none" /\ wire' = wire
      BY <3>1, <3>2, <3>3, <3>7, CalmSteps DEF NoGet
    <3>8. CASE wire' = <<>> /\ ~up'
      BY <3>8, CalmSteps
    <3>9. CASE ~up /\ wire' = wire
      BY <3>9, CalmSteps DEF SyncInv
    <3> QED  BY <2>2, <3>4, <3>5, <3>6, <3>7, <3>8, <3>9, WireSteps DEF Broadcast, Emit
  <2> QED  BY <2>1, <2>2
<1>10. \A i \in 1..Len(wire') : (wire[i].duration = InitialDuration)'
  BY <1>8
<1> HIDE DEF Countdown
<1> QED  BY <1>1, <1>2, <1>3, <1>4, <1>5, <1>7, <1>9, <1>10 DEF SyncInv

\* With the timer's requests one at a time a player's countdown keeps up: when
\* nothing is under way to his page and it has not been disturbed since the last
\* event, it shows the session's.  An advance or an edit changes the countdown
\* without an event; two requests that overlap send theirs in the wrong order.
THEOREM SyncedTheorem ==
  ASSUME Serial, Mix \cap {"advance", "edit"} = {}
  PROVE  TSpec => []SyncedWhenQuiet
<1>1. TInit => TypeOK /\ PageOK /\ SyncInv
  BY TypeInit, PageOKInit, SyncInit DEF TInit
<1>2. (TypeOK /\ PageOK /\ SyncInv) /\ [TNext]_tvars => (TypeOK /\ PageOK /\ SyncInv)'
  BY PageStep, TypeStep, PageOKNext, SyncNext
<1>3. SyncInv => SyncedWhenQuiet
  BY DEF SyncInv, SyncedWhenQuiet, Quiet, At
<1> QED  BY <1>1, <1>2, <1>3, PTL DEF TSpec
=============================================================================
