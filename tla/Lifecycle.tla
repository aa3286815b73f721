----------------------------- MODULE Lifecycle -----------------------------
(***************************************************************************)
(* The session row over time: the phase the facilitator advances, the      *)
(* round's countdown he starts, pauses, stops or edits, and the early      *)
(* finishes of the players (SessionsService: advanceStatus, startTimer,    *)
(* pauseTimer, stopTimer, setPlayerFinished and the timer part of update). *)
(*                                                                         *)
(* Every handler reads the session, decides, and writes by the session's   *)
(* id; between the two awaits other requests run.  What the handler read   *)
(* is kept in req[w].  Only the owner's requests appear: the ownership     *)
(* check ends the others with no effect.                                   *)
(*                                                                         *)
(* The gate of the reconfiguration and the membership of a player are      *)
(* decided by tables this module does not have (module Roster does): here  *)
(* those queries may let a request through or, by Fail, end it.            *)
(***************************************************************************)
EXTENDS SessionPhases, Integers

CONSTANTS
  Workers,          \* requests the server may be handling at the same time
  Users,
  Mix,              \* the operations clients call in this instance
  InitialStatus,    \* the session as it was created and advanced so far
  InitialDuration,  \* its timerDuration; None: the timer is not configured
  Durations,        \* durations the facilitator may set, in seconds
  TicksPerSecond,   \* the resolution of Date against the seconds of the row
  MaxNow,           \* bound: the last instant of the clock
  None,             \* null
  Missing           \* a field a body does not have, a row that does not exist

Operations == {"advance", "start", "pause", "stop", "edit", "finish"}

ASSUME LifecycleAssumption ==
  /\ Mix \subseteq Operations
  /\ InitialStatus \in Status
  /\ Durations \subseteq Nat \ {0}
  /\ InitialDuration \in Durations \cup {None}
  /\ TicksPerSecond \in Nat \ {0}
  /\ MaxNow \in Nat
  /\ {None, Missing} \cap (Nat \cup BOOLEAN \cup Users) = {}
  /\ None # Missing

VARIABLES
  status,    \* Session.status
  timer,     \* the five timer columns of Session
  finishes,  \* PlayerRoundStatus.remainingTime by player and round
  now,       \* the server's clock
  req,       \* what each worker's handler has read so far
  visited    \* history: the phases the session has been in; no action reads it

row  == <<status, timer, finishes>>
vars == <<status, timer, finishes, now, req, visited>>

Timer ==
  [ enabled  : BOOLEAN,
    duration : Nat \cup {None},
    started  : Nat \cup {None},
    paused   : Nat \cup {None},
    elapsed  : Nat ]

\* The time left in a PlayerRoundStatus row, null where the session has no
\* duration.
Finish == {Missing, None} \cup Nat

\* The body of PATCH /sessions/:id, as far as the timer goes.  A field may be
\* missing; @IsOptional lets an explicit null through as well.
Edit ==
  [ enabled  : BOOLEAN \cup {Missing},
    duration : Nat \cup {Missing, None} ]

WriteSteps == {"advance_write", "start_write", "pause_write", "stop_write",
               "edit_write", "finish_write"}

Steps == {"idle", "advance_gate", "finish_member", "emit"} \cup WriteSteps

Request ==
  [ step : Steps,
    seen : Status,             \* the status, as read
    row  : Timer,              \* the timer columns, as read (emit: as written)
    at   : Nat,                \* when they were read
    user : Users \cup {None},  \* finish: the player
    edit : Edit ]

NoEdit == [enabled |-> Missing, duration |-> Missing]

InitialTimer ==
  [ enabled |-> InitialDuration # None, duration |-> InitialDuration,
    started |-> None, paused |-> None, elapsed |-> 0 ]

Idle ==
  [ step |-> "idle", seen |-> InitialStatus, row |-> InitialTimer, at |-> 0,
    user |-> None, edit |-> NoEdit ]

-----------------------------------------------------------------------------
(* The countdown.                                                          *)

Running(t) == t.started # None /\ t.paused = None

Reset(t) == [t EXCEPT !.started = None, !.paused = None, !.elapsed = 0]

\* Math.floor of a difference of two dates, in seconds.
Seconds(from, to) == (to - from) \div TicksPerSecond

RemainingSlip(t, instant) ==
  LET running == IF Running(t) THEN Seconds(t.started, instant) ELSE 0
  IN  t.duration - t.elapsed - running

\* calculateRemainingTime, for a session that has a duration.
Remaining(t, instant) ==
  LET running == IF Running(t) THEN Seconds(t.started, instant) ELSE 0
      left    == t.duration - t.elapsed - running
  IN  IF left < 0 THEN 0 ELSE left

Startable(t, s) ==
  /\ t.enabled /\ t.duration # None
  /\ s \in ActiveStatus
  /\ ~Running(t)

PausedSlip(t, seen, instant) ==
  [t EXCEPT !.paused = instant, !.elapsed = Seconds(seen.started, instant)]

\* What pauseTimer writes: an absolute value computed from what it has read.
Paused(t, seen, instant) ==
  [t EXCEPT !.paused  = instant,
            !.elapsed = seen.elapsed + Seconds(seen.started, instant)]

-----------------------------------------------------------------------------
(* Requests.                                                               *)

Arrives(w, op) == op \in Mix /\ req[w] = Idle

At(w, step) == req[w].step = step

\* The first query of every handler: the session row.
Read(w, step, u, e) ==
  /\ req' = [req EXCEPT ![w] =
       [step |-> step, seen |-> status, row |-> timer, at |-> now,
        user |-> u, edit |-> e]]
  /\ UNCHANGED <<row, now, visited>>

Goto(w, step) ==
  /\ req' = [req EXCEPT ![w].step = step]
  /\ UNCHANGED <<row, now, visited>>

Done(w) == req' = [req EXCEPT ![w] = Idle]

EmitsSlip(w) ==   \* the event carries the row as it was read
  req' = [req EXCEPT ![w] = [Idle EXCEPT !.step = "emit", !.row = req[w].row]]

\* After its write a timer handler holds the row the update returned.
Emits(w) == req' = [req EXCEPT ![w] = [Idle EXCEPT !.step = "emit", !.row = timer']]

\* new Date() after the read and before the write.
Stamps(w) == req[w].at..now

\* The handler throws, or the query does.  Between the write and the event
\* there is nothing left to throw.
Fail(w) ==
  /\ req[w].step \notin {"idle", "emit"}
  /\ Done(w)
  /\ UNCHANGED <<row, now, visited>>

-----------------------------------------------------------------------------
(* advanceStatus.                                                          *)

AdvanceRead(w) ==
  /\ Arrives(w, "advance")
  /\ status # "FINISHED"
  /\ Read(w, IF status = "RECONFIGURATION" THEN "advance_gate" ELSE "advance_write",
          None, NoEdit)

AdvanceGate(w) == At(w, "advance_gate") /\ Goto(w, "advance_write")

AdvanceWriteSlip(w) ==   \* ROUND_3 is left out of NEXT_STATUS
  /\ At(w, "advance_write")
  /\ status' = IF req[w].seen = "ROUND_2" THEN "FINISHED" ELSE NextStatus[req[w].seen]
  /\ timer' = IF req[w].seen \in ActiveStatus THEN Reset(timer) ELSE timer
  /\ visited' = visited \cup {status'}
  /\ Done(w)
  /\ UNCHANGED <<finishes, now>>

AdvanceWrite(w) ==
  /\ At(w, "advance_write")
  /\ status' = NextStatus[req[w].seen]
  /\ timer' = IF req[w].seen \in ActiveStatus THEN Reset(timer) ELSE timer
  /\ visited' = visited \cup {status'}
  /\ Done(w)
  /\ UNCHANGED <<finishes, now>>

-----------------------------------------------------------------------------
(* startTimer, pauseTimer, stopTimer: read, write, emit.                   *)

StartRead(w) ==
  /\ Arrives(w, "start")
  /\ Startable(timer, status)
  /\ Read(w, "start_write", None, NoEdit)

StartWrite(w) ==
  /\ At(w, "start_write")
  /\ \E t \in Stamps(w) : timer' = [timer EXCEPT !.started = t, !.paused = None]
  /\ Emits(w)
  /\ UNCHANGED <<status, finishes, now, visited>>

PauseRead(w) ==
  /\ Arrives(w, "pause")
  /\ Running(timer)
  /\ Read(w, "pause_write", None, NoEdit)

PauseWrite(w) ==
  /\ At(w, "pause_write")
  /\ \E t \in Stamps(w) : timer' = Paused(timer, req[w].row, t)
  /\ Emits(w)
  /\ UNCHANGED <<status, finishes, now, visited>>

StopRead(w) == Arrives(w, "stop") /\ Read(w, "stop_write", None, NoEdit)

StopWrite(w) ==
  /\ At(w, "stop_write")
  /\ timer' = Reset(timer)
  /\ Emits(w)
  /\ UNCHANGED <<status, finishes, now, visited>>

\* gameGateway.emitTimerUpdate with the row in hand.
Emit(w) ==
  /\ At(w, "emit")
  /\ Done(w)
  /\ UNCHANGED <<row, now, visited>>

-----------------------------------------------------------------------------
(* update: the check uses the row as read and takes a null for a missing    *)
(* value (dto.timerDuration ?? session.timerDuration); the write does not.  *)

EditRead(w, e) == Arrives(w, "edit") /\ Read(w, "edit_write", None, e)

EditAccepted(e, seen) ==
  LET enabled  == IF e.enabled = Missing THEN seen.enabled ELSE e.enabled
      duration == IF e.duration \in {Missing, None} THEN seen.duration ELSE e.duration
  IN  enabled => duration # None

Edited(e, t) ==
  LET base == IF e.enabled = FALSE THEN Reset(t) ELSE t
  IN  [base EXCEPT !.enabled  = IF e.enabled = Missing THEN @ ELSE e.enabled,
                   !.duration = IF e.duration = Missing THEN @ ELSE e.duration]

EditWrite(w) ==
  /\ At(w, "edit_write")
  /\ EditAccepted(req[w].edit, req[w].row)
  /\ timer' = Edited(req[w].edit, timer)
  /\ Done(w)
  /\ UNCHANGED <<status, finishes, now, visited>>

-----------------------------------------------------------------------------
(* setPlayerFinished: session, membership, upsert for the round read first. *)

FinishRead(w, u) ==
  /\ Arrives(w, "finish")
  /\ status \in ActiveStatus
  /\ Read(w, "finish_member", u, NoEdit)

FinishMember(w) == At(w, "finish_member") /\ Goto(w, "finish_write")

FinishWriteSlip(w) ==   \* files the finish under the round after the one read
  LET q == req[w] IN
  /\ At(w, "finish_write")
  /\ finishes' = [finishes EXCEPT ![q.user][IF q.seen = "ROUND_1" THEN 2 ELSE 3] = None]
  /\ Done(w)
  /\ UNCHANGED <<status, timer, now, visited>>

FinishWrite(w) ==
  LET q == req[w] IN
  /\ At(w, "finish_write")
  /\ \E t \in Stamps(w) :
       finishes' = [finishes EXCEPT ![q.user][RoundOf[q.seen]] =
                      IF q.row.duration = None THEN None ELSE Remaining(q.row, t)]
  /\ Done(w)
  /\ UNCHANGED <<status, timer, now, visited>>

-----------------------------------------------------------------------------
Tick ==
  /\ now < MaxNow
  /\ now' = now + 1
  /\ UNCHANGED <<row, req, visited>>

Init ==
  /\ status = InitialStatus
  /\ timer = InitialTimer
  /\ finishes = [u \in Users |-> [r \in 1..3 |-> Missing]]
  /\ now = 0
  /\ req = [w \in Workers |-> Idle]
  /\ visited = {s \in Status : Position(s) <= Position(InitialStatus)}

Edits ==
  [ enabled  : BOOLEAN \cup {Missing},
    duration : Durations \cup {Missing, None} ]

AdvanceStep(w) == AdvanceRead(w) \/ AdvanceGate(w) \/ AdvanceWrite(w)
StartStep(w)   == StartRead(w) \/ StartWrite(w)
PauseStep(w)   == PauseRead(w) \/ PauseWrite(w)
StopStep(w)    == StopRead(w) \/ StopWrite(w)
EditStep(w)    == (\E e \in Edits : EditRead(w, e)) \/ EditWrite(w)
FinishStep(w)  == (\E u \in Users : FinishRead(w, u)) \/ FinishMember(w) \/ FinishWrite(w)

\* Everything a request does short of the event it ends with.
Quietly(w) ==
  \/ AdvanceStep(w) \/ StartStep(w) \/ PauseStep(w)
  \/ StopStep(w) \/ EditStep(w) \/ FinishStep(w)

Next ==
  \/ \E w \in Workers : Quietly(w) \/ Emit(w) \/ Fail(w)
  \/ Tick

Spec == Init /\ [][Next]_vars

-----------------------------------------------------------------------------
\* What a handler has in its variables by the time it reaches a query.
Shape(q, instant) ==
  /\ q.at <= instant
  /\ q.step \in {"advance_gate", "advance_write"} => q.seen # "FINISHED"
  /\ q.step = "pause_write" => q.row.started # None /\ q.row.started <= q.at
  /\ q.step \in {"finish_member", "finish_write"} =>
       /\ q.seen \in ActiveStatus
       /\ q.user \in Users
       /\ Running(q.row) => q.row.started <= q.at

\* The rows are well formed, no date of theirs lies in the future, and neither
\* elapsedBeforePause nor a recorded remainingTime ever turns negative.
TypeOK ==
  /\ status \in Status
  /\ timer \in Timer
  /\ timer.started # None => timer.started <= now
  /\ finishes \in [Users -> [1..3 -> Finish]]
  /\ now \in Nat
  /\ req \in [Workers -> Request]
  /\ visited \subseteq Status
  /\ \A w \in Workers : Shape(req[w], now)

\* "Não dá para pular": however many facilitator requests overlap, a phase is
\* entered only after every earlier phase has been.
PhasesInOrder ==
  \A s, t \in Status : s \in visited /\ Position(t) < Position(s) => t \in visited

\* A player's finish is filed under a round the session has been in.
FinishedRoundWasPlayed ==
  \A u \in Users, s \in ActiveStatus :
    finishes[u][RoundOf[s]] # Missing => s \in visited

\* "Só anda uma casa": the status moves to its successor and nowhere else.
OneStepForward ==
  [][status' # status => status # "FINISHED" /\ status' = NextStatus[status]]_vars

\* "O cronômetro só pode iniciar durante uma rodada ativa", and leaving the
\* round resets it: outside a round nothing counts down.
TimerOnlyInRound == timer.started # None => status \in ActiveStatus

\* "Evitando que o elapsed de uma rodada vaze para a próxima": a timer that is
\* not started has nothing on it.
StoppedIsReset == timer.started = None => timer.paused = None /\ timer.elapsed = 0

\* "Precisão em pausas": neither pausing nor resuming leaves more time on the
\* timer than there was when the request read the row.
NoTimeGivenBack ==
  [][\A w \in Workers :
       /\ req[w].step \in {"start_write", "pause_write"}
       /\ req'[w].step = "emit"
       /\ timer.duration # None
       => Remaining(timer', now) <= Remaining(timer, req[w].at)]_vars
=============================================================================
