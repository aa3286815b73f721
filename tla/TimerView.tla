----------------------------- MODULE TimerView -----------------------------
(***************************************************************************)
(* The countdown one player sees: the session row of Lifecycle, the events *)
(* the gateway broadcasts to the session's room, the player's socket and   *)
(* the hook useRealtimeTimer, which loads the timer once over HTTP and     *)
(* from then on believes the events.                                       *)
(*                                                                         *)
(* Socket.io keeps the order of the events of one connection; what is sent *)
(* while a client is disconnected is lost to it.                           *)
(***************************************************************************)
EXTENDS Lifecycle, Sequences

CONSTANTS
  ClientMix,   \* what happens to the page: "reload", "drop"
  MaxWire      \* bound: events under way to the client

ASSUME TimerViewAssumption == ClientMix \subseteq {"reload", "drop"}

VARIABLES
  wire,   \* session:timer_updated events under way to the client
  view,   \* timerState of the hook; None before the first answer or event
  get,    \* GET /sessions/:id of the mounted page and the row it answers with
  up,     \* is the socket connected and in the room?
  past,   \* history: the countdowns the session has had; no action reads it
  calm    \* history: since it last lost its connection, was loaded again or left
          \* a round, the page has been reached by an event; no action reads it

client == <<wire, view, get, up>>
tvars  == <<vars, client, past, calm>>

\* The columns that travel.
Countdown(t) ==
  [duration |-> t.duration, started |-> t.started, paused |-> t.paused,
   elapsed |-> t.elapsed]

NoGet == [stage |-> "none", row |-> InitialTimer]

\* What disturbs the page and what sets it right again.
Disturbed == (up /\ ~up') \/ get'.stage = "asked" \/ status' # status
Reached   == wire # <<>> /\ wire' = Tail(wire) /\ up' /\ get = NoGet

Recorded ==
  /\ past' = past \cup {Countdown(timer')}
  /\ calm' = IF Disturbed THEN FALSE ELSE calm \/ Reached

Shown(t) == IF t.enabled /\ t.duration # None THEN Countdown(t) ELSE None

-----------------------------------------------------------------------------
\* The event of Lifecycle's Emit reaches the room.
Broadcast(w) ==
  /\ Emit(w)
  /\ Len(wire) < MaxWire
  /\ wire' = IF up THEN Append(wire, Countdown(req[w].row)) ELSE wire
  /\ UNCHANGED <<view, get, up>>

DeliverSlip ==   \* the handler keeps the pause it knew
  /\ wire # <<>>
  /\ view' = IF Head(wire).duration = None THEN view
             ELSE [Head(wire) EXCEPT !.paused = IF view = None THEN @ ELSE view.paused]
  /\ wire' = Tail(wire)
  /\ UNCHANGED <<vars, get, up>>

Deliver ==
  /\ wire # <<>>
  /\ view' = IF Head(wire).duration = None THEN view ELSE Head(wire)
  /\ wire' = Tail(wire)
  /\ UNCHANGED <<vars, get, up>>

\* The page is left for another and entered again: the hook's state is gone and
\* the GET leaves.  The socket of the shell stays.
Reload ==
  /\ "reload" \in ClientMix
  /\ get = NoGet
  /\ view' = None
  /\ get' = [NoGet EXCEPT !.stage = "asked"]
  /\ UNCHANGED <<vars, wire, up>>

Answer ==
  /\ get.stage = "asked"
  /\ get' = [stage |-> "answered", row |-> timer]
  /\ UNCHANGED <<vars, wire, view, up>>

\* The answer replaces whatever the events said since.
Land ==
  /\ get.stage = "answered"
  /\ view' = IF Shown(get.row) = None THEN view ELSE Shown(get.row)
  /\ get' = NoGet
  /\ UNCHANGED <<vars, wire, up>>

Drop ==
  /\ "drop" \in ClientMix
  /\ up
  /\ up' = FALSE
  /\ wire' = <<>>
  /\ UNCHANGED <<vars, view, get>>

\* Socket.io reconnects by itself and flushJoins enters the rooms again.
Reconnect ==
  /\ ~up
  /\ up' = TRUE
  /\ UNCHANGED <<vars, wire, view, get>>

TInit ==
  /\ Init
  /\ wire = <<>>
  /\ view = Shown(timer)
  /\ get = NoGet
  /\ up = TRUE
  /\ past = {Countdown(timer)}
  /\ calm = TRUE

TStep ==
  \/ \E w \in Workers : Broadcast(w) \/ ((Quietly(w) \/ Fail(w)) /\ UNCHANGED client)
  \/ Tick /\ UNCHANGED client
  \/ Deliver \/ Reload \/ Answer \/ Land \/ Drop \/ Reconnect

TNext == TStep /\ Recorded

TSpec == TInit /\ [][TNext]_tvars

\* The server's event loop gets to a resolved await, and the socket delivers.
TFairSpec ==
  /\ TSpec
  /\ \A w \in Workers : WF_tvars(Broadcast(w) /\ Recorded)
  /\ WF_tvars(Deliver /\ Recorded)

-----------------------------------------------------------------------------
Quiet ==
  /\ \A w \in Workers : At(w, "idle")
  /\ wire = <<>> /\ get = NoGet /\ up

\* "Mantém sincronizado via WebSocket": with no request, event or answer under
\* way, a player who is shown a countdown is shown the session's.  A page that was
\* loaded again or lost its connection may be behind, but only until the next
\* event.
SyncedWhenQuiet == Quiet /\ calm /\ view # None => view = Countdown(timer)

\* Whatever is lost, late or overtaken, a player may be shown an old countdown
\* but never one the session did not have: no columns of two rows get mixed.
ShownWasTrue == view # None => view \in past

\* "Countdown congela nos clientes": if the timer ends up paused for good and the
\* page undisturbed, then so does the countdown it shows.
FreezesOnClients ==
  <>[](timer.paused # None /\ calm) => <>[](view # None => view.paused # None)
=============================================================================
