------------------------------ MODULE PlanPage ------------------------------
(***************************************************************************)
(* The plan page in the browsers of a store's members: each loads the plan   *)
(* once (usePlan), writes every decision into its copy before the request    *)
(* is sent (handleMutate, handleCategoryDecision), and from then on takes    *)
(* whole plans from answers and from plan:updated events alike, whichever    *)
(* comes last.                                                              *)
(*                                                                         *)
(* A browser has three calls: the GET of the page, one save at a time (the   *)
(* inputs are disabled while one is under way) and the confirmation.  The     *)
(* checks of PlansService are in module Plans; here a request may be refused  *)
(* for any of them.  One category stands for the table: its two cells, the    *)
(* stock and the margin, are changed by different players and saved together.*)
(***************************************************************************)
EXTENDS Integers, Sequences, FiniteSets

CONSTANTS
  Pages,        \* the browsers in which the page is opened
  Managers,     \* those of the store manager
  Fields,       \* the decisions of this instance
  Values,       \* what a decision can be
  Blank,        \* its value in a new plan
  Versions,     \* the configVersions the session goes through
  None,
  MaxWrites     \* bound: writes to the plans

Decisions == [Fields -> Values]

Plan == [decisions : Decisions, confirmed : BOOLEAN]

\* What is sent of a plan, stamped with the writes there were when it was read.
Sent == [version : Versions, plan : Plan, at : Nat]

ASSUME PlanPageAssumption ==
  /\ Managers \subseteq Pages
  /\ Fields \subseteq {"stockPurchased", "priceMargin", "operators", "capex"}
  /\ Blank \in Values
  /\ None \notin Nat \cup Sent
  /\ IsFiniteSet(Versions) /\ Versions \subseteq Nat /\ Versions # {}
  /\ MaxWrites \in Nat

\* The decisions a request names: a category's row is sent whole.
Named(f) == IF f \in {"stockPurchased", "priceMargin"}
            THEN Fields \cap {"stockPurchased", "priceMargin"} ELSE {f}

Calls == {"get", "save", "confirm"}

VARIABLES
  plans,     \* the rows of the store's plans: decisions and confirmed, by version
  phase,     \* the version configVersionFromStatus gives at the moment
  writes,    \* history: writes made so far; each read is stamped with it
  view,      \* plan: the page's copy, or None before the first
  call,      \* the calls of each page and how far the server is with them
  joined,    \* the pages whose socket is in the store's room
  events,    \* plan:updated events under way to each page
  heard,     \* history: the latest stamp that has reached a page or missed it
  fresh      \* history: the pages that show the latest that has reached them, have
             \* missed nothing since and had no save of theirs fail

server  == <<plans, phase, writes>>
history == <<heard, fresh>>
pvars   == <<server, view, call, joined, events, history>>

NewPlan == [decisions |-> [f \in Fields |-> Blank], confirmed |-> FALSE]

\* What is sent of a plan: its row as read when `at` writes had been made.
Message(v) == [version |-> v, plan |-> plans[v], at |-> writes]

Idle == [step |-> "idle", version |-> None, field |-> None, decisions |-> None,
         answer |-> None, basis |-> None]

Under(c, k) == call[c][k].step # "idle"

Saving(c) == Under(c, "save")

\* Writes made or asked for.
Requested ==
  writes + Cardinality({x \in Pages \X {"save", "confirm"} : call[x[1]][x[2]].step \in {"load", "write"}})

\* The inputs of the page can be used.
Editable(c) == view[c] # None /\ ~view[c].plan.confirmed /\ ~Saving(c)

-----------------------------------------------------------------------------
\* setPlan, with what an answer or an event brought.
Show(c, m) ==
  /\ view' = [view EXCEPT ![c] = m]
  /\ heard' = [heard EXCEPT ![c] = IF m.at > @ THEN m.at ELSE @]
  /\ fresh' = IF m.at >= heard[c] THEN fresh \cup {c} ELSE fresh \ {c}

Goes(c, k, step) == call' = [call EXCEPT ![c][k].step = step]

Visit(c) ==   \* the status has been read: the version is settled
  /\ view[c] = None /\ ~Under(c, "get")
  /\ call' = [call EXCEPT ![c]["get"] = [Idle EXCEPT !.step = "read", !.version = phase]]
  /\ UNCHANGED <<server, view, joined, events, history>>

JoinStore(c) ==
  /\ c \notin joined
  /\ view[c] # None \/ Under(c, "get")
  /\ joined' = joined \cup {c}
  /\ UNCHANGED <<server, view, call, events, history>>

WantedSlip(c, f, n) == [g \in Fields |-> IF g = f THEN n ELSE Blank]
Wanted(c, f, n) == [view[c].plan.decisions EXCEPT ![f] = n]

\* A cell is left with a new value, a box is ticked, a field of the staff is
\* left (with or without a new value).  All but the box show it at once.
Decide(c, f, n) ==
  LET wanted == Wanted(c, f, n) IN
  /\ Editable(c) /\ Requested < MaxWrites
  /\ f # "operators" => n # view[c].plan.decisions[f]
  /\ view' = IF f = "capex" THEN view ELSE [view EXCEPT ![c].plan.decisions = wanted]
  /\ call' = [call EXCEPT ![c]["save"] =
       [Idle EXCEPT !.step = "load", !.version = view[c].version, !.field = f,
                    !.decisions = wanted, !.basis = IF c \in fresh THEN heard[c] ELSE None]]
  /\ UNCHANGED <<server, joined, events, history>>

\* Pressed again after a success it would be refused: the button is disabled.
Confirm(c) ==
  /\ c \in Managers
  /\ Editable(c) /\ ~Under(c, "confirm") /\ Requested < MaxWrites
  /\ call' = [call EXCEPT ![c]["confirm"] =
       [Idle EXCEPT !.step = "load", !.version = view[c].version]]
  /\ UNCHANGED <<server, view, joined, events, history>>

-----------------------------------------------------------------------------
(* The server: load and check, write, read again, send.                     *)

LoadPlan(c, k) ==
  /\ call[c][k].step = "load"
  /\ ~plans[call[c][k].version].confirmed
  /\ Goes(c, k, "write")
  /\ UNCHANGED <<server, view, joined, events, history>>

WriteDecisionSlip(c) ==   \* the plan is written whole, as it was when it was loaded
  LET s == call[c]["save"] IN
  /\ s.step = "write"
  /\ plans' = [plans EXCEPT ![s.version] = [decisions |-> s.decisions, confirmed |-> FALSE]]
  /\ writes' = writes + 1
  /\ Goes(c, "save", "read")
  /\ UNCHANGED <<phase, view, joined, events, history>>

WriteDecision(c) ==
  LET s == call[c]["save"] IN
  /\ s.step = "write"
  /\ plans' = [plans EXCEPT ![s.version].decisions =
       [g \in Fields |-> IF g \in Named(s.field) THEN s.decisions[g] ELSE @[g]]]
  /\ writes' = writes + 1
  /\ Goes(c, "save", "read")
  /\ UNCHANGED <<phase, view, joined, events, history>>

WriteConfirm(c) ==
  /\ call[c]["confirm"].step = "write"
  /\ plans' = [plans EXCEPT ![call[c]["confirm"].version].confirmed = TRUE]
  /\ writes' = writes + 1
  /\ Goes(c, "confirm", "read")
  /\ UNCHANGED <<phase, view, joined, events, history>>

\* refreshAndRespond, and getOrCreate for the page's GET.
Refresh(c, k) ==
  /\ call[c][k].step = "read"
  /\ call' = [call EXCEPT ![c][k].step = IF k = "save" THEN "emit" ELSE "answer",
                          ![c][k].answer = Message(call[c][k].version)]
  /\ UNCHANGED <<server, view, joined, events, history>>

\* Pages that have, or are about to get, what they show but are not in the room.
Deaf(c) == c \notin joined /\ (view[c] # None \/ call[c]["get"].step = "answer")

\* emitPlanUpdated.  A confirmation sends nothing to the store's room.
EmitPlanUpdated(c) ==
  LET m == call[c]["save"].answer IN
  /\ call[c]["save"].step = "emit"
  /\ Goes(c, "save", "answer")
  /\ events' = [d \in Pages |-> IF d \in joined THEN Append(events[d], m) ELSE events[d]]
  /\ heard' = [d \in Pages |-> IF Deaf(d) /\ m.at > heard[d] THEN m.at ELSE heard[d]]
  /\ fresh' = {d \in fresh : ~Deaf(d)}
  /\ UNCHANGED <<server, view, joined>>

-----------------------------------------------------------------------------
Respond(c, k) ==
  /\ call[c][k].step = "answer"
  /\ Show(c, call[c][k].answer)
  /\ call' = [call EXCEPT ![c][k] = Idle]
  /\ UNCHANGED <<server, joined, events>>

\* Refused by a check, or the answer is lost: an error is shown and the page's
\* copy stays as it is.
Refuse(c, k) ==
  /\ k # "get"
  /\ call[c][k].step \in {"load", "write", "answer"}
  /\ call' = [call EXCEPT ![c][k] = Idle]
  /\ fresh' = IF k = "save" THEN fresh \ {c} ELSE fresh
  /\ UNCHANGED <<server, view, joined, events, heard>>

PlanUpdatedSlip(c) ==   \* an event is passed over while a save is under way
  /\ events[c] # <<>>
  /\ IF Saving(c) THEN UNCHANGED <<view, history>> ELSE Show(c, Head(events[c]))
  /\ events' = [events EXCEPT ![c] = Tail(@)]
  /\ UNCHANGED <<server, call, joined>>

\* The event takes the place of the page's copy, whichever plan it is of.
PlanUpdated(c) ==
  /\ events[c] # <<>>
  /\ Show(c, Head(events[c]))
  /\ events' = [events EXCEPT ![c] = Tail(@)]
  /\ UNCHANGED <<server, call, joined>>

\* The facilitator advances the session.
Advance ==
  /\ \E v \in Versions :
       /\ v > phase /\ \A u \in Versions : u > phase => u >= v
       /\ phase' = v
  /\ UNCHANGED <<plans, writes, view, call, joined, events, history>>

-----------------------------------------------------------------------------
PageInit ==
  /\ plans = [v \in Versions |-> NewPlan]
  /\ phase \in {v \in Versions : \A u \in Versions : u >= v}
  /\ writes = 0
  /\ view = [c \in Pages |-> None]
  /\ call = [c \in Pages |-> [k \in Calls |-> Idle]]
  /\ joined = {}
  /\ events = [c \in Pages |-> <<>>]
  /\ heard = [c \in Pages |-> 0]
  /\ fresh = {}

Browser(c) ==
  \/ Visit(c)
  \/ JoinStore(c)
  \/ \E f \in Fields, n \in Values : Decide(c, f, n)
  \/ Confirm(c)
  \/ PlanUpdated(c)
  \/ \E k \in Calls : Respond(c, k)

Server(c) ==
  \/ \E k \in {"save", "confirm"} : LoadPlan(c, k) \/ Refuse(c, k)
  \/ WriteDecision(c)
  \/ WriteConfirm(c)
  \/ \E k \in Calls : Refresh(c, k)
  \/ EmitPlanUpdated(c)

PageNext == Advance \/ \E c \in Pages : Browser(c) \/ Server(c)

PageSpec == PageInit /\ [][PageNext]_pvars

-----------------------------------------------------------------------------
(* Properties.                                                             *)

\* Nothing is under way to a page: no event, no call of its own, and no save
\* written but not announced yet.
Quiet(c) ==
  /\ view[c] # None
  /\ events[c] = <<>>
  /\ \A k \in Calls : ~Under(c, k)
  /\ \A d \in Pages : call[d]["save"].step \notin {"read", "emit"}

\* "quando outro membro altera algo, a tabela e o DRE atualizam sem recarregar a
\* página" (plan page): a page to which nothing is under way shows the decisions
\* of its plan, unless it was not in the room when a change was announced, an
\* older plan came after a newer one, or a save of its own failed.
ShowsThePlan ==
  \A c \in Pages : Quiet(c) /\ c \in fresh =>
    view[c].plan.decisions = plans[view[c].version].decisions

\* A save carries the other cell of its category as the page shows it.  It
\* changes that cell behind the other player's back only if the page did not show
\* the latest, or another write has come between.
NeighbourKept ==
  [][\A c \in Pages :
       LET s == call[c]["save"] IN
       s.step = "write" /\ call'[c]["save"].step = "read" /\ s.basis = writes =>
           \A g \in Named(s.field) \ {s.field} :
             plans'[s.version].decisions[g] = plans[s.version].decisions[g]]_pvars

\* A page that shows its plan confirmed shows it open to changes again only if an
\* older plan has overtaken a newer one on the way.
ConfirmationSticks ==
  [][\A c \in Pages :
       /\ view[c] # None /\ view[c].plan.confirmed
       /\ view'[c].version = view[c].version /\ ~view'[c].plan.confirmed
       => view'[c].at < view[c].at]_pvars
=============================================================================
