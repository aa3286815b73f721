------------------------------- MODULE Console -------------------------------
(***************************************************************************)
(* The facilitator's page of a session (dashboard/session/[id]): the phase   *)
(* and the stores as two GETs brought them (useSession), the buttons that    *)
(* ContextualActions offers for them, and the requests these send.           *)
(*                                                                         *)
(* PATCH advance and POST execute name no phase: the server takes the one it *)
(* finds.  What keeps a button's promise is the page alone, which disables   *)
(* the buttons while a request of theirs is under way and fetches the        *)
(* session again after a success.  The rule that round 1 waits for every     *)
(* plan is the page's alone too.                                            *)
(*                                                                         *)
(* Creating a store and the timer's buttons fetch the session again as well, *)
(* next to the others.  One page is open; other requests to advance are       *)
(* Lifecycle's.                                                             *)
(***************************************************************************)
EXTENDS SessionPhases, FiniteSets

CONSTANTS
  Stores,     \* stores there may be
  MaxStores,  \* MAX_STORES_PER_SESSION
  Versions,   \* the configVersions played in this instance
  Requests,   \* bound: requests under way, those given up included
  Fetches,    \* bound: fetches of the session under way
  None

ASSUME ConsoleAssumption ==
  /\ MaxStores \in Nat
  /\ Versions \subseteq Nat \ {0}
  /\ None \notin Status

VARIABLES
  phase,      \* Session.status
  made,       \* the stores of the session
  opened,     \* the versions of which a store has a plan
  confirmed,  \* those of them that are confirmed
  requests,   \* the requests sent and how far the server is with them
  page,       \* what useSession holds; None before the first answers
  failed,     \* its error: the page shows nothing else
  waiting,    \* the requests whose answer the page awaits
  fetches,    \* the two GETs of each refetch under way
  form,       \* whether the form for a store is open
  calm        \* history: since the page was loaded, with no request to advance or
              \* to execute under way, theirs were answered, no two fetches met, no
              \* such button was pressed during one, no store came after SETUP

server      == <<phase, made, opened, confirmed>>
browser     == <<page, failed, waiting, fetches, form>>
consoleVars == <<server, requests, browser, calm>>

Free == [kind |-> "free", says |-> None, at |-> "free", read |-> None]

\* The requests whose meaning depends on the phase.
Steering == {"advance", "execute"}

\* A request of the button that the page shows in phase s.
Request(kind, s) ==
  [Free EXCEPT !.kind = kind, !.at = "sent", !.says = IF kind \in Steering THEN s ELSE None]

NoFetch == [at |-> "free", phase |-> None, stores |-> None]
NewFetch == [at |-> "asked", phase |-> None, stores |-> None]

Fetching == {f \in Fetches : fetches[f].at = "asked"}
Running  == {r \in Requests : requests[r].at = "running"}

\* useAdvanceSession and useExecuteRound: isLoading of either.
BusySlip == \E r \in waiting : requests[r].kind = "advance"
Busy == \E r \in waiting : requests[r].kind \in Steering

\* The session, or a card with the error in its place.
Usable == page # None /\ ~failed

AllConfirmedSlip == page.stores.ready # {}
AllConfirmed == page.stores.listed # {} /\ page.stores.ready = page.stores.listed

CanCreate == page.phase = "SETUP" /\ Cardinality(page.stores.listed) < MaxStores

\* The form for a store stays when the phase changes; closed and opened again, it
\* has forgotten its request.
Offers(kind) ==
  CASE kind = "advance" -> ~Busy /\ page.phase # "FINISHED"
                             /\ (page.phase = "ROUND_1_CONFIG" => AllConfirmed)
    [] kind = "execute" -> ~Busy /\ page.phase \in ActiveStatus
    [] kind = "create"  -> CanCreate \/ (form /\ \A r \in waiting : requests[r].kind # kind)
    [] kind = "timer"   -> page.phase \in ActiveStatus
                             /\ \A r \in waiting : requests[r].kind # kind

Kinds == {"advance", "execute", "create", "timer"}

\* configVersionFromStatus, on the pages of the players.
ConfigVersion ==
  CASE phase = "ROUND_3" -> 3
    [] phase \in {"RECONFIGURATION", "ROUND_2"} -> 2
    [] OTHER -> 1

\* planConfirmed of getStatus: of the plan with the highest version there is.
PlanConfirmed(s) == \E v \in confirmed[s] : \A w \in opened[s] : w <= v

-----------------------------------------------------------------------------
Click(r, kind) ==
  /\ Usable /\ Offers(kind)
  /\ requests[r] = Free
  /\ requests' = [requests EXCEPT ![r] = Request(kind, page.phase)]
  /\ waiting' = waiting \cup {r}
  /\ calm' = (calm /\ (kind \in Steering => Fetching = {}))
  /\ form' = (form \/ kind = "create")
  /\ UNCHANGED <<server, page, failed, fetches>>

Toggle ==
  /\ Usable /\ (form \/ CanCreate)
  /\ form' = ~form
  /\ UNCHANGED <<server, requests, page, failed, waiting, fetches, calm>>

\* refetch: the error goes, the old session stays until the new one is there.
Refetch(f) ==
  /\ f \notin Fetching
  /\ fetches' = [fetches EXCEPT ![f] = NewFetch]
  /\ failed' = FALSE
  /\ calm' = (calm /\ Fetching = {})

Released(r) ==
  /\ waiting' = waiting \ {r}
  /\ requests' = [requests EXCEPT ![r] = Free]

\* handleAdvance, handleExecute, onCreated, onTimerChange after a success.
Answered(r) ==
  /\ r \in waiting /\ requests[r].at = "done"
  /\ Released(r)
  /\ \E f \in Fetches : Refetch(f)
  /\ form' = (form /\ requests[r].kind # "create")
  /\ UNCHANGED <<server, page>>

\* The error is shown beside the buttons; nothing is fetched.
Refused(r) ==
  /\ r \in waiting /\ requests[r].at = "refused"
  /\ Released(r)
  /\ UNCHANGED <<server, page, failed, fetches, form, calm>>

\* The request does not reach the server: to the page, an error like the others.
NotSent(r) ==
  /\ r \in waiting /\ requests[r].at = "sent"
  /\ Released(r)
  /\ UNCHANGED <<server, page, failed, fetches, form, calm>>

\* The answer does not reach the page, and that is the same error.
Lost(r) ==
  /\ r \in waiting
  /\ waiting' = waiting \ {r}
  /\ calm' = (calm /\ requests[r].kind \notin Steering)
  /\ UNCHANGED <<server, requests, page, failed, fetches, form>>

\* The page is left, or loaded again: nobody waits for what was under way.
Reload ==
  /\ page' = None
  /\ failed' = FALSE
  /\ waiting' = {}
  /\ form' = FALSE
  /\ \E f \in Fetches : fetches' = [g \in Fetches |-> IF g = f THEN NewFetch ELSE NoFetch]
  /\ calm' = \A r \in Requests : requests[r].kind \notin Steering
  /\ UNCHANGED <<server, requests>>

-----------------------------------------------------------------------------
(* The server.                                                             *)

Replies(r, at) ==
  requests' = [requests EXCEPT ![r] = [Free EXCEPT !.kind = requests[r].kind, !.at = at]]

AdvanceRead(r) ==
  /\ requests[r].kind = "advance" /\ requests[r].at = "sent"
  /\ phase # "FINISHED"
  /\ requests' = [requests EXCEPT ![r] = [@ EXCEPT !.at = "read", !.read = phase]]
  /\ UNCHANGED <<server, browser, calm>>

AdvanceWrite(r) ==
  /\ requests[r].kind = "advance" /\ requests[r].at = "read"
  /\ phase' = NextStatus[requests[r].read]
  /\ Replies(r, "done")
  /\ UNCHANGED <<made, opened, confirmed, browser, calm>>

\* execute: the round is that of the status there is.
RunRound(r) ==
  /\ requests[r].kind = "execute" /\ requests[r].at = "sent"
  /\ phase \in ActiveStatus
  /\ requests' = [requests EXCEPT ![r].at = "running"]
  /\ UNCHANGED <<server, browser, calm>>

RunEnds(r) ==
  /\ requests[r].at = "running"
  /\ \E at \in {"done", "refused"} : Replies(r, at)
  /\ UNCHANGED <<server, browser, calm>>

\* POST /stores looks at the number of stores and not at the phase.
CreateStore(r) ==
  /\ requests[r].kind = "create" /\ requests[r].at = "sent"
  /\ Cardinality(made) < MaxStores
  /\ \E s \in Stores \ made : made' = made \cup {s}
  /\ Replies(r, "done")
  /\ calm' = (calm /\ phase = "SETUP")
  /\ UNCHANGED <<phase, opened, confirmed, browser>>

TimerChanged(r) ==   \* Lifecycle's; here only the page's fetch after it matters
  /\ requests[r].kind = "timer" /\ requests[r].at = "sent"
  /\ Replies(r, "done")
  /\ UNCHANGED <<server, browser, calm>>

\* The end of the game, transfers that are missing, a phase without a round, four
\* stores, a timer that cannot be started.
Refuse(r) ==
  /\ \/ requests[r].kind = "advance" /\ phase \in {"FINISHED", "RECONFIGURATION"}
     \/ requests[r].kind = "execute" /\ phase \notin ActiveStatus
     \/ requests[r].kind = "create" /\ Cardinality(made) >= MaxStores
     \/ requests[r].kind = "timer"
  /\ requests[r].at = "sent"
  /\ Replies(r, "refused")
  /\ UNCHANGED <<server, browser, calm>>

Unheard(r) ==   \* an answer for which nobody waits any more
  /\ r \notin waiting /\ requests[r].at \in {"done", "refused"}
  /\ requests' = [requests EXCEPT ![r] = Free]
  /\ UNCHANGED <<server, browser, calm>>

-----------------------------------------------------------------------------
(* The two GETs, answered in either order and shown together.               *)

FindSession(f) ==
  /\ f \in Fetching /\ fetches[f].phase = None
  /\ fetches' = [fetches EXCEPT ![f].phase = phase]
  /\ UNCHANGED <<server, requests, page, failed, waiting, form, calm>>

GetStatus(f) ==
  /\ f \in Fetching /\ fetches[f].stores = None
  /\ fetches' = [fetches EXCEPT ![f].stores =
       [listed |-> made, ready |-> {s \in made : PlanConfirmed(s)}]]
  /\ UNCHANGED <<server, requests, page, failed, waiting, form, calm>>

Fetched(f) ==
  /\ f \in Fetching /\ fetches[f].phase # None /\ fetches[f].stores # None
  /\ page' = [phase |-> fetches[f].phase, stores |-> fetches[f].stores]
  /\ fetches' = [fetches EXCEPT ![f] = NoFetch]
  /\ UNCHANGED <<server, requests, failed, waiting, form, calm>>

FetchFails(f) ==
  /\ f \in Fetching
  /\ failed' = TRUE
  /\ fetches' = [fetches EXCEPT ![f] = NoFetch]
  /\ UNCHANGED <<server, requests, page, waiting, form, calm>>

-----------------------------------------------------------------------------
(* The stores' players.                                                    *)

OpenPlan(s) ==
  /\ s \in made
  /\ ConfigVersion \in Versions \ opened[s]
  /\ opened' = [opened EXCEPT ![s] = @ \cup {ConfigVersion}]
  /\ UNCHANGED <<phase, made, confirmed, requests, browser, calm>>

ConfirmPlan(s) ==
  /\ \E v \in opened[s] \ confirmed[s] : confirmed' = [confirmed EXCEPT ![s] = @ \cup {v}]
  /\ UNCHANGED <<phase, made, opened, requests, browser, calm>>

-----------------------------------------------------------------------------
ConsoleInit ==
  /\ phase = "SETUP"
  /\ made = {}
  /\ opened = [s \in Stores |-> {}]
  /\ confirmed = [s \in Stores |-> {}]
  /\ requests = [r \in Requests |-> Free]
  /\ page = None
  /\ failed = FALSE
  /\ waiting = {}
  /\ form = FALSE
  /\ \E f \in Fetches : fetches = [g \in Fetches |-> IF g = f THEN NewFetch ELSE NoFetch]
  /\ calm = TRUE

Page ==
  \/ Reload \/ Toggle
  \/ \E r \in Requests :
       \/ \E kind \in Kinds : Click(r, kind)
       \/ Answered(r) \/ Refused(r) \/ NotSent(r) \/ Lost(r)
  \/ \E f \in Fetches : Fetched(f) \/ FetchFails(f)

Server ==
  \/ \E r \in Requests :
       \/ AdvanceRead(r) \/ AdvanceWrite(r)
       \/ RunRound(r) \/ RunEnds(r)
       \/ CreateStore(r) \/ TimerChanged(r)
       \/ Refuse(r) \/ Unheard(r)
  \/ \E f \in Fetches : FindSession(f) \/ GetStatus(f)

Players == \E s \in Stores : OpenPlan(s) \/ ConfirmPlan(s)

ConsoleNext == Page \/ Server \/ Players

ConsoleSpec == ConsoleInit /\ [][ConsoleNext]_consoleVars

-----------------------------------------------------------------------------
\* The shape of the state.
Seen == [listed : SUBSET Stores, ready : SUBSET Stores]

ConsoleTypeOK ==
  /\ phase \in Status
  /\ made \subseteq Stores
  /\ opened \in [Stores -> SUBSET Versions]
  /\ confirmed \in [Stores -> SUBSET Versions]
  /\ requests \in [Requests ->
       [kind : Kinds \cup {"free"}, says : Status \cup {None}, read : Status \cup {None},
        at : {"free", "sent", "read", "running", "done", "refused"}]]
  /\ page \in {None} \cup [phase : Status, stores : Seen]
  /\ fetches \in [Fetches ->
       [at : {"free", "asked"}, phase : Status \cup {None}, stores : {None} \cup Seen]]
  /\ waiting \subseteq Requests
  /\ failed \in BOOLEAN /\ form \in BOOLEAN /\ calm \in BOOLEAN

-----------------------------------------------------------------------------
(* Properties.                                                             *)

\* "avança exatamente um passo" (advanceStatus): the step is the one the button
\* named, and no round is being computed when it is made; a round that is computed
\* is the one the button named.  The requests name neither: it takes a page that
\* was always answered, and a facilitator who lets it catch up.
ButtonsKeepTheirWord ==
  [][calm => \A r \in Requests :
       /\ requests[r].at = "read" /\ requests'[r].at = "done" =>
            Running = {} /\ phase = requests[r].says /\ phase' = NextStatus[phase]
       /\ requests[r].at = "sent" /\ requests'[r].at = "running" =>
            phase = requests[r].says /\ Running = {}]_consoleVars

\* "Facilitador aguarda confirmação de todas as 4 lojas antes de prosseguir"
\* (docs/agent/spec.md): under the same conditions the first round opens when every
\* store there is has confirmed its plan, although only the page asks for it.
RoundOneConfirmed ==
  [][calm /\ phase = "ROUND_1_CONFIG" /\ phase' = "ROUND_1" =>
       made # {} /\ \A s \in made : PlanConfirmed(s)]_consoleVars
=============================================================================
