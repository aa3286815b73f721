---------------------------- MODULE ConsoleProofs ----------------------------
(***************************************************************************)
(* What the facilitator's page keeps for any stores, versions, requests and  *)
(* fetches: its buttons keep their word, and round 1 waits for the plans.    *)
(***************************************************************************)
EXTENDS Console, TLAPS

SlotRecord ==
  [kind : Kinds \cup {"free"}, says : Status \cup {None}, read : Status \cup {None},
   at : {"free", "sent", "read", "running", "done", "refused"}]

FetchRecord == [at : {"free", "asked"}, phase : Status \cup {None}, stores : {None} \cup Seen]

\* A request is replaced by another or by a free place.
Replaces(r, slot) == requests' = [requests EXCEPT ![r] = slot]

\* What the server makes of a request when it replies.
Reply(r, at) == [Free EXCEPT !.kind = requests[r].kind, !.at = at]

\* A new request names the phase of the page when it steers.
LEMMA NewRequest ==
  ASSUME NEW kind \in Kinds, NEW s \in Status
  PROVE  /\ Request(kind, s) \in SlotRecord
         /\ Request(kind, s).kind = kind /\ Request(kind, s).at = "sent"
         /\ kind \in Steering => Request(kind, s).says = s
BY DEF Request, Free, SlotRecord, Kinds, Steering

\* A free place has no kind.
LEMMA FreeIs == Free \in SlotRecord /\ Free.kind = "free" /\ Free.at = "free"
BY DEF Free, SlotRecord

\* A reply keeps the kind of the request.
LEMMA ReplyIs ==
  ASSUME ConsoleTypeOK, NEW r \in Requests, NEW at \in {"done", "refused"}
  PROVE  Reply(r, at) \in SlotRecord /\ Reply(r, at).kind = requests[r].kind /\ Reply(r, at).at = at
<1>1. requests[r].kind \in Kinds \cup {"free"}
  BY DEF ConsoleTypeOK
<1> QED  BY <1>1 DEF Reply, Free, SlotRecord

\* Replacing one request leaves the others as they are.
LEMMA ReplacesIs ==
  ASSUME ConsoleTypeOK, NEW r \in Requests, NEW slot \in SlotRecord, Replaces(r, slot)
  PROVE  /\ requests' \in [Requests -> SlotRecord]
         /\ requests'[r] = slot
         /\ \A q \in Requests : q # r => requests'[q] = requests[q]
BY DEF ConsoleTypeOK, Replaces, SlotRecord

\* An advance that has read the session.
LEMMA ReadIs ==
  ASSUME ConsoleTypeOK, NEW r \in Requests
  PROVE  LET slot == [requests[r] EXCEPT !.at = "read", !.read = phase] IN
         /\ slot \in SlotRecord
         /\ slot.kind = requests[r].kind /\ slot.says = requests[r].says
         /\ slot.at = "read" /\ slot.read = phase
<1>1. requests[r] \in SlotRecord /\ phase \in Status
  BY DEF ConsoleTypeOK, SlotRecord
<1> QED  BY <1>1 DEF SlotRecord

\* A round that is computed.
LEMMA RunningIs ==
  ASSUME ConsoleTypeOK, NEW r \in Requests
  PROVE  LET slot == [requests[r] EXCEPT !.at = "running"] IN
         /\ slot \in SlotRecord
         /\ slot.kind = requests[r].kind /\ slot.says = requests[r].says /\ slot.at = "running"
<1>1. requests[r] \in SlotRecord
  BY DEF ConsoleTypeOK, SlotRecord
<1> QED  BY <1>1 DEF SlotRecord

\* Only an advance reads the session, never at the end of the game; only rounds run.
SlotsOK ==
  \A r \in Requests :
    /\ requests[r].at = "read" => requests[r].kind = "advance" /\ requests[r].read \in Status \ {"FINISHED"}
    /\ requests[r].at = "running" => requests[r].kind = "execute"
    /\ requests[r].kind = "free" => requests[r].at = "free"

-----------------------------------------------------------------------------
(* Types.                                                                  *)

\* The page before its first answer is well formed.
LEMMA TypeInit == ConsoleInit => ConsoleTypeOK
<1> SUFFICES ASSUME ConsoleInit  PROVE ConsoleTypeOK
  OBVIOUS
<1>1. requests \in [Requests -> SlotRecord]
  BY FreeIs DEF ConsoleInit
<1>2. fetches \in [Fetches -> FetchRecord]
  BY DEF ConsoleInit, NewFetch, NoFetch, FetchRecord
<1> QED  BY <1>1, <1>2 DEF ConsoleInit, ConsoleTypeOK, SlotRecord, FetchRecord, Status

\* What the page does keeps the types.
LEMMA PageType ==
  ASSUME ConsoleTypeOK, Page
  PROVE  ConsoleTypeOK'
<1> USE DEF server, browser
<1>1. ASSUME Reload  PROVE ConsoleTypeOK'
  <2>1. fetches' \in [Fetches -> FetchRecord]
    BY <1>1 DEF Reload, NewFetch, NoFetch, FetchRecord
  <2> QED  BY <1>1, <2>1 DEF Reload, ConsoleTypeOK, FetchRecord
<1>2. ASSUME Toggle  PROVE ConsoleTypeOK'
  BY <1>2 DEF Toggle, ConsoleTypeOK
<1>3. ASSUME NEW r \in Requests, NEW kind \in Kinds, Click(r, kind)  PROVE ConsoleTypeOK'
  <2>1. page.phase \in Status
    BY <1>3 DEF Click, Usable, ConsoleTypeOK
  <2>2. Request(kind, page.phase) \in SlotRecord
    BY <2>1, NewRequest
  <2>3. requests' \in [Requests -> SlotRecord]
    BY <1>3, <2>2, ReplacesIs DEF Click, Replaces
  <2>4. calm' \in BOOLEAN /\ form' \in BOOLEAN
    BY <1>3 DEF Click
  <2> QED  BY <1>3, <2>3, <2>4 DEF Click, ConsoleTypeOK, SlotRecord
<1>4. ASSUME NEW r \in Requests, Released(r)
      PROVE  requests' \in [Requests -> SlotRecord] /\ waiting' \subseteq Requests
  BY <1>4, FreeIs, ReplacesIs DEF Released, Replaces, ConsoleTypeOK
<1>5. ASSUME NEW r \in Requests, Answered(r)  PROVE ConsoleTypeOK'
  <2>1. PICK f \in Fetches : Refetch(f)
    BY <1>5 DEF Answered
  <2>2. fetches' \in [Fetches -> FetchRecord]
    BY <2>1 DEF Refetch, NewFetch, FetchRecord, ConsoleTypeOK
  <2>3. failed' \in BOOLEAN /\ calm' \in BOOLEAN /\ form' \in BOOLEAN
    BY <1>5, <2>1 DEF Refetch, Answered
  <2> QED  BY <1>4, <1>5, <2>2, <2>3 DEF Answered, ConsoleTypeOK, SlotRecord, FetchRecord
<1>6. ASSUME NEW r \in Requests, Refused(r) \/ NotSent(r)  PROVE ConsoleTypeOK'
  BY <1>4, <1>6 DEF Refused, NotSent, ConsoleTypeOK, SlotRecord
<1>7. ASSUME NEW r \in Requests, Lost(r)  PROVE ConsoleTypeOK'
  <2>1. calm' \in BOOLEAN
    BY <1>7 DEF Lost
  <2> QED  BY <1>7, <2>1 DEF Lost, ConsoleTypeOK
<1>8. ASSUME NEW f \in Fetches, Fetched(f)  PROVE ConsoleTypeOK'
  <2>1. page' \in [phase : Status, stores : Seen]
    BY <1>8 DEF Fetched, ConsoleTypeOK
  <2>2. fetches' \in [Fetches -> FetchRecord]
    BY <1>8 DEF Fetched, NoFetch, FetchRecord, ConsoleTypeOK
  <2> QED  BY <1>8, <2>1, <2>2 DEF Fetched, ConsoleTypeOK, FetchRecord
<1>9. ASSUME NEW f \in Fetches, FetchFails(f)  PROVE ConsoleTypeOK'
  <2>1. fetches' \in [Fetches -> FetchRecord]
    BY <1>9 DEF FetchFails, NoFetch, FetchRecord, ConsoleTypeOK
  <2> QED  BY <1>9, <2>1 DEF FetchFails, ConsoleTypeOK, FetchRecord
<1> QED  BY <1>1, <1>2, <1>3, <1>5, <1>6, <1>7, <1>8, <1>9 DEF Page

\* What the server does keeps the types.
LEMMA ServerType ==
  ASSUME ConsoleTypeOK, SlotsOK, Server
  PROVE  ConsoleTypeOK'
<1> USE DEF server, browser
<1>0. ASSUME NEW r \in Requests, NEW at \in {"done", "refused"}, Replies(r, at)
      PROVE  requests' \in [Requests -> SlotRecord]
  BY <1>0, ReplyIs, ReplacesIs DEF Replies, Reply, Replaces
<1>1. ASSUME NEW r \in Requests, AdvanceRead(r)  PROVE ConsoleTypeOK'
  <2>1. requests' \in [Requests -> SlotRecord]
    BY <1>1, ReadIs, ReplacesIs DEF AdvanceRead, Replaces
  <2> QED  BY <1>1, <2>1 DEF AdvanceRead, ConsoleTypeOK, SlotRecord
<1>2. ASSUME NEW r \in Requests, AdvanceWrite(r)  PROVE ConsoleTypeOK'
  <2>1. phase' \in Status
    BY <1>2 DEF AdvanceWrite, SlotsOK, NextStatus, Status
  <2> QED  BY <1>0, <1>2, <2>1 DEF AdvanceWrite, ConsoleTypeOK, SlotRecord
<1>3. ASSUME NEW r \in Requests, RunRound(r)  PROVE ConsoleTypeOK'
  <2>1. requests' \in [Requests -> SlotRecord]
    BY <1>3 DEF RunRound, ConsoleTypeOK, SlotRecord
  <2> QED  BY <1>3, <2>1 DEF RunRound, ConsoleTypeOK, SlotRecord
<1>4. ASSUME NEW r \in Requests, RunEnds(r) \/ TimerChanged(r) \/ Refuse(r)  PROVE ConsoleTypeOK'
  BY <1>0, <1>4 DEF RunEnds, TimerChanged, Refuse, ConsoleTypeOK, SlotRecord
<1>5. ASSUME NEW r \in Requests, CreateStore(r)  PROVE ConsoleTypeOK'
  <2>1. made' \subseteq Stores /\ calm' \in BOOLEAN
    BY <1>5 DEF CreateStore, ConsoleTypeOK
  <2> QED  BY <1>0, <1>5, <2>1 DEF CreateStore, ConsoleTypeOK, SlotRecord
<1>6. ASSUME NEW r \in Requests, Unheard(r)  PROVE ConsoleTypeOK'
  <2>1. requests' \in [Requests -> SlotRecord]
    BY <1>6, FreeIs, ReplacesIs DEF Unheard, Replaces
  <2> QED  BY <1>6, <2>1 DEF Unheard, ConsoleTypeOK, SlotRecord
<1>7. ASSUME NEW f \in Fetches, FindSession(f)  PROVE ConsoleTypeOK'
  <2>1. fetches' \in [Fetches -> FetchRecord]
    BY <1>7 DEF FindSession, FetchRecord, ConsoleTypeOK
  <2> QED  BY <1>7, <2>1 DEF FindSession, ConsoleTypeOK, FetchRecord
<1>8. ASSUME NEW f \in Fetches, GetStatus(f)  PROVE ConsoleTypeOK'
  <2> DEFINE seen == [listed |-> made, ready |-> {s \in made : PlanConfirmed(s)}]
  <2>1. seen \in Seen
    BY DEF Seen, ConsoleTypeOK
  <2>2. fetches' = [fetches EXCEPT ![f].stores = seen]
    BY <1>8 DEF GetStatus
  <2> HIDE DEF seen
  <2>3. fetches' \in [Fetches -> FetchRecord]
    BY <2>1, <2>2 DEF FetchRecord, ConsoleTypeOK
  <2> QED  BY <1>8, <2>3 DEF GetStatus, ConsoleTypeOK, FetchRecord
<1> QED  BY <1>1, <1>2, <1>3, <1>4, <1>5, <1>6, <1>7, <1>8 DEF Server

\* What the players do keeps the types.
LEMMA PlayersType ==
  ASSUME ConsoleTypeOK, Players
  PROVE  ConsoleTypeOK'
<1>1. PICK s \in Stores : OpenPlan(s) \/ ConfirmPlan(s)
  BY DEF Players
<1>2. CASE OpenPlan(s)
  BY <1>2 DEF OpenPlan, ConsoleTypeOK, browser
<1>3. CASE ConfirmPlan(s)
  BY <1>3 DEF ConfirmPlan, ConsoleTypeOK, browser
<1> QED  BY <1>1, <1>2, <1>3

\* Steps that leave the requests alone, or replace one of them by a slot that is
\* fit, keep SlotsOK.
LEMMA SlotsKept ==
  ASSUME ConsoleTypeOK, SlotsOK, NEW r \in Requests, NEW slot \in SlotRecord, Replaces(r, slot),
         slot.at = "read" => slot.kind = "advance" /\ slot.read \in Status \ {"FINISHED"},
         slot.at = "running" => slot.kind = "execute",
         slot.kind = "free" => slot.at = "free"
  PROVE  SlotsOK'
BY ReplacesIs DEF SlotsOK

\* No step breaks SlotsOK.
LEMMA SlotsNext ==
  ASSUME ConsoleTypeOK, SlotsOK, ConsoleNext
  PROVE  SlotsOK'
<1> USE DEF server, browser
<1>1. ASSUME UNCHANGED requests  PROVE SlotsOK'
  BY <1>1 DEF SlotsOK
<1>2. ASSUME NEW r \in Requests, Replaces(r, Free)  PROVE SlotsOK'
  BY <1>2, FreeIs, SlotsKept
<1>3. ASSUME NEW r \in Requests, NEW at \in {"done", "refused"}, Replies(r, at), requests[r].kind # "free"
      PROVE  SlotsOK'
  BY <1>3, ReplyIs, SlotsKept DEF Replies, Reply, Replaces
<1>4. ASSUME NEW r \in Requests, NEW kind \in Kinds, Click(r, kind)  PROVE SlotsOK'
  <2>1. page.phase \in Status
    BY <1>4 DEF Click, Usable, ConsoleTypeOK
  <2> QED  BY <1>4, <2>1, NewRequest, SlotsKept DEF Click, Replaces, Kinds
<1>5. ASSUME NEW r \in Requests, AdvanceRead(r)  PROVE SlotsOK'
  BY <1>5, ReadIs, SlotsKept DEF AdvanceRead, Replaces, ConsoleTypeOK
<1>6. ASSUME NEW r \in Requests, RunRound(r)  PROVE SlotsOK'
  <2>1. Replaces(r, [requests[r] EXCEPT !.at = "running"])
    BY <1>6 DEF RunRound, Replaces, ConsoleTypeOK
  <2> QED  BY <1>6, <2>1, RunningIs, SlotsKept DEF RunRound
<1>7. CASE Page
  BY <1>1, <1>2, <1>4, <1>7 DEF Page, Reload, Toggle, Answered, Refused, NotSent, Lost, Fetched, FetchFails,
     Released, Replaces
<1>8. CASE Server
  <2>1. ASSUME NEW r \in Requests, AdvanceWrite(r) \/ CreateStore(r) \/ TimerChanged(r)  PROVE SlotsOK'
    BY <1>3, <2>1 DEF AdvanceWrite, CreateStore, TimerChanged
  <2>2. ASSUME NEW r \in Requests, RunEnds(r) \/ Refuse(r)  PROVE SlotsOK'
    BY <1>3, <2>2 DEF RunEnds, Refuse, SlotsOK
  <2>3. ASSUME NEW r \in Requests, Unheard(r)  PROVE SlotsOK'
    BY <1>2, <2>3 DEF Unheard, Replaces
  <2>4. ASSUME NEW f \in Fetches, FindSession(f) \/ GetStatus(f)  PROVE SlotsOK'
    BY <1>1, <2>4 DEF FindSession, GetStatus
  <2> QED  BY <1>5, <1>6, <1>8, <2>1, <2>2, <2>3, <2>4 DEF Server
<1>9. CASE Players
  BY <1>1, <1>9 DEF Players, OpenPlan, ConfirmPlan
<1> QED  BY <1>7, <1>8, <1>9 DEF ConsoleNext

-----------------------------------------------------------------------------
(* The invariant of a calm page.                                            *)

Steered == {r \in Requests : requests[r].kind \in Steering}

\* One request steers at a time, and the page waits for it.
OneSteered == Steered \subseteq waiting /\ \A r, q \in Steered : r = q

OneFetch == \A f, g \in Fetching : f = g

Ready == made # {} /\ \A s \in made : PlanConfirmed(s)

\* Until the server is through with it, a request's button still shows the phase.
SaysPhase ==
  \A r \in Steered : requests[r].at \in {"sent", "read", "running"} =>
    /\ requests[r].says = phase
    /\ requests[r].at = "read" => requests[r].read = phase
    /\ requests[r].kind = "advance" /\ phase = "ROUND_1_CONFIG" => Ready

\* An advance was made and the page does not know it yet.
Written == \E r \in Requests : requests[r].kind = "advance" /\ requests[r].at = "done"

Fresh(stores) ==
  phase = "ROUND_1_CONFIG" => stores.listed = made /\ \A s \in stores.ready : PlanConfirmed(s)

FreshFetches ==
  \A f \in Fetching :
    /\ fetches[f].phase # None => fetches[f].phase = phase
    /\ fetches[f].stores # None => Fresh(fetches[f].stores)

FreshPage == Usable /\ Fetching = {} => page.phase = phase /\ Fresh(page.stores)

UpToDate == Written \/ (FreshFetches /\ FreshPage)

CalmInv == calm => OneSteered /\ OneFetch /\ SaysPhase /\ UpToDate

\* The page is calm before its first answer.
LEMMA CalmInit == ConsoleInit => SlotsOK /\ CalmInv
<1> SUFFICES ASSUME ConsoleInit  PROVE SlotsOK /\ CalmInv
  OBVIOUS
<1>1. \A r \in Requests : requests[r] = Free
  BY DEF ConsoleInit
<1>2. SlotsOK /\ Steered = {} /\ ~Written
  BY <1>1, FreeIs DEF SlotsOK, Steered, Steering, Written
<1>3. PICK f \in Fetches : fetches = [g \in Fetches |-> IF g = f THEN NewFetch ELSE NoFetch]
  BY DEF ConsoleInit
<1>4. Fetching = {f} /\ fetches[f] = NewFetch
  BY <1>3 DEF Fetching, NewFetch, NoFetch
<1>5. OneFetch /\ FreshFetches
  BY <1>4 DEF OneFetch, FreshFetches, NewFetch
<1>6. FreshPage
  BY DEF FreshPage, Usable, ConsoleInit
<1> QED  BY <1>2, <1>5, <1>6 DEF CalmInv, OneSteered, SaysPhase, UpToDate

\* With nobody steering, no advance is made that the page does not know of.
LEMMA Unsteered == Steered = {} => ~Written
BY DEF Steered, Steering, Written

\* A page that offers to advance or to execute, and waits for nothing, is up to date.
LEMMA ClickSays ==
  ASSUME ConsoleTypeOK, OneSteered, UpToDate, Usable, Fetching = {},
         NEW kind \in Steering, Offers(kind)
  PROVE  /\ Steered = {}
         /\ page.phase = phase
         /\ kind = "advance" /\ phase = "ROUND_1_CONFIG" => Ready
<1>1. ~Busy
  BY DEF Offers, Steering
<1>2. Steered = {}
  BY <1>1 DEF Busy, OneSteered, Steered
<1>3. page.phase = phase /\ Fresh(page.stores)
  BY <1>2, Unsteered DEF UpToDate, FreshPage
<1>4. ASSUME kind = "advance", phase = "ROUND_1_CONFIG"  PROVE Ready
  <2>1. AllConfirmed
    BY <1>3, <1>4 DEF Offers
  <2> QED  BY <1>3, <1>4, <2>1 DEF AllConfirmed, Fresh, Ready
<1> QED  BY <1>2, <1>3, <1>4

\* While the session does not change, neither do the facts about it.
LEMMA SameServer ==
  ASSUME UNCHANGED server
  PROVE  /\ phase' = phase /\ made' = made
         /\ \A s : PlanConfirmed(s)' <=> PlanConfirmed(s)
         /\ Ready' <=> Ready
<1>1. phase' = phase /\ made' = made /\ opened' = opened /\ confirmed' = confirmed
  BY DEF server
<1>2. \A s : PlanConfirmed(s)' <=> PlanConfirmed(s)
  BY <1>1 DEF PlanConfirmed
<1> QED  BY <1>1, <1>2 DEF Ready

\* Freeing a place, or replying to a request that does not make a phase.
LEMMA SlotSettled ==
  ASSUME ConsoleTypeOK, SaysPhase, OneSteered, UNCHANGED server, NEW r \in Requests,
         NEW slot \in SlotRecord, Replaces(r, slot),
         slot.kind = requests[r].kind \/ slot.kind \notin Steering,
         slot.kind = "advance" => slot.at \notin {"sent", "read", "running", "done"},
         slot.kind = "execute" => slot.at \notin {"sent", "read", "running"}
  PROVE  /\ Steered' \subseteq Steered
         /\ slot.kind \notin Steering => Steered' \subseteq Steered \ {r}
         /\ \A q, t \in Steered' : q = t
         /\ SaysPhase'
         /\ Written' => Written
         /\ Written => Written' \/ (requests[r].kind = "advance" /\ requests[r].at = "done")
<1>1. /\ requests'[r] = slot
      /\ \A q \in Requests : q # r => requests'[q] = requests[q]
  BY ReplacesIs
<1>2. Steered' \subseteq Steered /\ (slot.kind \notin Steering => Steered' \subseteq Steered \ {r})
  BY <1>1 DEF Steered
<1>3. \A q, t \in Steered' : q = t
  BY <1>2 DEF OneSteered
<1>4. SaysPhase'
  BY <1>1, <1>2, SameServer DEF SaysPhase, Steered, Steering
<1>5. Written' => Written
  BY <1>1 DEF Written
<1>6. Written => Written' \/ (requests[r].kind = "advance" /\ requests[r].at = "done")
  BY <1>1 DEF Written
<1> QED  BY <1>2, <1>3, <1>4, <1>5, <1>6

\* What was fresh stays so while the session, the page and the fetches do not change.
LEMMA SameView ==
  ASSUME UNCHANGED server, UNCHANGED page, UNCHANGED failed, UNCHANGED fetches
  PROVE  Fetching' = Fetching /\ (FreshFetches /\ FreshPage => FreshFetches' /\ FreshPage')
<1>1. Fetching' = Fetching
  BY DEF Fetching
<1>2. FreshFetches => FreshFetches'
  BY <1>1, SameServer DEF FreshFetches, Fresh
<1>3. FreshPage => FreshPage'
  BY <1>1, SameServer DEF FreshPage, Fresh, Usable
<1> QED  BY <1>1, <1>2, <1>3

\* A click keeps the invariant: it steers only from a page that is up to date.
LEMMA ClickCalm ==
  ASSUME ConsoleTypeOK, SlotsOK, CalmInv, NEW r \in Requests, NEW kind \in Kinds, Click(r, kind)
  PROVE  CalmInv'
<1> SUFFICES ASSUME calm'  PROVE (OneSteered /\ OneFetch /\ SaysPhase /\ UpToDate)'
  BY DEF CalmInv
<1>1. /\ calm /\ (kind \in Steering => Fetching = {})
      /\ Usable /\ Offers(kind) /\ requests[r] = Free
      /\ Replaces(r, Request(kind, page.phase)) /\ waiting' = waiting \cup {r}
      /\ UNCHANGED server /\ UNCHANGED page /\ UNCHANGED failed /\ UNCHANGED fetches
  BY DEF Click, Replaces
<1>2. OneSteered /\ OneFetch /\ SaysPhase /\ UpToDate
  BY <1>1 DEF CalmInv
<1>3. page.phase \in Status
  BY <1>1 DEF Usable, ConsoleTypeOK
<1>4. /\ requests'[r] = Request(kind, page.phase)
      /\ \A q \in Requests : q # r => requests'[q] = requests[q]
  BY <1>1, <1>3, NewRequest, ReplacesIs
<1>5. /\ requests'[r].kind = kind /\ requests'[r].at = "sent"
      /\ kind \in Steering => requests'[r].says = page.phase
  BY <1>3, <1>4, NewRequest
<1>6. Written' <=> Written
  BY <1>1, <1>4, <1>5, FreeIs DEF Written
<1>7. OneFetch' /\ UpToDate'
  BY <1>1, <1>2, <1>6, SameView DEF OneFetch, UpToDate
<1>8. CASE kind \in Steering
  <2>1. /\ Steered = {} /\ page.phase = phase
        /\ kind = "advance" /\ phase = "ROUND_1_CONFIG" => Ready
    BY <1>1, <1>2, <1>8, ClickSays
  <2>2. Steered' = {r}
    BY <1>4, <1>5, <1>8, <2>1 DEF Steered
  <2>3. SaysPhase'
    BY <1>1, <1>5, <1>8, <2>1, <2>2, SameServer DEF SaysPhase
  <2> QED  BY <1>1, <1>7, <2>2, <2>3 DEF OneSteered
<1>9. CASE kind \notin Steering
  <2>1. Steered' = Steered /\ r \notin Steered
    BY <1>1, <1>4, <1>5, <1>9, FreeIs DEF Steered, Steering
  <2>2. SaysPhase'
    BY <1>1, <1>2, <1>4, <2>1, SameServer DEF SaysPhase, Steered
  <2> QED  BY <1>1, <1>2, <1>7, <2>1, <2>2 DEF OneSteered
<1> QED  BY <1>8, <1>9

\* An answer, a refusal or the loss of a request keeps the invariant.
LEMMA AnswerCalm ==
  ASSUME ConsoleTypeOK, SlotsOK, CalmInv, NEW r \in Requests,
         Answered(r) \/ Refused(r) \/ NotSent(r) \/ Lost(r)
  PROVE  CalmInv'
<1> SUFFICES ASSUME calm'  PROVE (OneSteered /\ OneFetch /\ SaysPhase /\ UpToDate)'
  BY DEF CalmInv
<1>1. calm /\ UNCHANGED server /\ UNCHANGED page
  BY DEF Answered, Refetch, Refused, NotSent, Lost, server
<1>2. OneSteered /\ OneFetch /\ SaysPhase /\ UpToDate
  BY <1>1 DEF CalmInv
<1>3. ASSUME Released(r)
      PROVE  /\ OneSteered' /\ SaysPhase' /\ (Written' => Written)
             /\ Written => Written' \/ (requests[r].kind = "advance" /\ requests[r].at = "done")
  <2>1. Replaces(r, Free) /\ waiting' = waiting \ {r}
    BY <1>3 DEF Released, Replaces
  <2>2. Free.kind \notin Steering /\ Free.kind # "advance" /\ Free.kind # "execute"
    BY FreeIs DEF Steering
  <2>3. /\ Steered' \subseteq Steered \ {r} /\ \A q, t \in Steered' : q = t
        /\ SaysPhase' /\ (Written' => Written)
        /\ Written => Written' \/ (requests[r].kind = "advance" /\ requests[r].at = "done")
    BY <1>1, <1>2, <2>1, <2>2, FreeIs, SlotSettled
  <2> QED  BY <1>2, <2>1, <2>3 DEF OneSteered
<1>4. CASE Answered(r)
  <2>1. PICK f \in Fetches : Refetch(f)
    BY <1>4 DEF Answered
  <2>2. Fetching = {} /\ fetches' = [fetches EXCEPT ![f] = NewFetch]
    BY <2>1 DEF Refetch
  <2>3. fetches'[f] = NewFetch /\ \A g \in Fetches : g # f => fetches'[g] = fetches[g]
    BY <2>2 DEF ConsoleTypeOK
  <2>4. Fetching' = {f}
    BY <2>2, <2>3 DEF Fetching, NewFetch
  <2>5. OneFetch' /\ FreshFetches' /\ FreshPage'
    BY <2>3, <2>4 DEF OneFetch, FreshFetches, FreshPage, NewFetch
  <2> QED  BY <1>3, <1>4, <2>5 DEF Answered, UpToDate
<1>5. CASE Refused(r) \/ NotSent(r)
  <2>1. Released(r) /\ UNCHANGED failed /\ UNCHANGED fetches /\ requests[r].at # "done"
    BY <1>5 DEF Refused, NotSent
  <2>2. OneFetch' /\ UpToDate'
    BY <1>1, <1>2, <1>3, <2>1, SameView DEF OneFetch, UpToDate
  <2> QED  BY <1>3, <2>1, <2>2
<1>6. CASE Lost(r)
  <2>1. /\ UNCHANGED failed /\ UNCHANGED fetches /\ UNCHANGED requests
        /\ waiting' = waiting \ {r} /\ requests[r].kind \notin Steering
    BY <1>6 DEF Lost
  <2>2. Steered' = Steered /\ r \notin Steered /\ (Written' <=> Written)
    BY <2>1 DEF Steered, Written
  <2>3. OneSteered' /\ SaysPhase'
    BY <1>1, <1>2, <2>1, <2>2, SameServer DEF OneSteered, SaysPhase
  <2>4. OneFetch' /\ UpToDate'
    BY <1>1, <1>2, <2>1, <2>2, SameView DEF OneFetch, UpToDate
  <2> QED  BY <2>3, <2>4
<1> QED  BY <1>4, <1>5, <1>6

\* A page that is loaded again is calm when nothing steers, and so is one that
\* shows what it fetched, or that it could not.
LEMMA ViewCalm ==
  ASSUME ConsoleTypeOK, SlotsOK, CalmInv,
         Reload \/ Toggle \/ \E f \in Fetches : Fetched(f) \/ FetchFails(f)
  PROVE  CalmInv'
<1> SUFFICES ASSUME calm'  PROVE (OneSteered /\ OneFetch /\ SaysPhase /\ UpToDate)'
  BY DEF CalmInv
<1>1. UNCHANGED server /\ UNCHANGED requests
  BY DEF Reload, Toggle, Fetched, FetchFails, server
<1>2. Steered' = Steered /\ (Written' <=> Written)
  BY <1>1 DEF Steered, Written
<1>3. CASE Reload
  <2>1. Steered = {}
    BY <1>3 DEF Reload, Steered
  <2>2. PICK f \in Fetches : fetches' = [g \in Fetches |-> IF g = f THEN NewFetch ELSE NoFetch]
    BY <1>3 DEF Reload
  <2>3. Fetching' = {f} /\ fetches'[f] = NewFetch
    BY <2>2 DEF Fetching, NewFetch, NoFetch
  <2>4. OneFetch' /\ FreshFetches' /\ FreshPage'
    BY <2>3 DEF OneFetch, FreshFetches, FreshPage, NewFetch
  <2> QED  BY <1>2, <2>1, <2>4 DEF OneSteered, SaysPhase, UpToDate
<1>4. ASSUME calm, UNCHANGED waiting  PROVE OneSteered' /\ SaysPhase'
  BY <1>1, <1>2, <1>4, SameServer DEF CalmInv, OneSteered, SaysPhase
<1>5. CASE Toggle
  <2>1. calm /\ UNCHANGED waiting /\ UNCHANGED page /\ UNCHANGED failed /\ UNCHANGED fetches
    BY <1>5 DEF Toggle
  <2> QED  BY <1>1, <1>2, <1>4, <2>1, SameView DEF CalmInv, OneFetch, UpToDate
<1>6. ASSUME NEW f \in Fetches, Fetched(f) \/ FetchFails(f)
      PROVE  (OneSteered /\ OneFetch /\ SaysPhase /\ UpToDate)'
  <2>1. calm /\ UNCHANGED waiting /\ f \in Fetching /\ fetches' = [fetches EXCEPT ![f] = NoFetch]
    BY <1>6 DEF Fetched, FetchFails
  <2>2. OneFetch /\ UpToDate
    BY <2>1 DEF CalmInv
  <2>3. fetches'[f] = NoFetch /\ \A g \in Fetches : g # f => fetches'[g] = fetches[g]
    BY <2>1 DEF ConsoleTypeOK
  <2>4. Fetching' = {}
    BY <2>1, <2>2, <2>3 DEF Fetching, OneFetch, NoFetch
  <2>5. OneFetch' /\ FreshFetches'
    BY <2>4 DEF OneFetch, FreshFetches
  <2>6. ASSUME Fetched(f), FreshFetches  PROVE FreshPage'
    <3>1. /\ fetches[f].phase # None /\ fetches[f].stores # None
          /\ page' = [phase |-> fetches[f].phase, stores |-> fetches[f].stores]
      BY <2>6 DEF Fetched
    <3>2. fetches[f].phase = phase /\ Fresh(fetches[f].stores)
      BY <2>1, <2>6, <3>1 DEF FreshFetches
    <3> QED  BY <1>1, <3>1, <3>2, SameServer DEF FreshPage, Fresh
  <2>7. ASSUME FetchFails(f)  PROVE FreshPage'
    BY <2>7 DEF FetchFails, FreshPage, Usable
  <2> QED  BY <1>2, <1>4, <1>6, <2>1, <2>2, <2>5, <2>6, <2>7 DEF UpToDate
<1> QED  BY <1>3, <1>5, <1>6

\* What the server does with a request keeps the invariant.
LEMMA ServeCalm ==
  ASSUME ConsoleTypeOK, SlotsOK, CalmInv, NEW r \in Requests,
         \/ AdvanceRead(r) \/ AdvanceWrite(r) \/ RunRound(r) \/ RunEnds(r)
         \/ TimerChanged(r) \/ Refuse(r) \/ Unheard(r)
  PROVE  CalmInv'
<1> SUFFICES ASSUME calm'  PROVE (OneSteered /\ OneFetch /\ SaysPhase /\ UpToDate)'
  BY DEF CalmInv
<1>1. calm /\ UNCHANGED browser
  BY DEF AdvanceRead, AdvanceWrite, RunRound, RunEnds, TimerChanged, Refuse, Unheard
<1>2. UNCHANGED page /\ UNCHANGED failed /\ UNCHANGED waiting /\ UNCHANGED fetches
  BY <1>1 DEF browser
<1>3. OneSteered /\ OneFetch /\ SaysPhase /\ UpToDate
  BY <1>1 DEF CalmInv
<1>4. OneFetch'
  BY <1>2, <1>3 DEF OneFetch, Fetching
<1>5. CASE AdvanceWrite(r)
  <2>1. /\ requests'[r] = Reply(r, "done") /\ requests[r].kind = "advance"
        /\ \A q \in Requests : q # r => requests'[q] = requests[q]
    BY <1>5, ReplyIs, ReplacesIs DEF AdvanceWrite, Replies, Reply, Replaces
  <2>2. requests'[r].kind = "advance" /\ requests'[r].at = "done"
    BY <2>1, ReplyIs
  <2>3. r \in Steered /\ Steered' = Steered
    BY <2>1, <2>2 DEF Steered, Steering
  <2>4. SaysPhase'
    BY <1>3, <2>2, <2>3 DEF OneSteered, SaysPhase
  <2> QED  BY <1>2, <1>3, <1>4, <2>2, <2>3, <2>4 DEF OneSteered, UpToDate, Written
<1>6. ASSUME UNCHANGED server, OneSteered', SaysPhase', Written => Written'
      PROVE  (OneSteered /\ OneFetch /\ SaysPhase /\ UpToDate)'
  BY <1>2, <1>3, <1>4, <1>6, SameView DEF UpToDate
<1>7. CASE AdvanceRead(r)
  <2> DEFINE slot == [requests[r] EXCEPT !.at = "read", !.read = phase]
  <2>1. /\ Replaces(r, slot) /\ UNCHANGED server
        /\ requests[r].kind = "advance" /\ requests[r].at = "sent"
    BY <1>7 DEF AdvanceRead, Replaces
  <2>2. /\ slot \in SlotRecord /\ slot.kind = "advance" /\ slot.says = requests[r].says
        /\ slot.at = "read" /\ slot.read = phase
    BY <2>1, ReadIs
  <2> HIDE DEF slot
  <2>3. requests'[r] = slot /\ \A q \in Requests : q # r => requests'[q] = requests[q]
    BY <2>1, <2>2, ReplacesIs
  <2>4. Steered' = Steered
    BY <2>1, <2>2, <2>3 DEF Steered
  <2>5. SaysPhase'
    BY <1>3, <2>1, <2>2, <2>3, <2>4, SameServer DEF SaysPhase, Steered
  <2>6. Written => Written'
    BY <2>1, <2>3 DEF Written
  <2> QED  BY <1>2, <1>3, <1>6, <2>1, <2>4, <2>5, <2>6 DEF OneSteered
<1>8. CASE RunRound(r)
  <2> DEFINE slot == [requests[r] EXCEPT !.at = "running"]
  <2>1. /\ Replaces(r, slot) /\ UNCHANGED server
        /\ requests[r].kind = "execute" /\ requests[r].at = "sent"
    BY <1>8 DEF RunRound, Replaces, ConsoleTypeOK
  <2>2. /\ slot \in SlotRecord /\ slot.kind = "execute" /\ slot.says = requests[r].says
        /\ slot.at = "running"
    BY <2>1, RunningIs
  <2> HIDE DEF slot
  <2>3. requests'[r] = slot /\ \A q \in Requests : q # r => requests'[q] = requests[q]
    BY <2>1, <2>2, ReplacesIs
  <2>4. Steered' = Steered
    BY <2>1, <2>2, <2>3 DEF Steered
  <2>5. SaysPhase'
    BY <1>3, <2>1, <2>2, <2>3, <2>4, SameServer DEF SaysPhase, Steered
  <2>6. Written => Written'
    BY <2>1, <2>3 DEF Written
  <2> QED  BY <1>2, <1>3, <1>6, <2>1, <2>4, <2>5, <2>6 DEF OneSteered
<1>9. CASE RunEnds(r) \/ TimerChanged(r) \/ Refuse(r)
  <2>1. PICK at \in {"done", "refused"} :
          Replies(r, at) /\ (requests[r].kind = "advance" => at = "refused")
    BY <1>9 DEF RunEnds, TimerChanged, Refuse, SlotsOK
  <2>2. UNCHANGED server /\ requests[r].at # "done"
    BY <1>9 DEF RunEnds, TimerChanged, Refuse
  <2>3. Replaces(r, Reply(r, at))
    BY <2>1 DEF Replies, Reply, Replaces
  <2>4. /\ Reply(r, at) \in SlotRecord /\ Reply(r, at).kind = requests[r].kind
        /\ Reply(r, at).at = at
    BY ReplyIs
  <2>5. Steered' \subseteq Steered /\ (\A q, t \in Steered' : q = t) /\ SaysPhase' /\ (Written => Written')
    BY <1>3, <2>1, <2>2, <2>3, <2>4, SlotSettled
  <2> QED  BY <1>2, <1>3, <1>6, <2>2, <2>5 DEF OneSteered
<1>10. CASE Unheard(r)
  <2>1. Replaces(r, Free) /\ UNCHANGED server /\ r \notin Steered
    BY <1>3, <1>10 DEF Unheard, Replaces, OneSteered
  <2>2. Free.kind \notin Steering /\ Free.kind # "advance" /\ Free.kind # "execute"
    BY FreeIs DEF Steering
  <2>3. requests[r].kind # "advance"
    BY <2>1 DEF Steered, Steering
  <2>4. Steered' \subseteq Steered /\ (\A q, t \in Steered' : q = t) /\ SaysPhase' /\ (Written => Written')
    BY <1>3, <2>1, <2>2, <2>3, FreeIs, SlotSettled
  <2> QED  BY <1>2, <1>3, <1>6, <2>1, <2>4 DEF OneSteered
<1> QED  BY <1>5, <1>7, <1>8, <1>9, <1>10

\* A store that is made in the first phase keeps the invariant.
LEMMA CreateCalm ==
  ASSUME ConsoleTypeOK, SlotsOK, CalmInv, NEW r \in Requests, CreateStore(r)
  PROVE  CalmInv'
<1> SUFFICES ASSUME calm'  PROVE (OneSteered /\ OneFetch /\ SaysPhase /\ UpToDate)'
  BY DEF CalmInv
<1>1. /\ calm /\ phase = "SETUP" /\ phase' = phase /\ UNCHANGED browser
      /\ requests[r].kind = "create" /\ Replies(r, "done")
  BY DEF CreateStore
<1>2. UNCHANGED page /\ UNCHANGED failed /\ UNCHANGED waiting /\ UNCHANGED fetches
  BY <1>1 DEF browser
<1>3. OneSteered /\ OneFetch /\ SaysPhase /\ UpToDate
  BY <1>1 DEF CalmInv
<1>4. /\ requests'[r].kind = "create"
      /\ \A q \in Requests : q # r => requests'[q] = requests[q]
  BY <1>1, ReplyIs, ReplacesIs DEF Replies, Reply, Replaces
<1>5. Steered' = Steered /\ r \notin Steered /\ (Written' <=> Written)
  BY <1>1, <1>4 DEF Steered, Steering, Written
<1>6. OneSteered' /\ SaysPhase'
  BY <1>1, <1>2, <1>3, <1>4, <1>5 DEF OneSteered, SaysPhase, Steered
<1>7. Fetching' = Fetching
  BY <1>2 DEF Fetching
<1>8. OneFetch' /\ UpToDate'
  BY <1>1, <1>2, <1>3, <1>5, <1>7 DEF OneFetch, UpToDate, FreshFetches, FreshPage, Fresh, Usable
<1> QED  BY <1>6, <1>8

\* The two GETs read what is there.
LEMMA FetchCalm ==
  ASSUME ConsoleTypeOK, SlotsOK, CalmInv, NEW f \in Fetches, FindSession(f) \/ GetStatus(f)
  PROVE  CalmInv'
<1> SUFFICES ASSUME calm'  PROVE (OneSteered /\ OneFetch /\ SaysPhase /\ UpToDate)'
  BY DEF CalmInv
<1>1. /\ calm /\ UNCHANGED server /\ UNCHANGED requests /\ UNCHANGED page /\ UNCHANGED failed
      /\ UNCHANGED waiting /\ f \in Fetching
  BY DEF FindSession, GetStatus
<1>2. OneSteered /\ OneFetch /\ SaysPhase /\ UpToDate
  BY <1>1 DEF CalmInv
<1>3. OneSteered' /\ SaysPhase' /\ (Written' <=> Written)
  BY <1>1, <1>2, SameServer DEF OneSteered, SaysPhase, Steered, Written
<1>4. \A g \in Fetches : g # f => fetches'[g] = fetches[g]
  BY DEF FindSession, GetStatus, ConsoleTypeOK
<1>5. CASE FindSession(f)
  <2>1. /\ fetches'[f].phase = phase /\ fetches'[f].at = fetches[f].at
        /\ fetches'[f].stores = fetches[f].stores
    BY <1>5 DEF FindSession, ConsoleTypeOK
  <2>2. Fetching' = Fetching
    BY <1>4, <2>1 DEF Fetching
  <2>3. FreshFetches => FreshFetches'
    BY <1>1, <1>4, <2>1, <2>2, SameServer DEF FreshFetches, Fresh, Fetching
  <2>4. FreshPage'
    BY <1>1, <2>2 DEF FreshPage
  <2> QED  BY <1>2, <1>3, <2>2, <2>3, <2>4 DEF OneFetch, UpToDate
<1>6. CASE GetStatus(f)
  <2> DEFINE seen == [listed |-> made, ready |-> {s \in made : PlanConfirmed(s)}]
  <2>1. seen.listed = made /\ \A s \in seen.ready : PlanConfirmed(s)
    OBVIOUS
  <2>2. fetches' = [fetches EXCEPT ![f].stores = seen]
    BY <1>6 DEF GetStatus
  <2> HIDE DEF seen
  <2>3. /\ fetches'[f].phase = fetches[f].phase /\ fetches'[f].at = fetches[f].at
        /\ fetches'[f].stores = seen
    BY <2>2 DEF ConsoleTypeOK
  <2>4. Fetching' = Fetching
    BY <1>4, <2>3 DEF Fetching
  <2>5. FreshFetches => FreshFetches'
    BY <1>1, <1>4, <2>1, <2>3, <2>4, SameServer DEF FreshFetches, Fresh, Fetching
  <2>6. FreshPage'
    BY <1>1, <2>4 DEF FreshPage
  <2> QED  BY <1>2, <1>3, <2>4, <2>5, <2>6 DEF OneFetch, UpToDate
<1> QED  BY <1>5, <1>6

\* In the phase before round 1 the plan a player opens is the first: what was
\* confirmed stays so.
LEMMA ConfirmedStays ==
  ASSUME ConsoleTypeOK, NEW s \in Stores, OpenPlan(s) \/ ConfirmPlan(s),
         phase = "ROUND_1_CONFIG", NEW t \in Stores, PlanConfirmed(t)
  PROVE  PlanConfirmed(t)'
<1>1. PICK v \in confirmed[t] : \A w \in opened[t] : w <= v
  BY DEF PlanConfirmed
<1>2. v \in Nat \ {0}
  BY ConsoleAssumption DEF ConsoleTypeOK
<1>3. v \in confirmed'[t]
  BY DEF OpenPlan, ConfirmPlan, ConsoleTypeOK
<1>4. opened'[t] \subseteq opened[t] \cup {1}
  BY DEF OpenPlan, ConfirmPlan, ConfigVersion, ConsoleTypeOK
<1>5. \A w \in opened'[t] : w <= v
  BY <1>1, <1>2, <1>4
<1> QED  BY <1>3, <1>5 DEF PlanConfirmed

\* What the players do keeps the invariant.
LEMMA PlayersCalm ==
  ASSUME ConsoleTypeOK, SlotsOK, CalmInv, Players
  PROVE  CalmInv'
<1> SUFFICES ASSUME calm'  PROVE (OneSteered /\ OneFetch /\ SaysPhase /\ UpToDate)'
  BY DEF CalmInv
<1>1. PICK s \in Stores : OpenPlan(s) \/ ConfirmPlan(s)
  BY DEF Players
<1>2. /\ calm /\ phase' = phase /\ made' = made /\ UNCHANGED requests /\ UNCHANGED browser
  BY <1>1 DEF OpenPlan, ConfirmPlan
<1>3. UNCHANGED page /\ UNCHANGED failed /\ UNCHANGED waiting /\ UNCHANGED fetches
  BY <1>2 DEF browser
<1>4. OneSteered /\ OneFetch /\ SaysPhase /\ UpToDate
  BY <1>2 DEF CalmInv
<1>5. ASSUME phase = "ROUND_1_CONFIG"
      PROVE  \A t \in Stores : PlanConfirmed(t) => PlanConfirmed(t)'
  BY <1>1, <1>5, ConfirmedStays
<1>6. phase = "ROUND_1_CONFIG" => (Ready => Ready')
  BY <1>2, <1>5 DEF Ready, ConsoleTypeOK
<1>7. Steered' = Steered /\ Fetching' = Fetching /\ (Written' <=> Written)
  BY <1>2, <1>3 DEF Steered, Fetching, Written
<1>8. OneSteered' /\ OneFetch' /\ SaysPhase'
  BY <1>2, <1>3, <1>4, <1>6, <1>7 DEF OneSteered, OneFetch, SaysPhase
<1>9. \A x \in Seen : Fresh(x) => Fresh(x)'
  BY <1>2, <1>5 DEF Fresh, Seen
<1>10. FreshFetches => FreshFetches'
  <2>1. \A f \in Fetching : fetches[f].stores \in {None} \cup Seen
    BY DEF Fetching, ConsoleTypeOK
  <2>2. SUFFICES ASSUME FreshFetches, NEW f \in Fetching
                 PROVE  /\ fetches[f].phase # None => fetches[f].phase = phase
                        /\ fetches[f].stores # None => Fresh(fetches[f].stores)'
    BY <1>2, <1>3, <1>7 DEF FreshFetches
  <2> QED  BY <1>2, <1>3, <1>9, <2>1, <2>2 DEF FreshFetches, Fresh
<1>11. FreshPage => FreshPage'
  <2>1. page # None => page.stores \in Seen
    BY DEF ConsoleTypeOK
  <2> QED  BY <1>2, <1>3, <1>7, <1>9, <2>1 DEF FreshPage, Usable, Fresh
<1> QED  BY <1>4, <1>7, <1>8, <1>10, <1>11 DEF UpToDate

-----------------------------------------------------------------------------
(* The theorems.                                                            *)

ConsoleInv == ConsoleTypeOK /\ SlotsOK /\ CalmInv

\* The invariant holds in the initial states.
LEMMA InvInit == ConsoleInit => ConsoleInv
BY TypeInit, CalmInit DEF ConsoleInv

\* Every step keeps it.
LEMMA InvNext == ConsoleInv /\ [ConsoleNext]_consoleVars => ConsoleInv'
<1> SUFFICES ASSUME ConsoleInv, [ConsoleNext]_consoleVars  PROVE ConsoleInv'
  OBVIOUS
<1>1. ConsoleTypeOK /\ SlotsOK /\ CalmInv
  BY DEF ConsoleInv
<1>2. CASE ConsoleNext
  <2>1. ConsoleTypeOK' /\ SlotsOK'
    BY <1>1, <1>2, PageType, ServerType, PlayersType, SlotsNext DEF ConsoleNext
  <2>2. ASSUME Page  PROVE CalmInv'
    BY <1>1, <2>2, ClickCalm, AnswerCalm, ViewCalm DEF Page
  <2>3. ASSUME Server  PROVE CalmInv'
    BY <1>1, <2>3, ServeCalm, CreateCalm, FetchCalm DEF Server
  <2>4. ASSUME Players  PROVE CalmInv'
    BY <1>1, <2>4, PlayersCalm
  <2>5. CalmInv'
    BY <1>2, <2>2, <2>3, <2>4 DEF ConsoleNext
  <2> QED  BY <2>1, <2>5 DEF ConsoleInv
<1>3. CASE UNCHANGED consoleVars
  <2>1. /\ UNCHANGED server /\ UNCHANGED requests /\ UNCHANGED calm /\ UNCHANGED page
        /\ UNCHANGED failed /\ UNCHANGED fetches /\ UNCHANGED waiting /\ form' = form
    BY <1>3 DEF consoleVars, browser
  <2>2. ConsoleTypeOK' /\ SlotsOK'
    BY <1>1, <2>1 DEF ConsoleTypeOK, SlotsOK, server
  <2>3. Steered' = Steered /\ Fetching' = Fetching /\ (Written' <=> Written)
    BY <2>1 DEF Steered, Fetching, Written
  <2>4. CalmInv'
    BY <1>1, <2>1, <2>3, SameServer, SameView DEF CalmInv, OneSteered, OneFetch, SaysPhase, UpToDate
  <2> QED  BY <2>2, <2>4 DEF ConsoleInv
<1> QED  BY <1>2, <1>3

\* The state of the page and of the server is well formed, for any stores,
\* versions, requests and fetches.
THEOREM ConsoleTypeCorrect == ConsoleSpec => []ConsoleTypeOK
<1>1. ConsoleInv => ConsoleTypeOK
  BY DEF ConsoleInv
<1> QED  BY <1>1, InvInit, InvNext, PTL DEF ConsoleSpec

\* A slot changes by the steps that are about it: only the write of an advance
\* ends one that has read, only the engine's start makes one run.
LEMMA SlotSteps ==
  ASSUME ConsoleInv, ConsoleNext, NEW r \in Requests
  PROVE  /\ requests[r].at = "read" /\ requests'[r].at = "done" => AdvanceWrite(r)
         /\ requests[r].at = "sent" /\ requests'[r].at = "running" => RunRound(r)
<1> USE DEF server, browser
<1> DEFINE Goal == /\ requests[r].at = "read" /\ requests'[r].at = "done" => AdvanceWrite(r)
                   /\ requests[r].at = "sent" /\ requests'[r].at = "running" => RunRound(r)
<1>0. ConsoleTypeOK /\ SlotsOK
  BY DEF ConsoleInv
<1>1. ASSUME UNCHANGED requests  PROVE Goal
  BY <1>1
<1>2. ASSUME NEW q \in Requests, NEW slot \in SlotRecord, Replaces(q, slot),
             slot.at \in {"free", "sent", "read"} \/ (slot.at \in {"done", "refused"} /\ requests[q].at # "read")
      PROVE  Goal
  BY <1>0, <1>2, ReplacesIs
<1> HIDE DEF Goal
<1>3. ASSUME NEW q \in Requests, NEW at \in {"done", "refused"}, Replies(q, at), requests[q].at # "read"
      PROVE  Goal
  BY <1>0, <1>2, <1>3, ReplyIs DEF Replies, Reply, Replaces
<1>4. ASSUME NEW q \in Requests, Replaces(q, Free)  PROVE Goal
  BY <1>2, <1>4, FreeIs
<1>5. ASSUME Page  PROVE Goal
  <2>1. ASSUME NEW q \in Requests, NEW kind \in Kinds, Click(q, kind)  PROVE Goal
    <3>1. page.phase \in Status
      BY <1>0, <2>1 DEF Click, Usable, ConsoleTypeOK
    <3> QED  BY <1>2, <2>1, <3>1, NewRequest DEF Click, Replaces
  <2> QED  BY <1>1, <1>4, <1>5, <2>1 DEF Page, Reload, Toggle, Answered, Refused, NotSent, Lost, Fetched,
           FetchFails, Released, Replaces
<1>6. ASSUME Server  PROVE Goal
  <2>1. ASSUME NEW q \in Requests, AdvanceRead(q)  PROVE Goal
    BY <1>0, <1>2, <2>1, ReadIs DEF AdvanceRead, Replaces
  <2>2. ASSUME NEW q \in Requests, AdvanceWrite(q)  PROVE Goal
    <3>1. Replaces(q, Reply(q, "done"))
      BY <2>2 DEF AdvanceWrite, Replies, Reply, Replaces
    <3>2. requests'[q].at = "done" /\ \A t \in Requests : t # q => requests'[t] = requests[t]
      BY <1>0, <3>1, ReplyIs, ReplacesIs
    <3> QED  BY <2>2, <3>2 DEF Goal
  <2>3. ASSUME NEW q \in Requests, RunRound(q)  PROVE Goal
    <3>1. requests'[q].at = "running" /\ \A t \in Requests : t # q => requests'[t] = requests[t]
      BY <1>0, <2>3 DEF RunRound, ConsoleTypeOK
    <3> QED  BY <2>3, <3>1 DEF Goal
  <2>4. ASSUME NEW q \in Requests, RunEnds(q) \/ CreateStore(q) \/ TimerChanged(q) \/ Refuse(q)  PROVE Goal
    BY <1>3, <2>4 DEF RunEnds, CreateStore, TimerChanged, Refuse
  <2>5. ASSUME NEW q \in Requests, Unheard(q)  PROVE Goal
    BY <1>4, <2>5 DEF Unheard, Replaces
  <2>6. ASSUME NEW f \in Fetches, FindSession(f) \/ GetStatus(f)  PROVE Goal
    BY <1>1, <2>6 DEF FindSession, GetStatus
  <2> QED  BY <1>6, <2>1, <2>2, <2>3, <2>4, <2>5, <2>6 DEF Server
<1>7. ASSUME Players  PROVE Goal
  BY <1>1, <1>7 DEF Players, OpenPlan, ConfirmPlan
<1>8. Goal
  BY <1>5, <1>6, <1>7 DEF ConsoleNext
<1> QED  BY <1>8 DEF Goal

\* The phase changes by the write of an advance alone.
LEMMA PhaseSteps ==
  ASSUME ConsoleNext, phase' # phase
  PROVE  \E r \in Requests : AdvanceWrite(r)
<1>1. ~Page
  BY DEF Page, Reload, Toggle, Click, Answered, Refused, NotSent, Lost, Fetched, FetchFails, server
<1>2. ~Players
  BY DEF Players, OpenPlan, ConfirmPlan
<1> QED  BY <1>1, <1>2 DEF ConsoleNext, Server, AdvanceRead, RunRound, RunEnds, CreateStore, TimerChanged,
         Refuse, Unheard, FindSession, GetStatus, server

\* The one request that steers, before the server is through with it.
LEMMA CalmSteered ==
  ASSUME ConsoleInv, calm, NEW r \in Steered, requests[r].at \in {"sent", "read"}
  PROVE  /\ Running = {}
         /\ requests[r].says = phase
         /\ requests[r].at = "read" => requests[r].read = phase
         /\ requests[r].kind = "advance" /\ phase = "ROUND_1_CONFIG" => Ready
<1>1. OneSteered /\ SaysPhase /\ SlotsOK
  BY DEF ConsoleInv, CalmInv
<1>2. Running = {}
  BY <1>1 DEF Running, SlotsOK, OneSteered, Steered, Steering
<1> QED  BY <1>1, <1>2 DEF SaysPhase

\* However requests are lost, refused or overtaken, a page that was answered and
\* waited for advances the phase its button showed, by one, and computes the round
\* its button showed, one thing at a time.
THEOREM ButtonsTheorem == ConsoleSpec => ButtonsKeepTheirWord
<1> DEFINE Kept(r) == /\ requests[r].at = "read" /\ requests'[r].at = "done" =>
                           Running = {} /\ phase = requests[r].says /\ phase' = NextStatus[phase]
                      /\ requests[r].at = "sent" /\ requests'[r].at = "running" =>
                           phase = requests[r].says /\ Running = {}
<1>1. ASSUME ConsoleInv, ConsoleNext, calm, NEW r \in Requests  PROVE Kept(r)
  <2>1. CASE requests[r].at = "read" /\ requests'[r].at = "done"
    <3>1. AdvanceWrite(r)
      BY <1>1, <2>1, SlotSteps
    <3>2. r \in Steered /\ phase' = NextStatus[requests[r].read]
      BY <3>1 DEF AdvanceWrite, Steered, Steering
    <3> QED  BY <1>1, <2>1, <3>2, CalmSteered
  <2>2. CASE requests[r].at = "sent" /\ requests'[r].at = "running"
    <3>1. RunRound(r)
      BY <1>1, <2>2, SlotSteps
    <3>2. r \in Steered
      BY <3>1 DEF RunRound, Steered, Steering
    <3> QED  BY <1>1, <2>2, <3>2, CalmSteered
  <2> QED  BY <2>1, <2>2
<1>2. ConsoleInv /\ [ConsoleNext]_consoleVars
        => [calm => \A r \in Requests : Kept(r)]_consoleVars
  BY <1>1
<1> QED  BY <1>2, InvInit, InvNext, PTL DEF ConsoleSpec, ButtonsKeepTheirWord

\* Under the same conditions round 1 opens when every store has confirmed its plan.
THEOREM RoundOneTheorem == ConsoleSpec => RoundOneConfirmed
<1>1. ASSUME ConsoleInv, ConsoleNext, calm, phase = "ROUND_1_CONFIG", phase' = "ROUND_1"
      PROVE  made # {} /\ \A s \in made : PlanConfirmed(s)
  <2>1. PICK r \in Requests : AdvanceWrite(r)
    BY <1>1, PhaseSteps
  <2>2. r \in Steered /\ requests[r].kind = "advance" /\ requests[r].at = "read"
    BY <2>1 DEF AdvanceWrite, Steered, Steering
  <2>3. Ready
    BY <1>1, <2>2, CalmSteered
  <2> QED  BY <2>3 DEF Ready
<1>2. ConsoleInv /\ [ConsoleNext]_consoleVars
        => [calm /\ phase = "ROUND_1_CONFIG" /\ phase' = "ROUND_1" =>
              made # {} /\ \A s \in made : PlanConfirmed(s)]_consoleVars
  BY <1>1
<1> QED  BY <1>2, InvInit, InvNext, PTL DEF ConsoleSpec, RoundOneConfirmed
=============================================================================
