# StoreLab in TLA+

StoreLab is a classroom game. A facilitator runs a *session*; up to four teams
each run a *store* in it, answer quizzes, fill in an operational plan and are
ranked by a simulation of three rounds. The program is a NestJS server over
PostgreSQL (through Prisma), a Socket.io gateway and a Next.js client.

This directory holds TLA+ modules translated from that code, TLC configurations
that check them on small instances, and TLAPS proofs of what holds for every
instance. Paths below are relative to `src/`; `sessions.service.ts` stands for
`backend/src/sessions/sessions.service.ts`, and so on.

## 1. The system

### Parts, state, operations

| part | state it keeps | operations that change it | what makes it correct |
|---|---|---|---|
| sessions (`sessions.service.ts`) | `Session` row: phase, timer columns, costs; `PlayerRoundStatus` | create, advanceStatus, start/pause/stopTimer, update, setPlayerFinished, remove | phases in order, one at a time; the gate to round 2; no time lost or gained |
| stores (`stores.service.ts`) | `Store`, `StoreMember`, `PlayerTransfer` rows | create, join, transfer, swap, update, remove | one player per role and store; at most two departures per store; managers stay; a truthful history |
| plans (`plans.service.ts`) | `OperationalPlan` with stock and investment decisions | getOrCreate, the three updates, confirm | stock is not oversold; a confirmed plan stays; no investment twice; no decision lost |
| quiz (`quiz.service.ts`) | questions, answers per player, score per store | createQuestions, submitAnswers, consolidate | one attempt; the same questions for all; a score that is that of the answers; the end announced |
| engine (`backend/src/engine/`) | `RoundResult`, `RandomEvent`, `SlaEvent` rows | runRound | shares that add up; the same losses in every table; a settled round is reproduced |
| results (`results.service.ts`) | none | none (ranking and history from the rows above) | order of the ranking |
| gateway (`game.gateway.ts`) | socket rooms | join a room, emit | an event reaches the rooms it is for |
| auth (`auth.service.ts`, `mfa.service.ts`) | hash of the refresh token, second factor | login, refresh, logout | the token belongs to whom the screen shows |
| assistant (`assistant.service.ts`, `llm.service.ts`) | none (attempts of one question) | ask | every attempt at most once and in order; an answer or an error in the end |
| audit log, users | single rows | append, read | nothing depends on them |
| client: timer, sockets, tokens (`use-realtime-timer.ts`, `useSocket.ts`, `api.ts`, `authStore.ts`) | countdown on show, shared socket, tokens | GET answers, events, mounts and unmounts, 401s | what is on show is the session's; the line is held as long as somebody listens |
| client: plan page | a copy of the plan | load, decide, confirm, `plan:updated` | the copy is the plan; a save changes what its player changed |
| client: facilitator's page | a copy of phase and stores, requests under way | advance, execute, create a store, timer, refetch | a button does what it says |
| other pages, components, seeds, wiring | presentation, development data, configuration | | |

### How they interact

- The client calls the server over HTTP. A request is one asynchronous handler
  on a single-threaded event loop: between two `await`s nothing else runs, at
  every `await` anything may. No handler takes a lock, uses a transaction
  around its reads, or repeats its check in the `where` of its write; the
  `$transaction`s group writes only.
- Services share state through the database alone. `advanceStatus` reads the
  stores and transfers that `stores.service.ts` writes; `confirmPlan` counts
  quiz answers and members; the engine reads plans, scores and session costs.
- After a write the handler emits an event to the session's, store's or
  facilitator's room. An event is sent from the row the handler holds. Socket.io
  keeps the order of one connection and loses what is sent while a client is
  disconnected; nothing is sent again.
- A page fetches once and then takes what answers and events bring, whichever
  comes last. Some rules (round 1 waits for all plans) are the page's alone.

### What is hard here

Overlapping requests that check and then write (quota of transfers, limit of
stores, gate, stock, confirmation, consolidated score); rows that move or
disappear between a read and a write; absolute values computed from stale rows;
an optional field that is null instead of absent; events lost, late or
overtaken by an answer; a run of the engine that fails between two stores;
relative requests (`advance`) sent twice; tokens and sockets renewed under those
who use them. `PROJECT.json` lists each at its line under `hazards`, with the
property that covers it.

## 2. Modules

    SessionPhases            the phases, their order, their rounds
      Roster                 who sits where; transfers, swaps, the gate
      Lifecycle              the session row: phases, timer, finishes
        TimerView            Lifecycle with gateway, socket and a player's page
      Engine                 runRound, store after store; EXTENDS Market
      Console                the facilitator's page and the requests it sends
    Market                   events, demand, sales: the arithmetic of a round
    Quiz                     questions, answers, scores
      Plans                  plans and their confirmation, composed with Quiz
    PlanPage                 the plan page in several browsers
    Access                   tokens of one browser, calls and refreshes
      Sockets                the pooled socket, composed with Access
    Exchange                 what the assistant promises (abstract)
    Assistant                chat, request and chain of models; implements Exchange

`XProofs` holds the theorems about `X` (`LinkProofs` those about Access and Sockets,
`LifecycleProofs` those about TimerView too, `PlansProofs` those about Quiz too),
`MCX` small instances of it for TLC.

### Common form

A worker (in Plans a planner, in Engine a runner) is a request the server is
handling. Its record holds what the handler has read and the query it will make
next. Each action is one query with the code around it up to the next `await`.
The first action of a handler also picks the request's arguments; the last
writes and ends it. Everything the code throws, a write the database refuses,
and a process that dies between two queries end the request without effect:
`Fail` in Roster, Lifecycle and Engine. In Quiz and Plans a request ends at a
query that its checks or the database refuse (`Accepts`, `Allows`), and dies
anywhere only where an instance has crashes. Only the owner's requests appear
for facilitator operations; the ownership check ends the others at the first
query.

`Mix`, `QuizMix`, `Calls`, `Runs` and `Desks` say which requests arrive in an
instance. It is the same code in every run; a run without swaps is a game in
which nobody asks for one.

Operators whose name ends in `Slip` are plausible mistakes in the definition
they are named after. No behaviour uses them. They are there so that each
property can be seen to fail when the code is wrong in the way the property is
meant to notice.

**Roster.** `status`; `life` (does a store row exist, and does it have
`RandomEvent` rows); `members` and `transfers` (the rows); `req`. Operations:
`join` (2 actions), `transfer` (6), `swap` (the two members and the two counts in
either order, as `Promise.all` leaves them), `advanceStatus` with
`assertMandatoryTransfers` (4), `create` (2), `remove` (2), and the events the
engine leaves behind. The unique and foreign keys of `schema.prisma` are guards
of the writes. A transfer updates the membership *by its id*: wherever the row is
by then, it moves. A swap deletes two rows and inserts two with new ids. Row ids
are the smallest unused ones of `RowIds` and stand for fresh UUIDs.

**Lifecycle.** `status`; `timer` (the five columns); `finishes`
(`PlayerRoundStatus.remainingTime`); `now`; `req`; and `visited`, a history of
the phases the session has been in. `AdvanceWrite` writes the successor of the
phase *as read*. `StartWrite` and `PauseWrite` take their date anywhere between
the read and the write. `Edit` covers fields absent, present and null, because
`@IsOptional` lets a null through. Dates are ticks, `Math.floor` of a difference
is `\div TicksPerSecond`.

**TimerView.** `Broadcast` is Lifecycle's `Emit` with the append to `wire`;
`Deliver` is the handler of `useRealtimeTimer`, `Reload`/`Answer`/`Land` the GET of
a new page, `Drop`/`Reconnect` the connection. `past` is a history of the
session's countdowns; `calm` says that the page has been disturbed since the
last event neither by a reload or lost connection nor by an advance, which
resets the timer without an event.

**Quiz.** `questions`, `answers`, `scores` are the tables; `teams` is changed by
`Transfers`, of which the outcome alone is here. `createQuestions` deletes options
and questions in two queries *before* the transaction that inserts; the order
numbers are unique per round (`OrdersFree`); an answered question cannot be
deleted (`Unanswered`). `submitAnswers` checks, loads, inserts, aggregates,
upserts, counts. `finished` records announcements, `posed` rounds once saved.

**Plans** EXTENDS Quiz: `confirmPlan` counts its answers and members. `plans` is
the plan of each store and configuration with its decisions. The updates check a
plan they have read and write one column or row of the plan *as it is by then*.
Keys make the second of two creations fail.

**Market, Engine.** Floating point is replaced by exact numbers: rates are whole
per cents, a CSAT counts ten-thousandths, a quotient is a pair. The hash that
decides chance is the parameter `Luck`. `Load` is everything runRound reads at
first, then each row is one step; between any two the call may fail. Players'
operations, queries apart in Plans and Quiz, are single steps. `whole` and
`settled` are histories of the rounds.

**PlanPage.** Per browser a copy (`view`), three calls (GET, one save at a time,
confirmation), the events under way. A decision is shown before it is sent, an
answer or an event replaces the whole copy. Every read is stamped with the number
of writes made, so that "older" and "newer" have a meaning; nothing in the code
knows the stamp.

**Access, Sockets.** `token`, `refresh` are api.ts's variables; every call answered
401 refreshes on its own. `Sockets` adds the pool with its count, what each
component holds, and on which sockets its handlers are. `Commit` is one React
commit: the dot's layout effects, then the pages' effects, undone before done.

**Console.** What `useSession` holds (`page`), the two GETs of each fetch, the
requests under way and what their buttons said. The server takes the phase it
finds. `calm` is a history: the page was answered and waited for.

**Exchange, Assistant.** `Exchange` is the abstract promise: one question at a time,
settled once, and never waiting for ever. `Assistant` is the chat, the request and
the chain of attempts with its retry-after pauses; `Promise` is the refinement
mapping.

## 3. Runs

Every instance stops when its bounds are used up, so deadlock is not checked.
Times are with two TLC workers.

| run | instance | states | shows |
|---|---|---|---|
| roster_serial | 1 worker, 2 stores of 2 and a third to be created, limit 2, from ROUND_1; every operation | 653 276 | `OutboundWithinQuota`, `StoresOverrunBounded`, `DepartureTruthful`, `GateHolds` |
| roster_concurrent | 2 workers, stores of 3 and 2 players, RECONFIGURATION; transfers, swaps | 405 585 | what overlap cannot break: `OverrunBounded`, `HeldRowsKeepOwner`, `ManagerStays`, `PlayersKeepTheirSeats`, `ArrivalLogged` |
| lifecycle_serial | 1 worker, every operation, whole game, half-second clock up to 2 s, durations 1 and 2 s | 1 009 980 | `TypeOK`, `PhasesInOrder`, `FinishedRoundWasPlayed`, `NoTimeGivenBack` |
| view | 1 worker; starts, pauses, stops; reloads and lost connections | 1 510 571 | `SyncedWhenQuiet`, `ShownWasTrue`, and `FreezesOnClients` (liveness) |
| quiz | 2 workers; saves, submissions, consolidations, transfers; one round, 3 question rows | 1 038 640 | `SameSheet`, `ScoreWasTrue`, `PosedStays`, `FinishAnnounced`, `OneAttempt` |
| planning | 2 planners and 1 quiz worker, 2 stores that want one unit, an investment in both configurations | 1 280 513 | `StockOverrunBounded`, `ScoreCurrent`, `SettledPlansFrozen`, `NotBoughtAgain`, `DecisionsKept` |
| planning_moved | 1 planner; a transfer | violation | `ConfirmedByEveryone` fails |
| engine | 3 calls of any round, 1 failure, 2 stores, a plan and a quiz finished meanwhile | 483 216 | `DemandShared`, `LossesAddUp`, `SettledRoundsReproduce` |
| link | 2 users in turn, 2 calls, a dot and 2 pages, 3 tokens, 3 sockets | 551 115 | `TokenFollowsUser`, `LineIsHeld`, `HeardWhileSteady` |
| assistant | 36 environments of two providers, 3 questions | 12 548 | `ChainInOrder`, `AnswersItsQuestion`, `KeepsPromise` (refinement with liveness) |
| page | 2 browsers, the two cells of a category, 2 writes, 2 versions | 3 145 790 | `ShowsThePlan`, `NeighbourKept`, `ConfirmationSticks` |
| console | 2 stores, 2 requests and 2 fetches, a whole game | 741 983 | `ButtonsKeepTheirWord`, `RoundOneConfirmed` |

Why the bounds are enough to be interesting:

- Two workers are the least overlap, and each hazard listed needs two requests.
  The proofs of section 5 are for any number.
- Roster: three movable players are the least that can pass a limit of two
  departures by one. `MaxStores` is 2 instead of 4, and roster_serial has a store
  to create when one was deleted.
- Lifecycle: half-second ticks contain every order of reading, expiring, pausing
  and resuming, and every remainder of the floor. `MaxNow` bounds the clock,
  `MaxWire` (2) the events under way, one more than a request has.
- Quiz: one question per round, three identities, so that a quiz is saved twice
  over an old one; the manager and a player who moves are the least for two last
  answers. The orders of a sheet of several questions differ in nothing but
  `SameSheet`, which is proved for any number.
- Planning: `bia` asks for one unit or two of the one there is, `ana` for one; the
  first configuration of s1 is still open while its second is edited.
- Link: three tokens are a login, a refresh and another user's login; three sockets
  are the first one and the two that one change of the token opens, for the dot and
  then for the pages.
- Engine: rows of two stores suffice for a ranking torn between two calls; the
  rounds 1 and 3, whose reads differ, and a repetition need three calls. The
  threshold and shrinkage of round 3 read rounds 1 and 2.
- Page: a third browser adds nothing to a race of two; two writes are the least
  for a newer and an older plan, and both may also meet the change of version.
  Of `Fields` the run has the two cells of a category; the investments' and the
  operators' branches of `Decide` differ from them in sending one field.
- Console: `Followed`, the CONSTRAINT of the run, stops following a page that lost
  its calm while somebody still waits, up to the reload that restores it. The
  properties say nothing of such states.

Workers, stores, pages and users are interchangeable and no property names one,
so runs of safety properties use symmetry; runs with liveness (view, assistant) do
not. Every value a `.cfg` assigns is that of a constant of a module.

### Fairness

- `TFairSpec`: weak fairness of `Broadcast(w)` (a handler whose update has returned
  continues without waiting for anything) and of `Deliver` (a connected Socket.io
  client handles what it has received). No request is assumed to arrive and no
  query to return. `FreezesOnClients` speaks of a timer that stays paused.
- `AssistantSpec`: weak fairness of `Serving` (the server goes on; a model answers,
  fails, or is given up by the client library; a pause ends) and of an answer
  or a failure being shown (the `finally` of `useAssistantChat`). A connection that
  is lost is a failure of the request. Exchange's own fairness, that a question
  is settled, is what these two must imply, and TLC checks that they do.

## 4. What the runs found

**planning_moved**, a violation run. `plans.service.ts:250` says that all members
must have answered; `confirmPlan` compares two counts. A player answers and is
transferred: his answer still counts for the store he has left.

Assumptions without which a property of a passing run fails, each seen in TLC
with one change to a configuration or a property here:

| property | change | counterexample |
|---|---|---|
| `OutboundWithinQuota` | a second worker | two requests count one departure each and both append: three, and the gate asks for one or two |
| `DepartureTruthful` | a second worker | `transfer` logs the origin it read, the update by id moves the player from wherever he is |
| `GateHolds` | a second worker | round 2 opens with a store, created after the gate read the stores, that sent nobody away |
| `NoTimeGivenBack` | a second worker | two starts overlap: the second sets a running countdown back to its start; a delayed pause erases a recorded cycle |
| `OneStepForward` (proved for one worker) | a second worker | overlapping advances take the session back; even so no phase is entered before its predecessors |
| `TimerOnlyInRound`, `StoppedIsReset` (the same) | a second worker | a start that overlaps an advance leaves the timer running outside a round; a delayed pause puts time on the next round's timer |
| enabled timers have a duration | edits | `timerDuration: null`, which the edit dialog sends when the minutes are empty, passes the check and is written |
| `SyncedWhenQuiet` | a second worker, or edits | events in the wrong order; `update` changes the duration without an event |
| `SyncedWhenQuiet` | without `calm` | the GET's answer overwrites a newer event; `advanceStatus` resets the timer without `session:timer_updated` |
| `FreezesOnClients` | a second worker | the events go out in the other order than the writes |
| `ScoreCurrent` | a second quiz worker, or crashes | the score without the later answer is written last; answers without a score |
| `PosedStays` | crashes | the old questions are gone and the new ones not there |
| `FinishAnnounced` | without `left` | a store whose quiz is complete because a player left is not announced |
| `DemandShared`, `LossesAddUp` | without `whole`, or two runners | a call that failed leaves rows of two runs; so do two overlapping calls, though both end well (`schema.prisma:378` defines the share over all stores) |
| `SettledRoundsReproduce` | two runners | a call that read the round before it was settled writes its rows after it was |
| ranks add up | instead of `total` | stores that tie share the lowest rank of their group; `schema.prisma:364` takes a permutation for granted |
| the plan played is the plan on show | ROUND_3 | the page edits configuration 3 (`plan-math.ts:5-9`, `schema.prisma:235`), `engine.service.ts:75-76` plays configuration 2 |
| shrinkage of round 3 counts each plan once | | rounds 2 and 3 are both computed from configuration 2, which is counted twice |
| `TokenFollowsUser` | without `clean` | a refresh answered after a logout installs the token of who has left; a logout's post that crosses a new login clears the new grant; `api.ts:22` speaks of a way to the login page that `_onLogout` does not take |
| `HeardWhileSteady` | without `steady` | after a silent refresh (`api.ts:27`: "sem o usuário perceber") the pages listen on a closed socket and the dot may hold one |
| no handler on a socket without its page | | `on`'s cleanup finds the ref empty (`useSocket.ts:83`) |
| `AnswersItsQuestion` | without `wiped` | a chat emptied while a question waits gets a lone answer, or an error whose retry does nothing |
| `ShowsThePlan` | without `fresh` | an older event arrives after the answer and the saved value vanishes, although `StockInput.tsx:11-15` and the page (182-187) rule it out; a refused value stays on show and is sent again with its neighbour; a change between the GET and the joining of the room is missed |
| `NeighbourKept` | without `basis` | a save writes back the other player's cell as the page showed it |
| `ConfirmationSticks` | without the stamp | a late event opens a confirmed plan; the confirmation itself is not announced to the store's room |
| `view[c].version` is the phase's | | an event of the other configuration throws a page back to it |
| `ButtonsKeepTheirWord` | without `calm` | a second click between the answer and the refetched session, a lost answer tried again, or a fetch that overtakes a newer one advances another phase or computes another round |
| `RoundOneConfirmed` | without `calm` | the form for a store stays open after SETUP (`page.tsx:234` does not look at `canCreateStore`), and a store joins after all the others were seen confirmed |

Read in the code while modelling, without a run:

- `docs/TIMER.md:261` calls the timer settings editable in SETUP only; `update`
  does not enforce it, and `sessions.service.spec.ts:152` expects that it does not.
- The server lets the session advance without confirmed plans and without computed
  rounds (`docs/agent/plan.md:155-161`, `docs/agent/tarefas-sessao.md:48` ask for
  them); at FINISHED the ranking is emitted whatever was run
  (`sessions.service.ts:191-194`). `planConfirmed` of the status is that of the
  latest plan, whatever the phase.
- Nothing in the client listens to the facilitator's events
  (`game.gateway.ts:161-163`): confirmations show after a reload.
- `remove` of a session deletes no `RandomEvent`, whose foreign key refuses the
  stores: a FINISHED session with events cannot be deleted.
- `computePodiumOrder` looks for ranks 1, 2 and 3 (`results-math.ts:82-95`): with a
  tie a store is missing from the podium.
- The loads of the quiz panel replace each other in order of arrival.

## 5. Proofs

Checked by TLAPS for every value of the constants that satisfies the named
assumptions, which TLC evaluates in every run of the module. They say that
constants are sets of the right kind, that bounds are numbers, and that what
there is at first could have come about: the stores, rows and scores that
`Initial...` constants give satisfy what the program keeps true of its own.
A theorem that needs more than these says so in its `ASSUME`: one request at a
time, or none that dies. Section 4 shows what happens without.

**RosterProofs.** `TypeCorrect`. `HeldRowsTheorem`, `ManagerTheorem`,
`ArrivalTheorem` follow from `IInv`: row identities are unique, a row held by a
handler and still in the table has the same player and role, and what was checked
about roles stays true of the rows held. The reads a transfer makes are stale
when it writes; `IInv` is what staleness cannot spoil, because `transfer`
changes only a row's store and `swap` gives new rows new identities.
`SeatsTheorem` counts the seats of a player in a role over each step.
`OverrunTheorem`, `QuotaTheorem`: `OverrunBounded` is not inductive, since a request
that has passed its count will append later. `BoundInv` counts both: the
departures of a store and the requests cleared to append one are together at most
`MaxOutbound - 1 + |Workers|`. With one worker this is the documented limit.
`StoresTheorem` is the same argument for the limit of stores (`StoresInv`).
`GateTheorem` and `DepartureTheorem` assume one worker: `SoloInv` says that what a
lone handler has read still stands, step by step of its work.

**LifecycleProofs** is about Lifecycle and TimerView. `TypeCorrect` includes that no
elapsed and no remaining time is negative. `PhasesTheorem`, `FinishTheorem` from
`PhaseInv`: the status and every status read have been visited, and the visited
phases are closed under "earlier"; the status alone would not do, since a stale
advance can move it back. `TimerTheorem`, `StepTheorem`, `NoTimeTheorem` assume
requests one at a time (`Serial`): `Fresh` says that a handler's copy of the row is
the row and its checks still hold. `NoTimeTheorem` rests on lemmas about the floor of
a difference of dates. `WatchedTheorem`: TimerView's steps are Lifecycle's or stutter,
so that all this holds there. `ShownTheorem`, for any overlap, loss and delay: every
row under way is one the session has had (`PastInv`). `SyncedTheorem` (`SyncInv`)
assumes `Serial` and neither advances nor edits, which send no timer event: the last
countdown under way, or the one shown, is the session's unless a request is about
to send it.

**PlansProofs** is about Quiz and Plans. `QuizTypeCorrect`; `SameSheetTheorem` and `OneAttemptTheorem`, for any
number of overlapping saves, submissions, transfers and crashes. The invariant
relates the sheet a handler is about to insert, the questions there are by then
(foreign keys) and the answers already given: a question that was answered cannot
be deleted, so whoever answers later answers the same ones.
`ScoreTrueTheorem`, also without conditions: what is aggregated are whole sheets of one
size, so that a score is that of some players with all they answered (`ScoresTrue`).
`PosedTheorem` and `FinishTheorem` assume that no request dies. The first needs that
between the deletion of options and that of questions nothing refuses the second
(`SaveInv`), and that a round's identities are all there or none (`RoundsWhole`); the
second that a request which has counted too few answers is not the last
(`FinishInv`). `ScoreCurrentTheorem` assumes one worker as well.
`PlansTypeCorrect`; `FrozenTheorem`, `BoughtOnceTheorem`,
`DecisionsTheorem`, for any number of planners. A plan held by a handler exists
and its identity does not change; a plan not confirmed when read is what
`InFlight` excuses. No transaction is needed for these: each write names one
column or row. `StockTheorem`: `StockInv` bounds the sum of every table of purchases
that the stored ones and those under way can still produce (`Possible`), because
a request checks one such table and then writes into another.
`QuizBesideTheorem` carries Quiz's theorems over; `PlannedScoreTheorem` is one of them.

**LinkProofs** is about Access and Sockets. `AccessTypeCorrect`; `TokenTheorem`: while
`clean`, the user, the access token, the refresh token and every refresh under way
belong together, however many calls expire at once. `LinkTypeCorrect`, `LineTheorem`
from `LineInv`: the count of the pool fits those who hold its socket after every
order of effects and cleanups in a commit (`PoolFits`). `HeardTheorem` from `HearInv`:
while `steady`, all who are mounted hold the one open socket.

**AssistantProofs.** `AssistantTypeCorrect`; `ChainTheorem`, `AnswerTheorem`;
`PromiseTheorem`: initial states and steps of Assistant are initial states and steps
or stutters of Exchange (its fairness is left to TLC).

**PlanPageProofs**, for any number of browsers, versions, fields and writes.
`PageTypeCorrect`. `ConfirmationTheorem` from `StampInv`: of two copies of a version in
circulation the later one is confirmed if the earlier is. `NeighbourTheorem` from
`NeighbourInv`: every copy is a snapshot, and a page that has heard of the last write
names the decisions it does not change as they are. `ShownTheorem` from `ShownInv`:
if a copy is stale and was not missed, news of a later write is under way to the
page or about to be sent (`Told`, `Rewritten`). This is the theorem that depends on the
order of saving, reading again, emitting and answering in `refreshAndRespond`.

**ConsoleProofs.** `ConsoleTypeCorrect`; `ButtonsTheorem`, `RoundOneTheorem` from
`ConsoleInv`: while `calm`, at most one request steers and at most one fetch is
open, what a button says is the phase there is (`SaysPhase`), and the page is up to
date unless a request or fetch will bring it so (`UpToDate`). `calm` must be in the
invariant's premise: each of its conditions is one of the counterexamples above.

**EngineProofs**, for any stores, categories, investments, chances, plans and quizzes.
It begins with facts about `SumFunction` over finite sets (a smallest set that broke
one would have a smaller one in it), among them that a sum of natural numbers is one
and that a factor may be taken out, and with the ranges of Market's operators.
`RowsTheorem`, for any number of overlapping calls: every row is well formed; nothing
sold, left over or lost turns negative (the invariant, `TypeInv`, adds that no score
exceeds the total it is a share of). The other three assume one call at a time (`Alone`), which runRound does
not enforce; section 4 has what two overlapping calls break. `DemandTheorem`: `DemandInv`
says of the call under way that its scores add up to its total, that the stores it has
passed have rows with these numbers, and that no store it does not play has a row: a
store once played is played again, since plans are never deleted. `LossesTheorem`
(`LossInv`) follows the rows of the store the call is at, event after event and option
after option. `SettledTheorem`: `SettledInv` compares each row of a settled round with
the one (`IdealRow`) that an undisturbed call would write; a call that repeats such a
round has read plans and scores nobody can change any more (`Locked`) and, of earlier
rounds, rows that are settled themselves, so that it writes what is there. A call
of an unsettled round is no danger to it: the lemma about one step, `SettledKept`,
needs no `Alone`, only the invariant does.

Every invariant named here was checked by TLC on the instance of its run first.

Only model-checked: `FreezesOnClients` and the fairness of Exchange, liveness, which
this prover does not do; that Market's numbers are the code's, beyond their ranges,
shares and sums; and of course `ConfirmedByEveryone`, which fails.

## 6. Plan

1. An abstract `Seating` (a transfer or a swap is one atomic move), implemented by
   Roster with one worker.
2. Teardown: the foreign keys and the order of deletes when a whole session is
   removed; the quiz panel and the transfers page as further readers of the
   facilitator's room.
3. Results: ranking and podium over Engine's rows.

## 7. Not modelled, and why

- *Rendering, forms, styling, seeds, wiring* have no state of their own to get
  wrong in these ways. They are most of the repository's lines: the components
  and pages of the client outside the ones above, the interface kit, the
  tutorials, and two scripts that fill a development database.
- *Results, audit log, users*: read-only queries and sorts, or single queries.
- *Second factor, recovery, hashing, signing*: they end in the same `issueTokens`;
  the rest is library calls. The first render from the persisted store, when the
  page has a user and no token yet, is left out of Access.
- *The text of the assistant* (scope, context, prompt) and the providers
  themselves: a request is answered, busy or refused.
- *Money*: interest, payroll, maintenance, licences and EBITDA are functions of the
  columns Engine keeps. Floating-point rounding is out of reach; Market is exact.
- *Sessions*: deletion, and the catalogue and cost fields of `update`.
- *Plan page*: the loss of the connection (TimerView has it for the timer), the
  drafts inside inputs, the stock on show, the sums of the preview, the tutorial.
  The blur of an operators' field that saves the values shown is `Decide` with the
  old value. Planning's `Calls` do not take an investment back.
- *Facilitator's page*: a second tab, renaming and deleting, the transfers page, the
  quiz panel.
- *A crash between a write and its event*: the event is then missing, as when a
  connection is lost.
