------------------------------- MODULE Engine -------------------------------
(***************************************************************************)
(* The engine that closes a round (EngineService.runRound): it reads the    *)
(* session once, draws the events, shares the demand (module Market), and   *)
(* then writes store after store, one query at a time and outside of any    *)
(* transaction, the RoundResult, the RandomEvent and the SlaEvent rows.     *)
(*                                                                         *)
(* Around it the players visit, edit and confirm their plans and finish     *)
(* their quizzes; those operations have modules of their own (Plans, Quiz)  *)
(* and are single steps here.  runRound looks at neither the phase of the   *)
(* session nor a confirmation, so the phase is no state of this module.     *)
(***************************************************************************)
EXTENDS Market, SessionPhases

CONSTANTS
  Runners,        \* calls of runRound the server may be handling
  Runs,           \* the rounds the facilitator asks for in this instance
  MaxCalls,       \* bound: calls of runRound
  MaxFails,       \* bound: calls that fail on the way
  EventTypes,     \* the events drawn: all of EventType in the code
  Luck,           \* the hashes a session may have
  Options,        \* the decisions players take
  Desks,          \* <<store, version>>: the plans they edit in this instance
  InitialPlans,
  InitialQuiz,
  Scores,         \* the quiz scores a store may come to
  InitialCash,
  CapexCost,      \* CapexOption.acquisitionCost
  None

Rounds   == 1..3
Versions == 1..3

Plan == [decided : Decisions, confirmed : BOOLEAN]

ASSUME EngineAssumption ==
  /\ Runs \subseteq Rounds /\ MaxCalls \in Nat /\ MaxFails \in Nat
  /\ EventTypes \subseteq EventType /\ EventTypes # {} /\ Capex # {}
  /\ Luck \subseteq [Stores \X Rounds -> [EventTypes \cup Capex -> 0..99]]
  /\ \A luck \in Luck, s, t \in Stores, r \in Rounds, e \in EventTypes \cap SessionWide :
       luck[s, r][e] = luck[t, r][e]
  /\ Options \subseteq Decisions
  /\ Desks \subseteq Stores \X Versions
  /\ InitialPlans \in [Stores -> [Versions -> Plan \cup {None}]]
  /\ Scores \subseteq 0..100
  /\ InitialQuiz \in [Stores -> [Rounds -> Scores \cup {None}]]
  /\ InitialCash \in Nat /\ CapexCost \in [Capex -> Nat]

VARIABLES
  luck,      \* what the hashes of this session come to; it never changes
  quiz,      \* QuizAnswer.scorePercentage by store and round, or None
  plans,     \* OperationalPlan by store and configVersion, or None
  results,   \* RoundResult by store and round, or None
  events,    \* RandomEvent by store, round and type, or None
  slas,      \* SlaEvent by store, round and option, or None
  job,       \* what each call of runRound has read so far
  calls,     \* how many calls there were
  fails,     \* how many of them failed
  whole,     \* history: the rounds whose last call ran to its end
  settled    \* history: the rounds computed from settled plans and settled rounds

tables  == <<results, events, slas>>
history == <<whole, settled>>
desk    == <<luck, quiz, plans>>
vars    == <<desk, tables, job, calls, fails, history>>

Steps == {"idle", "next", "past_results", "past_plans", "first_result", "first_plan",
          "result", "events", "slas"}

Idle ==
  [ step |-> "idle", round |-> 1, seen |-> [s \in Stores |-> None], market |-> None, sound |-> FALSE, todo |-> {}, store |-> None,
    pastResults |-> <<None, None>>, pastPlans |-> <<None, None>>,
    firstResult |-> None, firstPlan |-> None, gross |-> 0, left |-> {} ]

-----------------------------------------------------------------------------
(* What a run makes of what it has read: seen[s] is the plan of store s,    *)
(* scores[s] its quiz, market[s] its indicators and its part of the demand. *)

ConfigVersion(r) == IF r = 1 THEN 1 ELSE 2

Playing(seen) == {s \in Stores : seen[s] # None}

Happened(seen, r, s) ==
  {e \in EventTypes : Happens(e, luck[s, r][e], seen[s].decided)}

QuizScore(scores, s) == IF scores[s] = None THEN 0 ELSE scores[s]

Indicators(seen, scores, r) ==
  [ s \in Playing(seen) |->
      LET plan == seen[s].decided
          happened == Happened(seen, r, s)
      IN  [ price        |-> BasketPrice(plan, happened),
            availability |-> Availability(plan, happened),
            csat         |-> Csat(plan, QuizScore(scores, s), happened) ] ]

Competition(seen, scores, r) ==
  LET ind == Indicators(seen, scores, r) IN
  [ s \in Playing(seen) |->
      [indicators |-> ind[s], score |-> Score(ind, s), total |-> TotalScore(ind, s)] ]

\* The SLA loss of an option and the revenue an event of so many days costs,
\* as multiples of a thirtieth of a day's revenue.
OptionDays(plan, r, s, o) == DaysDown(o, luck[s, r][o], plan)

\* totalRevenueLost.
SlaLoss(gross, plan, r, s) == SumFunction([o \in Capex |-> gross * OptionDays(plan, r, s, o)])

CashUsed(plan) ==
  SumFunction([c \in Categories |-> plan.bought[c] * UnitCost[c]])
    + SumFunctionOnSet(CapexCost, plan.capex)

\* buildShrinkageInputs, for round 3: what was left of the round itself and, for
\* each earlier plan, of the round of its number, by that round's share.  The
\* terms have different denominators and are kept apart.
LeftOver(plan, result, c) ==
  IF result.goods > 0
    THEN <<plan.bought[c] * (result.total - result.score), result.total>>
    ELSE <<plan.bought[c], 1>>

Shrinkage(now, pastPlans, pastResults, c) ==
  [ v \in Versions |->
      CASE v = 3 -> now
        [] v < 3 /\ pastPlans[v] # None /\ pastResults[v] # None ->
             LeftOver(pastPlans[v].decided, pastResults[v], c)
        [] OTHER -> <<0, 1>> ]

ShrinkageInputs(score, total, plan, happened, pastPlans, pastResults) ==
  [ c \in Categories |->
      Shrinkage(<<Unsold(score, total, plan, happened, c), 4000 * total>>,
                pastPlans, pastResults, c) ]

\* computeInterestThreshold.
Threshold(firstResult, firstPlan) ==
  IF firstResult = None THEN InitialCash
  ELSE InitialCash - firstResult.cash
         + (IF firstPlan = None THEN 0
            ELSE SumFunctionOnSet(CapexCost, Capex \ firstPlan.decided.capex))

\* The RoundResult of store s.  Payroll, maintenance, licences, interest, EBITDA
\* and its percentage are functions of these columns and the plan's.
Result(q, s) ==
  LET plan == q.seen[s].decided
      happened == Happened(q.seen, q.round, s)
      score == q.market[s].score
      total == q.market[s].total
      gross == GrossRevenue(score, total, plan, happened)
  IN  [ version   |-> ConfigVersion(q.round),
        plan      |-> plan,
        indicators |-> q.market[s].indicators,
        score     |-> score,
        total     |-> total,
        gross     |-> gross,
        goods     |-> CostOfGoods(score, total, plan, happened),
        slaLoss   |-> SlaLoss(gross, plan, q.round, s),
        fines     |-> Effect(FineOf, happened),
        downtime  |-> gross * Effect(DaysOf, happened),
        cash      |-> CashUsed(plan),
        threshold |-> Threshold(q.firstResult, q.firstPlan),
        shrinkage |->
          IF q.round # 3 THEN None
          ELSE ShrinkageInputs(score, total, plan, happened, q.pastPlans, q.pastResults) ]

\* The RandomEvent and SlaEvent rows: whether it occurred, and the revenue lost.
EventRow(q, s, e) ==
  LET occurred == e \in Happened(q.seen, q.round, s)
  IN  [ occurred |-> occurred,
        lost |-> IF occurred /\ e \in DOMAIN DaysOf THEN q.gross * DaysOf[e] ELSE 0 ]

SlaRow(q, s, o) ==
  LET days == OptionDays(q.seen[s].decided, q.round, s, o)
  IN  [occurred |-> days > 0, lost |-> q.gross * days]

-----------------------------------------------------------------------------
(* runRound.                                                               *)

At(w, step) == job[w].step = step

\* The one query for the session, with its stores, plans and quiz scores.
Load(w, r) ==
  /\ At(w, "idle") /\ calls < MaxCalls /\ r \in Runs
  /\ calls' = calls + 1
  /\ LET seen == [s \in Stores |-> plans[s][ConfigVersion(r)]]
     IN  job' = [job EXCEPT ![w] =
           [Idle EXCEPT !.step = "next", !.round = r, !.seen = seen, !.todo = Playing(seen),
                        !.market = Competition(seen, [s \in Stores |-> quiz[s][r]], r),
                        !.sound = /\ 1..(r - 1) \subseteq settled
                                  /\ \A s \in Stores : seen[s] # None /\ quiz[s][r] # None
                                  /\ \A s \in Playing(seen) : seen[s].confirmed]]
  /\ whole' = whole \ {r}
  /\ UNCHANGED <<desk, tables, fails, settled>>

FirstStepSlip(r) ==   \* the first round has a threshold like the second
  IF r = 3 THEN "past_results" ELSE "first_result"

FirstStep(r) ==
  CASE r = 1 -> "result" [] r = 2 -> "first_result" [] r = 3 -> "past_results"

\* The query asks for no order of the session's stores.
NextStore(w, s) ==
  /\ At(w, "next") /\ s \in job[w].todo
  /\ job' = [job EXCEPT ![w].step = FirstStep(job[w].round), ![w].store = s,
                        ![w].todo = @ \ {s}]
  /\ UNCHANGED <<desk, tables, calls, fails, history>>

\* buildShrinkageInputs: the results of rounds 1 and 2, then the plans.
PastResults(w) ==
  /\ At(w, "past_results")
  /\ job' = [job EXCEPT ![w].step = "past_plans",
                        ![w].pastResults = [r \in 1..2 |-> results[job[w].store][r]]]
  /\ UNCHANGED <<desk, tables, calls, fails, history>>

PastPlans(w) ==
  /\ At(w, "past_plans")
  /\ job' = [job EXCEPT ![w].step = "first_result",
                        ![w].pastPlans = [v \in 1..2 |-> plans[job[w].store][v]]]
  /\ UNCHANGED <<desk, tables, calls, fails, history>>

\* computeInterestThreshold: the result of round 1, then the first plan.
FirstResult(w) ==
  LET found == results[job[w].store][1] IN
  /\ At(w, "first_result")
  /\ job' = [job EXCEPT ![w].step = IF found = None THEN "result" ELSE "first_plan",
                        ![w].firstResult = found, ![w].firstPlan = None]
  /\ UNCHANGED <<desk, tables, calls, fails, history>>

FirstPlan(w) ==
  /\ At(w, "first_plan")
  /\ job' = [job EXCEPT ![w].step = "result", ![w].firstPlan = plans[job[w].store][1]]
  /\ UNCHANGED <<desk, tables, calls, fails, history>>

WriteResult(w) ==
  LET q == job[w]
      row == Result(q, q.store)
  IN
  /\ At(w, "result")
  /\ results' = [results EXCEPT ![q.store][q.round] = row]
  /\ job' = [job EXCEPT ![w].step = "events", ![w].left = EventTypes, ![w].gross = row.gross]
  /\ UNCHANGED <<desk, events, slas, calls, fails, history>>

\* Events and options are taken one after the other, in the order of their
\* definitions; what happened is emitted to the store's room on the way.
WriteEventSlip(w) ==   \* a row that is there is left as it is
  LET q == job[w]
      e == CHOOSE x \in q.left : TRUE
  IN
  /\ At(w, "events")
  /\ events' = IF events[q.store][q.round][e] = None
                 THEN [events EXCEPT ![q.store][q.round][e] = EventRow(q, q.store, e)]
                 ELSE events
  /\ job' = [job EXCEPT ![w].left = IF q.left = {e} THEN Capex ELSE q.left \ {e},
                        ![w].step = IF q.left = {e} THEN "slas" ELSE @]
  /\ UNCHANGED <<desk, results, slas, calls, fails, history>>

WriteEvent(w) ==
  LET q == job[w]
      e == CHOOSE x \in q.left : TRUE
  IN
  /\ At(w, "events")
  /\ events' = [events EXCEPT ![q.store][q.round][e] = EventRow(q, q.store, e)]
  /\ job' = [job EXCEPT ![w].left = IF q.left = {e} THEN Capex ELSE q.left \ {e},
                        ![w].step = IF q.left = {e} THEN "slas" ELSE @]
  /\ UNCHANGED <<desk, results, slas, calls, fails, history>>

WriteSla(w) ==
  LET q == job[w]
      o == CHOOSE x \in q.left : TRUE
  IN
  /\ At(w, "slas")
  /\ slas' = [slas EXCEPT ![q.store][q.round][o] = SlaRow(q, q.store, o)]
  /\ job' = [job EXCEPT ![w].left = q.left \ {o},
                        ![w].step = IF q.left = {o} THEN "next" ELSE @]
  /\ UNCHANGED <<desk, results, events, calls, fails, history>>

\* findMany and emitRoundResults.
Announce(w) ==
  LET q == job[w] IN
  /\ At(w, "next") /\ q.todo = {}
  /\ job' = [job EXCEPT ![w] = Idle]
  /\ whole' = whole \cup {q.round}
  /\ settled' = IF q.sound THEN settled \cup {q.round} ELSE settled
  /\ UNCHANGED <<desk, tables, calls, fails>>

\* A query fails, or the server goes down.
Fail(w) ==
  /\ ~At(w, "idle") /\ fails < MaxFails
  /\ fails' = fails + 1
  /\ job' = [job EXCEPT ![w] = Idle]
  /\ UNCHANGED <<desk, tables, calls, history>>

-----------------------------------------------------------------------------
(* The players.                                                            *)

\* configVersionFromStatus: the configuration the plan page works on.
VersionShown(s) ==
  CASE s = "ROUND_3" -> 3 [] s \in {"RECONFIGURATION", "ROUND_2"} -> 2 [] OTHER -> 1

Nothing ==
  [ bought |-> [c \in Categories |-> 0], margin |-> [c \in Categories |-> 0],
    cashier |-> 0, service |-> 0, capex |-> {} ]

Visit(s, v) ==   \* PlansService.getOrCreate, in a phase that shows version v
  /\ <<s, v>> \in Desks /\ plans[s][v] = None
  /\ plans' = [plans EXCEPT ![s][v] = [decided |-> Nothing, confirmed |-> FALSE]]
  /\ UNCHANGED <<luck, quiz, tables, job, calls, fails, history>>

Edit(s, v, choice) ==
  /\ <<s, v>> \in Desks /\ plans[s][v] # None /\ ~plans[s][v].confirmed
  /\ plans' = [plans EXCEPT ![s][v].decided = choice]
  /\ UNCHANGED <<luck, quiz, tables, job, calls, fails, history>>

Confirm(s, v) ==
  /\ <<s, v>> \in Desks /\ plans[s][v] # None /\ ~plans[s][v].confirmed
  /\ plans' = [plans EXCEPT ![s][v].confirmed = TRUE]
  /\ UNCHANGED <<luck, quiz, tables, job, calls, fails, history>>

\* The last consolidation of a store's quiz.
Consolidate(s, r, n) ==
  /\ quiz[s][r] = None
  /\ quiz' = [quiz EXCEPT ![s][r] = n]
  /\ UNCHANGED <<luck, plans, tables, job, calls, fails, history>>

Step(w) ==
  \/ \E s \in Stores : NextStore(w, s)
  \/ PastResults(w) \/ PastPlans(w) \/ FirstResult(w) \/ FirstPlan(w)
  \/ WriteResult(w) \/ WriteEvent(w) \/ WriteSla(w) \/ Announce(w)

Next ==
  \/ \E w \in Runners : (\E r \in Rounds : Load(w, r)) \/ Step(w) \/ Fail(w)
  \/ \E s \in Stores, phase \in Status : Visit(s, VersionShown(phase))
  \/ \E s \in Stores, v \in Versions :
       Confirm(s, v) \/ \E choice \in Options : Edit(s, v, choice)
  \/ \E s \in Stores, r \in Rounds, n \in Scores : Consolidate(s, r, n)

Empty(x) == [s \in Stores |-> [r \in Rounds |-> x]]

Init ==
  /\ luck \in Luck
  /\ quiz = InitialQuiz
  /\ plans = InitialPlans
  /\ results = Empty(None)
  /\ events = Empty([e \in EventTypes |-> None])
  /\ slas = Empty([o \in Capex |-> None])
  /\ job = [w \in Runners |-> Idle]
  /\ calls = 0 /\ fails = 0 /\ whole = {} /\ settled = {}

EngineSpec == Init /\ [][Next]_vars

-----------------------------------------------------------------------------
Quotient  == Nat \X Nat
Indicator == [price : Quotient, availability : Quotient, csat : 0..10000]

Row(r) ==
  [ version : Versions, plan : Decisions, indicators : Indicator, score : Nat, total : Nat,
    gross : Nat, goods : Nat, slaLoss : Nat, fines : Nat, downtime : Nat, cash : Nat,
    threshold : Int,
    shrinkage : IF r = 3 THEN [Categories -> [Versions -> Quotient]] ELSE {None} ]

ASSUME NoneAssumption == None \notin Plan /\ \A r \in Rounds : None \notin Row(r)

Loss == [occurred : BOOLEAN, lost : Nat]

\* The rows are well formed; in particular nothing sold, left over or lost turns
\* negative, and no store of round 3 is without its shrinkage.
EngineTypeOK ==
  /\ luck \in Luck
  /\ \A s \in Stores, v \in Versions : plans[s][v] = None \/ plans[s][v] \in Plan
  /\ \A s \in Stores, r \in Rounds :
       /\ quiz[s][r] \in 0..100 \cup {None}
       /\ results[s][r] = None \/ results[s][r] \in Row(r)
       /\ \A e \in EventTypes : events[s][r][e] \in Loss \cup {None}
       /\ \A o \in Capex : slas[s][r][o] \in Loss \cup {None}
  /\ \A w \in Runners : job[w].step \in Steps /\ job[w].todo \subseteq Stores
  /\ calls \in 0..MaxCalls /\ fails \in 0..MaxFails /\ whole \subseteq Rounds /\ settled \subseteq Rounds

\* Stores of a round that has rows for it.
Ranked(r) == {s \in Stores : results[s][r] # None}

\* "rankScore / totalRankScore de todas as lojas": after a call that ran to its
\* end the shares of the demand, each in a row written on its own, add up to
\* the whole demand.
DemandShared ==
  \A r \in whole, s \in Stores :
    results[s][r] # None =>
      results[s][r].total = SumFunction([t \in Ranked(r) |-> results[t][r].score])

\* "Σ SlaEvent.revenueLost desta loja/rodada", and the same for the downtime in
\* randomEventCost: after a call that ran to its end the result of a store and
\* the rows of its incidents, written one by one, tell the same losses.
LossesAddUp ==
  \A r \in whole, s \in Stores :
    results[s][r] # None =>
      /\ results[s][r].slaLoss = SumFunction([o \in Capex |-> slas[s][r][o].lost])
      /\ results[s][r].downtime = SumFunction([e \in EventTypes |-> events[s][r][e].lost])

\* "Replays, testes e reexecuções da mesma rodada produzam o mesmo desfecho": once
\* the rounds were run in order over confirmed plans and finished quizzes, their
\* rows stay as they are, whatever calls run again, in whatever order, and
\* wherever they fail.
SettledRoundsReproduce ==
  [][\A r \in settled, s \in Stores :
       /\ r \in settled'
       /\ results'[s][r] = results[s][r]
       /\ events'[s][r] = events[s][r]
       /\ slas'[s][r] = slas[s][r]]_vars
=============================================================================
