------------------------------- MODULE Plans -------------------------------
(***************************************************************************)
(* The operational plans of a session (PlansService): what each store buys  *)
(* from the stock the stores share, which investments it implements, its    *)
(* staff, and the confirmation, which asks the quiz (module Quiz) whether    *)
(* everybody has answered.                                                  *)
(*                                                                         *)
(* A planner is a request to PlansService, one query at a time, like the     *)
(* workers of Quiz.  A plan is named by its store and its configVersion, of   *)
(* which it keeps the identity for life.  No operation looks at the phase    *)
(* of the session.                                                          *)
(***************************************************************************)
EXTENDS Quiz

CONSTANTS
  Planners,      \* requests to PlansService handled at the same time
  Versions,      \* the configVersions clients ask for
  Categories,
  Capex,         \* the CapexOption rows
  Staffings,     \* numbers of cashier and service operators
  NoStaff,       \* zero operators of both kinds
  MaxUnits,      \* bound: units of a category one decision can name
  Stock,         \* resolveStockAvailable: units of a category in the session
  Sum(_),        \* _sum: the database's sum of a column over the stores
  InitialPlans,  \* the plans visited so far, with nothing decided
  Calls          \* the requests clients make in this instance: see Call

PlanOperations == {"get", "category", "capex", "workforce", "confirm"}

Edits == {"category", "capex", "workforce"}

Plan ==
  [ units     : [Categories -> 0..MaxUnits],   \* PoCategoryDecision.stockPurchased
    capex     : SUBSET Capex,                  \* PoCapexDecision.implemented
    staff     : Staffings,
    confirmed : BOOLEAN ]

ASSUME PlansAssumption ==
  /\ IsFiniteSet(Planners)
  /\ Versions \subseteq Nat
  /\ MaxUnits \in Nat
  /\ Stock \in [Categories -> Nat]
  /\ NoStaff \in Staffings
  /\ InitialPlans \subseteq Stores \X Versions
  /\ None \notin Plan \cup Versions \cup Categories \cup Capex \cup Staffings \cup BOOLEAN

\* What is used of the database's sum: one row counts for what it holds.
ASSUME SumAssumption ==
  /\ Sum([s \in Stores |-> 0]) = 0
  /\ \A bought \in [Stores -> 0..MaxUnits], s \in Stores, n \in 0..MaxUnits :
       /\ Sum(bought) \in Nat
       /\ Sum([bought EXCEPT ![s] = n]) = Sum([bought EXCEPT ![s] = 0]) + n

VARIABLES
  plans,   \* the OperationalPlan of each store and version with its decisions, or None
  job      \* what each planner's handler has read so far

planVars == <<plans, job>>
allVars  == <<quizVars, planVars>>

PlanSteps ==
  {"idle", "create", "member", "first_plan", "others", "write_category",
   "write_capex", "write_workforce", "count", "write_confirm"}

Job ==
  [ step   : PlanSteps,
    op     : PlanOperations \cup {None},
    user   : Users \cup {None},
    store  : Stores \cup {None},
    version : Versions \cup {None},
    category : Categories \cup {None},
    units  : 0..MaxUnits,
    option : Capex \cup {None},
    wanted : BOOLEAN,                        \* capex: implement it, or not
    staff  : Staffings,
    held   : Plan \cup {None},               \* the plan as read last
    counts : [Counts -> Nat \cup {None}] ]   \* confirm: players who answered, players

NoJob ==
  [ step |-> "idle", op |-> None, user |-> None, store |-> None, version |-> None,
    category |-> None, units |-> 0, option |-> None, wanted |-> FALSE,
    staff |-> NoStaff, held |-> None, counts |-> NoCounts ]

\* A request: operation, player, store, version, and what the operation takes.
Call(op, u, s, v) == [NoJob EXCEPT !.op = op, !.user = u, !.store = s, !.version = v]

CategoryCall(u, s, v, c, n) == [Call("category", u, s, v) EXCEPT !.category = c, !.units = n]

CapexCall(u, s, v, o, b) == [Call("capex", u, s, v) EXCEPT !.option = o, !.wanted = b]

WorkforceCall(u, s, v, k) == [Call("workforce", u, s, v) EXCEPT !.staff = k]

ASSUME CallsAssumption ==
  \A call \in Calls :
    /\ call \in Job /\ call.step = "idle" /\ call.held = None /\ call.counts = NoCounts
    /\ call.op # None /\ call.user # None /\ call.store # None /\ call.version # None
    /\ call.op = "category" => call.category # None
    /\ call.op = "capex" => call.option # None

-----------------------------------------------------------------------------
(* What the queries return and the handlers check.                          *)

EmptyPlan ==
  [units |-> [c \in Categories |-> 0], capex |-> {}, staff |-> NoStaff, confirmed |-> FALSE]

Exists(s, v) == plans[s, v] # None

\* The units of a category every store has bought in a configuration.
Bought(v, c) == [s \in Stores |-> IF Exists(s, v) THEN plans[s, v].units[c] ELSE 0]

BoughtByOthers(s, v, c) == Sum([Bought(v, c) EXCEPT ![s] = 0])

FitsSlip(s, v, c, n) == BoughtByOthers(s, v, c) < Stock[c]   \* something is left
Fits(s, v, c, n) == n + BoughtByOthers(s, v, c) <= Stock[c]

EditableSlip(plan) == TRUE
Editable(plan) == ~plan.confirmed

\* assertStoreMember, and for a confirmation assertStoreRole(STORE_MANAGER).
Entitled(op, u, s) == u \in teams[s] /\ (op = "confirm" => u \in Managers)

\* In the second configuration: not implemented in the first one already.
StillToDoSlip(s, o) == TRUE
StillToDo(s, o) == 1 \in Versions /\ Exists(s, 1) => o \notin plans[s, 1].capex

EverybodyAnswered(counts) == counts.answered >= counts.team

PlanAt(p, step) == job[p].step = step

PlanGoto(p, step) == job' = [job EXCEPT ![p].step = step]

\* What the handler, or the database for it, checks at the next query.
Allows(p) ==
  LET j == job[p] IN
  /\ j.step = "create" => ~Exists(j.store, j.version)
  /\ j.step = "member" => Entitled(j.op, j.user, j.store) /\ Editable(j.held)
  /\ j.step = "first_plan" => (j.wanted => StillToDo(j.store, j.option))
  /\ j.step = "others" => Fits(j.store, j.version, j.category, j.units)
  /\ j.step = "write_confirm" => EverybodyAnswered(j.counts)

PlanFail(p) ==
  /\ ~PlanAt(p, "idle")
  /\ ~Allows(p) \/ "crash" \in QuizMix
  /\ job' = [job EXCEPT ![p] = NoJob]
  /\ UNCHANGED <<plans, quizVars>>

-----------------------------------------------------------------------------
(* getOrCreate: look the plan up and, if it is not there, create it with    *)
(* all decisions zero.                                                      *)

GetRead(p, args) ==
  /\ job[p] = NoJob
  /\ args.user \in teams[args.store]
  /\ ~Exists(args.store, args.version)
  /\ job' = [job EXCEPT ![p] = [args EXCEPT !.step = "create"]]
  /\ UNCHANGED <<plans, quizVars>>

GetCreate(p) ==
  /\ PlanAt(p, "create") /\ Allows(p)
  /\ plans' = [plans EXCEPT ![<<job[p].store, job[p].version>>] = EmptyPlan]
  /\ job' = [job EXCEPT ![p] = NoJob]
  /\ UNCHANGED quizVars

-----------------------------------------------------------------------------
(* Every other operation names a plan: it is loaded first, and the plan as   *)
(* loaded decides whether it can still be changed.                          *)

LoadPlan(p, args) ==
  /\ job[p] = NoJob
  /\ Exists(args.store, args.version)
  /\ job' = [job EXCEPT ![p] =
       [args EXCEPT !.step = "member", !.held = plans[args.store, args.version]]]
  /\ UNCHANGED <<plans, quizVars>>

AfterCheck(op, v) ==
  CASE op = "category"  -> "others"
    [] op = "capex"     -> IF v = 2 THEN "first_plan" ELSE "write_capex"
    [] op = "workforce" -> "write_workforce"
    [] op = "confirm"   -> "count"

CheckMember(p) ==
  /\ PlanAt(p, "member") /\ Allows(p)
  /\ PlanGoto(p, AfterCheck(job[p].op, job[p].version))
  /\ UNCHANGED <<plans, quizVars>>

\* updateCapexDecision, second configuration: read the first one.
ReadFirstPlan(p) ==
  /\ PlanAt(p, "first_plan") /\ Allows(p)
  /\ PlanGoto(p, "write_capex")
  /\ UNCHANGED <<plans, quizVars>>

\* updateCategoryDecision: what the other stores of the session have bought.
ReadOthers(p) ==
  /\ PlanAt(p, "others") /\ Allows(p)
  /\ PlanGoto(p, "write_category")
  /\ UNCHANGED <<plans, quizVars>>

\* confirmPlan: players, and players who answered, in either order.
CountForConfirm(p, side) ==
  LET j == job[p] IN
  /\ PlanAt(p, "count")
  /\ j.counts[side] = None
  /\ LET n == Cardinality(IF side = "team" THEN teams[j.store] ELSE WhoAnswered(j.store, j.version))
         counts == [j.counts EXCEPT ![side] = n]
     IN  job' = [job EXCEPT ![p].counts = counts,
                            ![p].step = IF None \in {counts[x] : x \in Counts} THEN @ ELSE "write_confirm"]
  /\ UNCHANGED <<plans, quizVars>>

\* A write is the last thing a handler changes: what follows reads the plan
\* again and sends it to the store's room and the client.
Write(p, plan) ==
  /\ plans' = [plans EXCEPT ![<<job[p].store, job[p].version>>] = plan]
  /\ job' = [job EXCEPT ![p] = NoJob]
  /\ UNCHANGED quizVars

\* The writes name one column or one decision row: the rest of the plan is
\* what it is by now, not what was read.
Current(p) == plans[job[p].store, job[p].version]

WriteCategory(p) ==
  /\ PlanAt(p, "write_category")
  /\ Write(p, [Current(p) EXCEPT !.units[job[p].category] = job[p].units])

WriteCapex(p) ==
  /\ PlanAt(p, "write_capex")
  /\ Write(p, [Current(p) EXCEPT
       !.capex = IF job[p].wanted THEN @ \cup {job[p].option} ELSE @ \ {job[p].option}])

WriteWorkforceSlip(p) ==   \* the whole plan as read is written back
  /\ PlanAt(p, "write_workforce")
  /\ Write(p, [job[p].held EXCEPT !.staff = job[p].staff])

WriteWorkforce(p) ==
  /\ PlanAt(p, "write_workforce")
  /\ Write(p, [Current(p) EXCEPT !.staff = job[p].staff])

WriteConfirm(p) ==
  /\ PlanAt(p, "write_confirm") /\ Allows(p)
  /\ Write(p, [Current(p) EXCEPT !.confirmed = TRUE])

-----------------------------------------------------------------------------
PlansInit ==
  /\ QuizInit
  /\ plans = [k \in Stores \X Versions |-> IF k \in InitialPlans THEN EmptyPlan ELSE None]
  /\ job = [p \in Planners |-> NoJob]

PlanStep(p) ==
  \/ GetCreate(p)
  \/ CheckMember(p)
  \/ ReadFirstPlan(p)
  \/ ReadOthers(p)
  \/ \E side \in Counts : CountForConfirm(p, side)
  \/ WriteCategory(p)
  \/ WriteCapex(p)
  \/ WriteWorkforce(p)
  \/ WriteConfirm(p)
  \/ PlanFail(p)

PlanRequests(p) ==
  \/ \E args \in Calls : args.op = "get" /\ GetRead(p, args)
  \/ \E args \in Calls : args.op # "get" /\ LoadPlan(p, args)

PlanNext == \E p \in Planners : PlanStep(p) \/ PlanRequests(p)

PlansNext == PlanNext \/ (QuizNext /\ UNCHANGED planVars)

PlansSpec == PlansInit /\ [][PlansNext]_allVars

-----------------------------------------------------------------------------
(* Properties.                                                             *)

PlansTypeOK ==
  /\ QuizTypeOK
  /\ plans \in [Stores \X Versions -> Plan \cup {None}]
  /\ job \in [Planners -> Job]

\* The stores of a session never buy more of a category than the session has.
\* Two purchases that overlap sum the others before either writes, so that each
\* planner can bring the whole stock once: with one at a time there is no excess.
StockOverrunBounded ==
  \A v \in Versions, c \in Categories : Sum(Bought(v, c)) <= Cardinality(Planners) * Stock[c]

\* A planner that loaded the plan unconfirmed and has not written yet.
InFlight(s, v) ==
  \E p \in Planners :
    /\ job[p].step \in PlanSteps \ {"idle", "create"}
    /\ job[p].store = s /\ job[p].version = v
    /\ ~job[p].held.confirmed

Settled(s, v) == Exists(s, v) /\ plans[s, v].confirmed /\ ~InFlight(s, v)

\* A confirmed plan cannot be changed ("Plano já confirmado — não pode ser
\* alterado"): a request that loaded it before may still change it, but once
\* those are over it stays as it is for good.
SettledPlansFrozen ==
  [][\A s \in Stores, v \in Versions :
       Settled(s, v) => Settled(s, v)' /\ plans'[s, v] = plans[s, v]]_allVars

\* Implemented in the first configuration, not in the second, and nobody is about
\* to implement it there.
DoneInFirst(s, o) ==
  /\ Exists(s, 1) /\ o \in plans[s, 1].capex
  /\ Exists(s, 2) /\ o \notin plans[s, 2].capex
  /\ \A p \in Planners :
       ~(PlanAt(p, "write_capex") /\ job[p].store = s /\ job[p].version = 2
           /\ job[p].option = o /\ job[p].wanted)

\* An investment of the first configuration is not implemented again in the
\* second ("Este CAPEX já foi implementado na 1ª Configuração"), while the first
\* plan keeps it: only a request that read the first plan earlier could.
NotBoughtAgain ==
  [][{1, 2} \subseteq Versions =>
       \A s \in Stores, o \in Capex :
         DoneInFirst(s, o) /\ (o \in plans[s, 1].capex)' => DoneInFirst(s, o)']_allVars

\* A decision is changed by a request for that decision only: what the members
\* of a store decide about different things is never lost to one another, and
\* a plan that exists is not started over by a late first visitor.
DecisionsKept ==
  [][\A s \in Stores, v \in Versions : Exists(s, v) /\ plans'[s, v] # plans[s, v] =>
       \/ \E c \in Categories, n \in 0..MaxUnits :
            plans'[s, v] = [plans[s, v] EXCEPT !.units[c] = n]
       \/ \E o \in SUBSET Capex :
            /\ plans'[s, v] = [plans[s, v] EXCEPT !.capex = o]
            /\ \E x \in Capex : (o \cup plans[s, v].capex) \ (o \cap plans[s, v].capex) = {x}
       \/ \E k \in Staffings : plans'[s, v] = [plans[s, v] EXCEPT !.staff = k]
       \/ plans'[s, v] = [plans[s, v] EXCEPT !.confirmed = TRUE]]_allVars

\* "All members must have submitted quiz answers for the current round"
\* (confirmPlan): a plan is confirmed only when every player of its store has
\* answered for the round of its configuration.
ConfirmedByEveryone ==
  [][\A s \in Stores, v \in Versions :
       Exists(s, v) /\ ~plans[s, v].confirmed /\ plans'[s, v].confirmed =>
         teams[s] \subseteq WhoAnswered(s, v)]_allVars
=============================================================================
