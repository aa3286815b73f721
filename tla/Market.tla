------------------------------- MODULE Market -------------------------------
(***************************************************************************)
(* The arithmetic of a round: what chance does to a store, how the stores  *)
(* share the demand, what each sells (DemandService, CsatService,          *)
(* RandomEventsService, SlaService, FinancialService and the inventory     *)
(* modifiers of EngineService).                                            *)
(*                                                                         *)
(* The code computes with floating point; here numbers are exact.  Rates    *)
(* are whole per cents, a CSAT counts ten-thousandths, and a quotient stays *)
(* a pair <<numerator, denominator>>.                                      *)
(***************************************************************************)
EXTENDS Integers, FiniteSets, Functions

CONSTANTS
  Stores,
  Categories,
  Perishable,   \* the categories named PERECIVEIS
  UnitCost,     \* Category.unitCost
  OnOffer,      \* units of a category in the session
  Capex,        \* the types of the CapexOption rows
  Downtime,     \* CapexOption.downtimeFixedDays
  SlaRisk       \* CapexOption.slaRiskPercent

CapexType == {"SECURITY", "FREEZER", "SITE", "SELF_CHECKOUT", "NETWORK", "AUTOMATION"}

ASSUME MarketAssumption ==
  /\ IsFiniteSet(Stores) /\ IsFiniteSet(Categories)
  /\ Perishable \subseteq Categories
  /\ UnitCost \in [Categories -> Nat] /\ OnOffer \in [Categories -> Nat]
  /\ Capex \subseteq CapexType
  /\ Downtime \in [Capex -> Nat] /\ SlaRisk \in [Capex -> 0..100]

\* The decisions of an OperationalPlan the engine reads.
Decisions ==
  [ bought  : [Categories -> Nat],
    margin  : [Categories -> Nat],   \* priceMargin, in tenths
    cashier : Nat,
    service : Nat,
    capex   : SUBSET Capex ]         \* the implemented options

Less(x, y) == x[1] * y[2] < y[1] * x[2]

-----------------------------------------------------------------------------
(* Chance.  A hash of session, store, round and name stands for a number    *)
(* below 100; something of a risk of n per cent happens if it is below n.   *)

BaseRisk ==
  [ OPERATIONAL_FAILURE |-> 15, REGULATORY_CHANGE |-> 15, COMPETITOR_PROMOTION |-> 20,
    REPUTATION_DAMAGE |-> 15, LOT_CONTAMINATION |-> 10, INVENTORY_THEFT |-> 15,
    PAYMENT_SYSTEM_FAILURE |-> 5, CYBER_ATTACK |-> 20, DATA_BREACH |-> 15,
    LOGISTICS_PROBLEM |-> 15, POWER_OUTAGE |-> 10, DEMAND_SURGE |-> 20,
    CLIMATE_EVENT |-> 12, INPUT_COST_INCREASE |-> 18 ]

EventType == DOMAIN BaseRisk

\* Drawn once for the session, without the store in the hash.
SessionWide == {"CLIMATE_EVENT", "INPUT_COST_INCREASE"}

Protecting ==
  [ OPERATIONAL_FAILURE |-> {"AUTOMATION"}, REGULATORY_CHANGE |-> {"SECURITY", "FREEZER"},
    COMPETITOR_PROMOTION |-> {"SITE", "SELF_CHECKOUT"},
    REPUTATION_DAMAGE |-> {"SITE", "SECURITY"}, LOT_CONTAMINATION |-> {"FREEZER"},
    INVENTORY_THEFT |-> {"SECURITY"}, PAYMENT_SYSTEM_FAILURE |-> {"NETWORK"},
    CYBER_ATTACK |-> {"SECURITY", "NETWORK"}, DATA_BREACH |-> {"SECURITY"},
    LOGISTICS_PROBLEM |-> {"AUTOMATION"}, POWER_OUTAGE |-> {"NETWORK", "AUTOMATION"},
    DEMAND_SURGE |-> {}, CLIMATE_EVENT |-> {}, INPUT_COST_INCREASE |-> {} ]

\* computeRisk: each protection implemented takes its share off the risk.
Risk(e, implemented) ==
  LET n == Cardinality(Protecting[e])
  IN  IF n = 0 THEN <<BaseRisk[e], 1>>
      ELSE <<BaseRisk[e] * (n - Cardinality(Protecting[e] \cap implemented)), n>>

Happens(e, drawn, plan) == Less(<<drawn, 1>>, Risk(e, plan.capex))

DaysOf == [ OPERATIONAL_FAILURE |-> 1, PAYMENT_SYSTEM_FAILURE |-> 1,
            CYBER_ATTACK |-> 2, POWER_OUTAGE |-> 2 ]
FineOf == [REGULATORY_CHANGE |-> 30, CYBER_ATTACK |-> 30, DATA_BREACH |-> 25]  \* thousands
CsatLossOf       == [REPUTATION_DAMAGE |-> 15, DATA_BREACH |-> 10]
DemandLossOf     == [COMPETITOR_PROMOTION |-> 15, CLIMATE_EVENT |-> 10]
PerishableLossOf == [LOT_CONTAMINATION |-> 25, CLIMATE_EVENT |-> 20]
TheftOf          == [INVENTORY_THEFT |-> 10]
ShortageOf       == [LOGISTICS_PROBLEM |-> 20]
CostIncreaseOf   == [INPUT_COST_INCREASE |-> 15]

\* computePreModifiers adds up what the events that happened do.
Effect(table, happened) ==
  SumFunctionOnSet(table, happened \cap DOMAIN table)

\* The share of a surge the store can serve, in ten-thousandths.
Capacity(plan) ==
  IF "SELF_CHECKOUT" \in plan.capex THEN 10000
  ELSE 600 * (IF plan.cashier > 10 THEN 10 ELSE plan.cashier)

\* A quarter more demand, as far as it can be served; the rest costs CSAT.
DemandBonus(plan, happened) ==   \* in 200ths
  IF "DEMAND_SURGE" \in happened THEN Capacity(plan) \div 200 ELSE 0

OverflowLoss(plan, happened) ==
  IF "DEMAND_SURGE" \in happened THEN (10000 - Capacity(plan)) \div 40 ELSE 0

-----------------------------------------------------------------------------
(* What chance leaves of a plan: applyInventoryModifiers.                   *)

Delivered(plan, happened, c) ==
  LET Keep(n, loss) == (n * (100 - loss)) \div 100
      unstolen == Keep(plan.bought[c], Effect(TheftOf, happened))
      unspoilt == IF c \in Perishable
                    THEN Keep(unstolen, Effect(PerishableLossOf, happened)) ELSE unstolen
  IN  Keep(unspoilt, Effect(ShortageOf, happened))

\* unitCost after the increase, in 20ths, and the price to the customer, in 200ths.
CostPaid(happened, c) == UnitCost[c] * (20 + Effect(CostIncreaseOf, happened) \div 5)
Price(plan, happened, c) == CostPaid(happened, c) * (10 + plan.margin[c])

-----------------------------------------------------------------------------
(* The three indicators.                                                   *)

Units(plan, happened) == SumFunction([c \in Categories |-> Delivered(plan, happened, c)])

BasketPrice(plan, happened) ==
  IF Units(plan, happened) = 0 THEN <<0, 1>>
  ELSE << SumFunction([c \in Categories |->
                         Delivered(plan, happened, c) * Price(plan, happened, c)]),
          Units(plan, happened) >>

Availability(plan, happened) ==
  LET all == SumFunction(OnOffer)
  IN  IF all = 0 THEN <<0, 1>> ELSE <<Units(plan, happened), all>>

Clamp(n) == IF n < 0 THEN 0 ELSE IF n > 10000 THEN 10000 ELSE n

\* (cashiers / 10) * (quiz / 100), less what the events took.
Csat(plan, quiz, happened) ==
  Clamp(Clamp(plan.cashier * quiz * 10)
          - 100 * Effect(CsatLossOf, happened) - OverflowLoss(plan, happened))

-----------------------------------------------------------------------------
(* The competition: computeDemand.                                          *)

\* rankIndicator: a group of equals takes the lowest of the ranks it covers,
\* and the next group goes on below it.  The best store has the highest rank.
\* order holds the pairs of stores of S of which the first is the better.
Rank(order, s, S) ==
  LET better == {t \in S : <<t, s>> \in order}
      tied   == {t \in S : <<t, s>> \notin order /\ <<s, t>> \notin order}
  IN  (Cardinality(S) - Cardinality(better)) - Cardinality(tied) + 1

\* ind[s] holds the indicators of store s.
Score(ind, s) ==
  LET S == DOMAIN ind
      cheaper == {x \in S \X S : Less(ind[x[1]].price, ind[x[2]].price)}
      fuller  == {x \in S \X S : Less(ind[x[2]].availability, ind[x[1]].availability)}
      happier == {x \in S \X S : ind[x[1]].csat > ind[x[2]].csat}
  IN  Rank(cheaper, s, S) + Rank(fuller, s, S) + Rank(happier, s, S)

TotalScoreSlip(ind, s) ==   \* the others' scores only
  SumFunction([t \in DOMAIN ind \ {s} |-> Score(ind, t)])

\* demandShare of store s is Score / TotalScore.
TotalScore(ind, s) == SumFunction([t \in DOMAIN ind |-> Score(ind, t)])

-----------------------------------------------------------------------------
(* The sales, in units of 1 / (4000 * TotalScore).                          *)

\* demandShare * (1 - penalty) * (1 + bonus).
Demand(score, plan, happened) ==
  score * (20 - Effect(DemandLossOf, happened) \div 5) * (200 + DemandBonus(plan, happened))

Sold(score, total, plan, happened, c) ==
  LET limit == OnOffer[c] * Demand(score, plan, happened)
      have  == Delivered(plan, happened, c) * 4000 * total
  IN  IF have < limit THEN have ELSE limit

Unsold(score, total, plan, happened, c) ==
  Delivered(plan, happened, c) * 4000 * total - Sold(score, total, plan, happened, c)

CostOfGoods(score, total, plan, happened) ==
  SumFunction([c \in Categories |->
                 Sold(score, total, plan, happened, c) * CostPaid(happened, c)])

GrossRevenue(score, total, plan, happened) ==
  SumFunction([c \in Categories |->
                 Sold(score, total, plan, happened, c) * Price(plan, happened, c)])

\* SLA_TABLE, and its last entry for more than five operators.
SlaDays(operators) == IF operators > 5 THEN 1 ELSE 6 - operators

\* An option not implemented fails for its fixed days and those of the table.
DaysDown(o, drawn, plan) ==
  IF o \in plan.capex \/ drawn >= SlaRisk[o] THEN 0
  ELSE Downtime[o] + SlaDays(plan.service)
=============================================================================
