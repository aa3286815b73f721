------------------------------ MODULE MCEngine ------------------------------
(* Two stores, one category, one option and one kind of chance.             *)
EXTENDS Engine, TLC

CONSTANTS w1, w2, s1, s2, food

Decide(units, cashiers, options) ==
  [ bought |-> food :> units, margin |-> food :> 5, cashier |-> cashiers, service |-> 3,
    capex |-> options ]

Lean == Decide(1, 2, {})
Full == Decide(2, 10, {"AUTOMATION"})

One   == food :> 1
Three == food :> 3

Costs == [AUTOMATION |-> 2]
Days  == [AUTOMATION |-> 2]
Risks == [AUTOMATION |-> 30]

Draw(outage, fault) == [POWER_OUTAGE |-> outage, AUTOMATION |-> fault]

\* An outage in s1 unless it has automated, none in s2; neither is spared the
\* fault of what is not automated.
Rough == [x \in Stores \X Rounds |-> IF x[1] = s1 THEN Draw(7, 0) ELSE Draw(99, 0)]

Lucks   == {Rough}
Few     == {Lean}
OneDesk == {<<s1, 2>>}

Open(d) == [decided |-> d, confirmed |-> FALSE]
Done(d) == [decided |-> d, confirmed |-> TRUE]

\* s2 has settled both configurations, s1 the first; it has not seen the second.
Late ==
  s1 :> <<Done(Full), None, None>> @@ s2 :> <<Done(Lean), Done(Lean), None>>

Answered == [s \in Stores |-> <<50, 50, IF s = s1 THEN None ELSE 50>>]
=============================================================================
