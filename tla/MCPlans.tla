------------------------------ MODULE MCPlans ------------------------------
(* Two stores in their second configuration, with the quiz of round 2.      *)
EXTENDS Plans, Functions, TLC

CONSTANTS p1, p2, q1, s1, s2, ana, bia, caio, food, freezer, some, none

\* ana manages s1, bia s2; caio plays for s1 and may be transferred.
Managed == s1 :> {ana, caio} @@ s2 :> {bia}

OneUnit == [c \in Categories |-> 1]

Visited == {<<s1, 1>>, <<s2, 2>>}

Saved == {[id |-> 1, round |-> 2, order |-> 1, options |-> TRUE]}

Sheet(u, s, right) ==
  [user |-> u, store |-> s, question |-> 1, round |-> 2, correct |-> right]

\* Everybody but ana has answered.
Answered == {Sheet(bia, s2, TRUE), Sheet(caio, s1, FALSE)}

\* The two stores compete for one unit; the first configuration of s1, which was
\* never confirmed, is still edited while the second one is.
Planning ==
  {Call("get", ana, s1, 2)}
  \cup {CategoryCall(ana, s1, 2, food, 1)}
  \cup {CategoryCall(bia, s2, 2, food, n) : n \in {1, 2}}
  \cup {CapexCall(ana, s1, v, freezer, TRUE) : v \in {1, 2}}
  \cup {WorkforceCall(ana, s1, 2, some), Call("confirm", ana, s1, 2)}

PlannerSymmetry == Permutations({p1, p2})

\* FoldFunction of the community modules, for the column's sum.
SumOver(f) == FoldFunction(+, 0, f)
=============================================================================
