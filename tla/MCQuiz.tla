------------------------------- MODULE MCQuiz -------------------------------
(* Small instances of Quiz: two stores, a manager and a player who may move. *)
EXTENDS Quiz, TLC

CONSTANTS q1, q2, s1, s2, ana, bia

\* bia may be transferred to the other store, which has no player yet.
Team == s1 :> {ana, bia} @@ s2 :> {}

WorkerSymmetry == Permutations({q1, q2})
=============================================================================
