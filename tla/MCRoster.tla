------------------------------ MODULE MCRoster ------------------------------
(* Small sessions for Roster: two or three stores with a manager each.      *)
EXTENDS Roster, TLC

CONSTANTS w1, w2, s1, s2, s3, m1, m2, ana, bia, caio, mgr, sup, com

Seat(i, s, u, r) == [id |-> i, store |-> s, user |-> u, role |-> r]

\* s1 may send ana and bia away; s2 has a seat free for bia, and caio in the
\* same role as ana, whom he can be swapped with.
Team == {Seat(1, s1, m1, mgr), Seat(2, s2, m2, mgr),
         Seat(3, s1, ana, sup), Seat(4, s1, bia, com)}

FullTeam == Team \cup {Seat(5, s2, caio, sup)}

\* One mobile player in each store, in the same role.
Pair == {Seat(1, s1, m1, mgr), Seat(2, s2, m2, mgr),
         Seat(3, s1, ana, sup), Seat(4, s2, bia, sup)}

WorkerSymmetry == Permutations({w1, w2})
=============================================================================
