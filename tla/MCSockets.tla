----------------------------- MODULE MCSockets -----------------------------
(* One shell with its dot; pages and users are alike.                      *)
EXTENDS Sockets, TLC

CONSTANTS dot, p1, p2, u1, u2, c1, c2

Symmetry == Permutations({p1, p2}) \cup Permutations({u1, u2}) \cup Permutations({c1, c2})
=============================================================================
