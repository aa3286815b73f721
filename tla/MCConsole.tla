------------------------------ MODULE MCConsole ------------------------------
(* A session of up to two stores and its facilitator's page, for TLC.       *)
EXTENDS Console, TLC

CONSTANTS r1, r2, f1, f2, s1, s2

ConsoleSymmetry ==
  Permutations({r1, r2}) \cup Permutations({f1, f2}) \cup Permutations({s1, s2})

\* Bound: once calm is lost, the page is followed while nobody waits for an
\* answer, up to the reload that brings calm back.
Followed == calm \/ waiting = {}
=============================================================================
