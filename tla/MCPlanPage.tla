----------------------------- MODULE MCPlanPage -----------------------------
(* The plan page of one store in two browsers, for TLC.                     *)
EXTENDS PlanPage, TLC

CONSTANTS a, b
=============================================================================
