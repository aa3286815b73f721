--------------------------- MODULE SessionPhases ---------------------------
(***************************************************************************)
(* The phases of a StoreLab session and the order the facilitator walks    *)
(* them in: the tables at the head of sessions.service.ts.                 *)
(***************************************************************************)
EXTENDS Naturals

Status == {"SETUP", "ROUND_1_CONFIG", "ROUND_1", "RECONFIGURATION",
           "ROUND_2", "ROUND_3", "FINISHED"}

\* NEXT_STATUS: FINISHED has no successor.
NextStatus ==
  [ s \in Status \ {"FINISHED"} |->
      CASE s = "SETUP"           -> "ROUND_1_CONFIG"
        [] s = "ROUND_1_CONFIG"  -> "ROUND_1"
        [] s = "ROUND_1"         -> "RECONFIGURATION"
        [] s = "RECONFIGURATION" -> "ROUND_2"
        [] s = "ROUND_2"         -> "ROUND_3"
        [] s = "ROUND_3"         -> "FINISHED" ]

\* The statuses that ROUND_STARTED_MAP (and ACTIVE_ROUND_BY_STATUS, the same
\* table under another name) gives a round number.
ActiveStatus == {"ROUND_1", "ROUND_2", "ROUND_3"}

RoundOf == [ROUND_1 |-> 1, ROUND_2 |-> 2, ROUND_3 |-> 3]

\* The position of a status in the game, to say that a session moved forwards.
Position(s) ==
  CASE s = "SETUP"           -> 0
    [] s = "ROUND_1_CONFIG"  -> 1
    [] s = "ROUND_1"         -> 2
    [] s = "RECONFIGURATION" -> 3
    [] s = "ROUND_2"         -> 4
    [] s = "ROUND_3"         -> 5
    [] s = "FINISHED"        -> 6
=============================================================================
