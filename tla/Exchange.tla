------------------------------ MODULE Exchange ------------------------------
(***************************************************************************)
(* What the assistant's chat promises, whatever models are behind it: one   *)
(* question at a time, each of which is answered once or fails once, and    *)
(* none of which waits for ever.                                           *)
(***************************************************************************)

VARIABLES
  waiting,   \* is a question waiting for its answer?
  outcome    \* what became of the last one: "none", "answered", "failed"

exchange == <<waiting, outcome>>

Init == waiting = FALSE /\ outcome = "none"

Pose == ~waiting /\ waiting' = TRUE /\ outcome' = "none"

Settle(o) == waiting /\ waiting' = FALSE /\ outcome' = o

Forget == outcome' = "none" /\ UNCHANGED waiting

Abandon == waiting' = FALSE /\ outcome' = "none"

Settled == Settle("answered") \/ Settle("failed")

Next == Pose \/ Settled \/ Forget \/ Abandon

Spec == Init /\ [][Next]_exchange /\ WF_exchange(Settled)
=============================================================================
