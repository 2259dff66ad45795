---------------------------- MODULE DomainVisit ----------------------------
(***************************************************************************)
(* What a delivery task promises for one recipient domain: it visits the   *)
(* domain, either starts one transaction or none, and ends the visit with  *)
(* one status.  Without a transaction nobody is delivered to, so the       *)
(* domain is not completed.  These are the outcomes Delivery builds on.    *)
(***************************************************************************)
CONSTANT Statuses       \* queue::Status

VARIABLES phase,        \* "waiting", "visiting" or "transaction"
          status        \* the domain's status

vars == <<phase, status>>

Init == phase = "waiting" /\ status = "scheduled"

Begin ==
  /\ phase = "waiting" /\ status \in {"scheduled", "temp_fail"}
  /\ phase' = "visiting"
  /\ UNCHANGED status

NotStarted ==
  /\ phase = "visiting"
  /\ phase' = "waiting"
  /\ status' \in Statuses \ {"completed"}

Start ==
  /\ phase = "visiting"
  /\ phase' = "transaction"
  /\ UNCHANGED status

Finish ==
  /\ phase = "transaction"
  /\ phase' = "waiting"
  /\ status' \in Statuses

Next == Begin \/ NotStarted \/ Start \/ Finish

\* A visit that has begun ends.
Spec == Init /\ [][Next]_vars /\ WF_vars(NotStarted \/ Start) /\ WF_vars(Finish)
=============================================================================
