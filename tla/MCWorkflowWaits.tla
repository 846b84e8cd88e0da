-------------------------- MODULE MCWorkflowWaits ---------------------------
(* A workflow that waits for an event with a deadline, and for an instant  *)
(* that may be past when the wait is armed.                                *)
EXTENDS WorkflowWaits

MCRunOf == [w \in Waits |-> "r1"]
MCCreatedAt == [r \in Runs |-> 0]
MCKind == [w \in Waits |-> IF w = 2 THEN "UNTIL" ELSE "EVENT"]
MCSpan == [w \in Waits |-> 1]
MCMatch == [x \in Waits \cup Calls |-> "paid"]
MCIdentity == [c \in Calls |-> "a"]
MCPayload == [c \in Calls |-> "p"]
=============================================================================
