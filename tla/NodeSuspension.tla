--------------------------- MODULE NodeSuspension ---------------------------
(***************************************************************************)
(* What a WAIT node of a workflow promises, whoever resolves it: a wait is *)
(* opened once, and is satisfied or refused once, while the WorkflowRun    *)
(* has not ended.  WorkflowWaits, where events and timers resolve waits,   *)
(* and WorkflowReconciliation, where the outcome moves the workflow on,    *)
(* both implement it.                                                      *)
(***************************************************************************)
CONSTANT Waits

VARIABLES
  suspension,  \* "absent", "open", "satisfied" or "refused" for each wait
  ended        \* the waits whose WorkflowRun has ended

Init ==
  /\ suspension = [w \in Waits |-> "absent"]
  /\ ended = {}

(* Opening does not look at the WorkflowRun: the row is inserted by a      *)
(* statement of its own, which may come after the end.                     *)
Open(w) ==
  /\ suspension[w] = "absent"
  /\ suspension' = [suspension EXCEPT ![w] = "open"]
  /\ UNCHANGED ended

Resolve(w, outcome) ==
  /\ suspension[w] = "open"
  /\ w \notin ended
  /\ suspension' = [suspension EXCEPT ![w] = outcome]
  /\ UNCHANGED ended

(* WorkflowRuns end for good. *)
End ==
  /\ ended' \in SUBSET Waits
  /\ ended \subseteq ended'
  /\ UNCHANGED suspension

Next ==
  \/ End
  \/ \E w \in Waits :
       Open(w) \/ \E outcome \in {"satisfied", "refused"} : Resolve(w, outcome)

Spec == Init /\ [][Next]_<<suspension, ended>>
=============================================================================
