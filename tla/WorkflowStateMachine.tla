------------------------ MODULE WorkflowStateMachine ------------------------
(***************************************************************************)
(* What the domain layer promises about the status columns of a            *)
(* WorkflowRun and of its WorkflowNodeRuns, whoever writes them: rows move *)
(* along the pairs of two fixed tables and a row in a terminal status      *)
(* never moves again.                                                      *)
(***************************************************************************)
CONSTANT Nodes   \* the node keys of the workflow definition

VARIABLES workflowStatus,  \* workflow_runs.status
          nodeStatus       \* nodeStatus[n]: workflow_node_runs.status of key n

wsmVars == <<workflowStatus, nodeStatus>>

(* "ABSENT" stands for a row that has not been inserted. *)
Absent == "ABSENT"

TerminalWorkflowRunStates == {"SUCCEEDED", "FAILED", "CANCELLED"}

WorkflowRunStates ==
  {"PENDING", "RUNNING", "WAITING"} \cup TerminalWorkflowRunStates

LegalWorkflowRunTransitions ==
  ({"PENDING"} \X {"RUNNING", "WAITING", "FAILED", "CANCELLED"})
    \cup ({"RUNNING"} \X {"WAITING", "SUCCEEDED", "FAILED", "CANCELLED"})
    \cup ({"WAITING"} \X {"RUNNING", "SUCCEEDED", "FAILED", "CANCELLED"})

TerminalWorkflowNodeRunStates == {"SUCCEEDED", "FAILED", "SKIPPED", "CANCELLED"}

WorkflowNodeRunStates ==
  {"PENDING", "RUNNING", "WAITING"} \cup TerminalWorkflowNodeRunStates

LegalWorkflowNodeRunTransitions ==
  ({"PENDING"} \X {"RUNNING", "WAITING", "FAILED", "SKIPPED", "CANCELLED"})
    \cup ({"RUNNING", "WAITING"} \X {"SUCCEEDED", "FAILED", "CANCELLED"})

-----------------------------------------------------------------------------
WSMInit ==
  /\ workflowStatus = "PENDING"
  /\ nodeStatus = [n \in Nodes |-> Absent]

WorkflowMoves ==
  /\ \E s \in WorkflowRunStates :
       /\ <<workflowStatus, s>> \in LegalWorkflowRunTransitions
       /\ workflowStatus' = s
  /\ UNCHANGED nodeStatus

(* A node row is inserted PENDING, or SKIPPED when its path is not taken. *)
NodeMoves ==
  /\ \E n \in Nodes, s \in WorkflowNodeRunStates :
       /\ \/ nodeStatus[n] = Absent /\ s \in {"PENDING", "SKIPPED"}
          \/ <<nodeStatus[n], s>> \in LegalWorkflowNodeRunTransitions
       /\ nodeStatus' = [nodeStatus EXCEPT ![n] = s]
  /\ UNCHANGED workflowStatus

WSMNext == WorkflowMoves \/ NodeMoves

WSMSpec == WSMInit /\ [][WSMNext]_wsmVars
=============================================================================
