----------------------- MODULE WorkflowReconciliation -----------------------
(***************************************************************************)
(* ReconcileWorkflowRun: orchestrator replicas repeatedly walk one         *)
(* WorkflowRun through a fixed sequence of phases, holding no lock.  Each  *)
(* phase reloads the WorkflowRun, lists the node rows and then works on    *)
(* the nodes it picked concurrently (Promise.all), from the rows it listed.*)
(*                                                                         *)
(* An action is one statement or queue call, with the re-read that follows *)
(* a conflict.  A read whose answer can no longer change (a decided        *)
(* suspension, an ended child Run) is one step with the write it leads to. *)
(* Payloads are abstracted to the set of predecessors they come from.      *)
(* Child Runs are the Runs of RunLifecycle, here only as the environment.  *)
(***************************************************************************)
EXTENDS Integers, FiniteSets

CONSTANTS
  Nodes,         \* node keys
  NodeType,      \* NodeType[n]: AGENT, APPROVAL, WAIT, BRANCH, PARALLEL, JOIN
  Predecessors,  \* Predecessors[n]: the keys of the edges into n
  TerminalKey,   \* the one node without successors
  Unarmable,     \* EVENT waits whose correlation pointer finds no string
  Passes,        \* concurrent passes, one per replica; one whose phase has
                 \* thrown goes on with its other tasks beside the next pass
  None,          \* SQL NULL / undefined
  MaxFaults      \* bound on crashes and failing calls

NodeTypes == {"AGENT", "APPROVAL", "WAIT", "BRANCH", "PARALLEL", "JOIN"}

Successors(n) == {m \in Nodes : n \in Predecessors[m]}

(* No set of nodes leads back into itself for ever, either way. *)
IsAcyclic ==
  \A S \in (SUBSET Nodes) \ {{}} : /\ \E n \in S : Predecessors[n] \cap S = {}
                                   /\ \E n \in S : Successors(n) \cap S = {}

ASSUME WorkflowAssumption ==
  /\ NodeType \in [Nodes -> NodeTypes]
  /\ Predecessors \in [Nodes -> SUBSET Nodes]
  /\ \A n \in Nodes :
       NodeType[n] # "JOIN" => \A p, q \in Predecessors[n] : p = q
  /\ IsAcyclic
  /\ TerminalKey \in Nodes
  /\ \A n \in Nodes : Successors(n) = {} <=> n = TerminalKey
  /\ Unarmable \subseteq {n \in Nodes : NodeType[n] = "WAIT"}
  /\ None \notin Nodes
  /\ MaxFaults \in Nat

VARIABLES
  workflowStatus,     \* workflow_runs.status
  nodeStatus,         \* workflow_node_runs.status by node key
  nodeInput,          \* predecessors whose outputs workflow_node_runs.input holds
  selectedTargetKey,  \* workflow_node_runs.selected_target_key
  childRunId,         \* whether workflow_node_runs.child_run_id is set
  childStatus,        \* runs.status of the Run with the node's idempotency key
  job,                \* whether the child's first attempt has ever been enqueued
  suspension,         \* ApprovalRequest or WorkflowWait row of the node
  pass,               \* where each pass is
  task,               \* task[p][n]: what pass p is doing to node n
  faults              \* failures so far

nodeVars  == <<nodeStatus, nodeInput, selectedTargetKey>>
childVars == <<childRunId, childStatus, job>>
vars == <<workflowStatus, nodeStatus, nodeInput, selectedTargetKey, childRunId,
          childStatus, job, suspension, pass, task, faults>>

WSM == INSTANCE WorkflowStateMachine

Absent == WSM!Absent
IsTerminalRow(status) == status \in WSM!TerminalWorkflowNodeRunStates
WorkflowEnded == workflowStatus \in WSM!TerminalWorkflowRunStates

-----------------------------------------------------------------------------
(* What the rows say of a node (workflow-readiness). *)

(* predecessorActivity is "inactive": the path through p never reaches n. *)
IsInactive(p, n) ==
  \/ nodeStatus[p] = "SKIPPED"
  \/ /\ nodeStatus[p] = "SUCCEEDED"
     /\ NodeType[p] = "BRANCH"
     /\ selectedTargetKey[p] \notin {None, n}

(* Mutant: one inactive predecessor is enough. *)
IsAnyPathInactive(n) == \E p \in Predecessors[n] : IsInactive(p, n)

IsNodeSkippable(n) ==
  Predecessors[n] # {} /\ \A p \in Predecessors[n] : IsInactive(p, n)

(* Mutant: the join waits for skipped predecessors to succeed. *)
AllSucceeded(n) == \A p \in Predecessors[n] : nodeStatus[p] = "SUCCEEDED"

JoinReady(n) ==
  /\ \A p \in Predecessors[n] : nodeStatus[p] \in {"SUCCEEDED", "SKIPPED", "CANCELLED"}
  /\ \E p \in Predecessors[n] : nodeStatus[p] = "SUCCEEDED"

IsNodeReady(n) ==
  /\ ~IsTerminalRow(nodeStatus[n])
  /\ ~IsNodeSkippable(n)
  /\ IF NodeType[n] = "JOIN"
       THEN JoinReady(n)
       ELSE \A p \in Predecessors[n] : nodeStatus[p] = "SUCCEEDED"

InputForNode(n) == {p \in Predecessors[n] : nodeStatus[p] = "SUCCEEDED"}

(* Mutant: a rejected approval is not a failed node. *)
HasFailedAgent ==
  \E n \in Nodes : NodeType[n] = "AGENT" /\ nodeStatus[n] = "FAILED"

HasFailedNode == \E n \in Nodes : nodeStatus[n] = "FAILED"

IsWorkflowBlockedOnSuspension ==
  /\ \E n \in Nodes : nodeStatus[n] = "WAITING"
  /\ \A n \in Nodes :
       \/ nodeStatus[n] = "WAITING"
       \/ IsTerminalRow(nodeStatus[n])
       \/ nodeStatus[n] = Absent /\ ~IsNodeReady(n)

-----------------------------------------------------------------------------
(* Passes and their tasks. *)

NextPhase ==
  [ observeAgents     |-> "failFast",
    failFast          |-> "observeApprovals",
    observeApprovals  |-> "repairWaits",
    repairWaits       |-> "observeWaits",
    observeWaits      |-> "failFastAgain",
    failFastAgain     |-> "skip",
    skip              |-> "resolve",
    resolve           |-> "skipResolved",
    skipResolved      |-> "resolve",
    resolved          |-> "skipAgain",
    skipAgain         |-> "readyApprovals",
    readyApprovals    |-> "readyWaits",
    readyWaits        |-> "readyAgents",
    readyAgents       |-> "conclude",
    conclude          |-> "conclude" ]

Phases == DOMAIN NextPhase

SkipPhases == {"skip", "skipResolved", "skipAgain"}
FailFastPhases == {"failFast", "failFastAgain"}

OrchestrationTypes == {"BRANCH", "PARALLEL", "JOIN"}
SuspensionTypes == {"APPROVAL", "WAIT"}

Verdicts == {"FAILED", "SUCCEEDED", "WAITING", "RUNNING"}

(* at: "idle" between passes, "list" before the rows are listed, "work"    *)
(* while tasks run, "reload" and "write" while the verdict is carried out. *)
PassStates ==
  [at : {"idle", "list", "work", "reload", "write"}, phase : Phases,
   verdict : Verdicts \cup {None}, expected : WSM!WorkflowRunStates \cup {None}]

Idle == [at |-> "idle", phase |-> "observeAgents", verdict |-> None, expected |-> None]

Steps == {"none", "materialize", "activate", "resolve", "skip", "arm", "observe",
          "findRun", "createRun", "queueRun", "enqueueNew", "attach",
          "markRunning", "requeue", "enqueue", "observeRun"}

RunStates == {"PENDING", "QUEUED", "RUNNING", "INTERRUPTED", "SUCCEEDED", "FAILED"}

(* row, input: the node row the task holds and the input it computed for a *)
(* new one; run, enqueued: the child Run ensureChildRun holds.             *)
Tasks ==
  [step : Steps, row : WSM!WorkflowNodeRunStates \cup {Absent},
   input : SUBSET Nodes, run : RunStates \cup {Absent}, enqueued : BOOLEAN]

NoTask == [step |-> "none", row |-> Absent, input |-> {}, run |-> Absent,
           enqueued |-> FALSE]

Working(p) == \E n \in Nodes : task[p][n].step # "none"

(* A row in one of the statuses a node of its kind is looked after in. *)
IsActiveAgent(n) ==
  NodeType[n] = "AGENT" /\ nodeStatus[n] # Absent /\ ~IsTerminalRow(nodeStatus[n])

IsSuspended(type, n) == NodeType[n] = type /\ nodeStatus[n] = "WAITING"

IsToSkip(n) == IsNodeSkippable(n) /\ nodeStatus[n] \in {Absent, "PENDING"}

(* The nodes a phase picks from the rows it lists. *)
IsPicked(phase, n) ==
  \/ phase = "observeAgents" /\ IsActiveAgent(n)
  \/ phase = "observeApprovals" /\ IsSuspended("APPROVAL", n)
  \/ phase \in {"repairWaits", "observeWaits"} /\ IsSuspended("WAIT", n)
  \/ phase \in SkipPhases /\ IsToSkip(n)
  \/ phase = "resolve" /\ NodeType[n] \in OrchestrationTypes /\ IsNodeReady(n)
  \/ phase = "readyApprovals" /\ NodeType[n] = "APPROVAL" /\ IsNodeReady(n)
  \/ phase = "readyWaits" /\ NodeType[n] = "WAIT" /\ IsNodeReady(n)
  \/ phase = "readyAgents" /\ NodeType[n] = "AGENT" /\ IsNodeReady(n)

(* What comes after the task holds row of node n. *)
StepOnRow(n, row) ==
  IF row = Absent THEN "materialize"
  ELSE IF IsTerminalRow(row) THEN "none"
  ELSE IF NodeType[n] = "AGENT" THEN "findRun"
  ELSE CASE row = "PENDING" -> "activate"
         [] row = "RUNNING" -> "resolve"
         [] row = "WAITING" -> "arm"

FirstStep(phase, n) ==
  CASE phase \in {"observeApprovals", "observeWaits"} -> "observe"
    [] phase \in SkipPhases                           -> "skip"
    [] OTHER -> StepOnRow(n, nodeStatus[n])

(* Mutant: every predecessor is taken to have an output. *)
NewTaskOfAllPaths(phase, n) ==
  [NoTask EXCEPT !.step = FirstStep(phase, n), !.row = nodeStatus[n],
                 !.input = Predecessors[n]]

NewTask(phase, n) ==
  [NoTask EXCEPT !.step = FirstStep(phase, n), !.row = nodeStatus[n],
                 !.input = InputForNode(n)]

Continue(p, n, t) ==
  /\ task' = [task EXCEPT ![p][n] = IF t.step = "none" THEN NoTask ELSE t]
  /\ UNCHANGED pass

Done(p, n) == Continue(p, n, NoTask)

(* The task throws, its Promise.all rejects and the pass is over; the      *)
(* other tasks go on.                                                      *)
Throw(p, n) ==
  /\ task' = [task EXCEPT ![p][n] = NoTask]
  /\ pass' = [pass EXCEPT ![p] = Idle]

(* A failure of the environment. *)
Fault == faults < MaxFaults /\ faults' = faults + 1

-----------------------------------------------------------------------------
Init ==
  /\ workflowStatus = "PENDING"
  /\ nodeStatus = [n \in Nodes |-> Absent]
  /\ nodeInput = [n \in Nodes |-> {}]
  /\ selectedTargetKey = [n \in Nodes |-> None]
  /\ childRunId = [n \in Nodes |-> FALSE]
  /\ childStatus = [n \in Nodes |-> Absent]
  /\ job = [n \in Nodes |-> FALSE]
  /\ suspension = [n \in Nodes |-> "absent"]
  /\ pass = [p \in Passes |-> Idle]
  /\ task = [p \in Passes |-> [n \in Nodes |-> NoTask]]
  /\ faults = 0

TypeOK ==
  /\ workflowStatus \in WSM!WorkflowRunStates
  /\ nodeStatus \in [Nodes -> WSM!WorkflowNodeRunStates \cup {Absent}]
  /\ nodeInput \in [Nodes -> SUBSET Nodes]
  /\ selectedTargetKey \in [Nodes -> Nodes \cup {None}]
  /\ childRunId \in [Nodes -> BOOLEAN]
  /\ childStatus \in [Nodes -> RunStates \cup {Absent}]
  /\ job \in [Nodes -> BOOLEAN]
  /\ suspension \in [Nodes -> {"absent", "open", "satisfied", "refused"}]
  /\ pass \in [Passes -> PassStates]
  /\ task \in [Passes -> [Nodes -> Tasks]]
  /\ faults \in 0..MaxFaults

-----------------------------------------------------------------------------
(* The pass itself. *)

(* The orchestrator tick lists the WorkflowRun as active and starts a pass. *)
Tick(p) ==
  /\ pass[p].at = "idle" /\ ~Working(p)
  /\ ~WorkflowEnded
  /\ pass' = [pass EXCEPT ![p].at = "list"]
  /\ UNCHANGED <<workflowStatus, nodeVars, childVars, suspension, task, faults>>

(* listWorkflowNodeRuns, and one task per node the phase picks.  When no   *)
(* orchestration node is ready the resolve loop ends; its bound of one     *)
(* round per node is never met, each round ends the nodes it picked.       *)
ListNodes(p) ==
  LET phase == pass[p].phase
      picked == {n \in Nodes : IsPicked(phase, n)} IN
  /\ pass[p].at = "list"
  /\ phase \notin FailFastPhases \cup {"conclude"}
  /\ task' = [task EXCEPT ![p] =
                [n \in Nodes |-> IF n \in picked THEN NewTask(phase, n) ELSE NoTask]]
  /\ pass' = [pass EXCEPT ![p].at = "work",
                          ![p].phase = IF phase = "resolve" /\ picked = {}
                                         THEN "resolved" ELSE phase]
  /\ UNCHANGED <<workflowStatus, nodeVars, childVars, suspension, faults>>

(* All tasks of the phase have returned; the WorkflowRun is reloaded. *)
Advance(p) ==
  /\ pass[p].at = "work" /\ ~Working(p)
  /\ pass' = [pass EXCEPT ![p] =
                IF WorkflowEnded
                  THEN Idle
                  ELSE [@ EXCEPT !.at = "list", !.phase = NextPhase[pass[p].phase]]]
  /\ UNCHANGED <<workflowStatus, nodeVars, childVars, suspension, task, faults>>

(* The short circuit on a FAILED node. *)
FailFast(p) ==
  /\ pass[p].at = "list" /\ pass[p].phase \in FailFastPhases
  /\ pass' = [pass EXCEPT ![p] =
                IF HasFailedNode
                  THEN [@ EXCEPT !.at = "reload", !.verdict = "FAILED"]
                  ELSE [@ EXCEPT !.at = "work"]]
  /\ UNCHANGED <<workflowStatus, nodeVars, childVars, suspension, task, faults>>

(* Mutant: success when no listed row is active. *)
StatusOfListedRows ==
  IF HasFailedNode THEN "FAILED"
  ELSE IF \A n \in Nodes : nodeStatus[n] = Absent \/ IsTerminalRow(nodeStatus[n])
    THEN "SUCCEEDED" ELSE "RUNNING"

(* The status the listed rows call for. *)
DerivedStatus ==
  IF HasFailedNode \/ nodeStatus[TerminalKey] = "SKIPPED" THEN "FAILED"
  ELSE IF nodeStatus[TerminalKey] = "SUCCEEDED" THEN "SUCCEEDED"
  ELSE IF IsWorkflowBlockedOnSuspension THEN "WAITING" ELSE "RUNNING"

Conclude(p) ==
  /\ pass[p].at = "list" /\ pass[p].phase = "conclude"
  /\ pass' = [pass EXCEPT ![p].at = "reload", ![p].verdict = DerivedStatus]
  /\ UNCHANGED <<workflowStatus, nodeVars, childVars, suspension, task, faults>>

(* failWorkflow, succeedWorkflow and deriveActiveWorkflowStatus reload the *)
(* WorkflowRun and give up when there is nothing to write.                 *)
ReloadWorkflow(p) ==
  /\ pass[p].at = "reload"
  /\ pass' = [pass EXCEPT ![p] =
                IF WorkflowEnded \/ workflowStatus = pass[p].verdict
                  THEN Idle
                  ELSE [@ EXCEPT !.at = "write", !.expected = workflowStatus]]
  /\ UNCHANGED <<workflowStatus, nodeVars, childVars, suspension, task, faults>>

(* transitionWorkflowRun compares and sets the status; success goes from   *)
(* PENDING through RUNNING.  A conflict ends the pass.                     *)
WriteWorkflow(p) ==
  LET viaRunning == pass[p].verdict = "SUCCEEDED" /\ pass[p].expected = "PENDING"
      matches    == workflowStatus = pass[p].expected
      target     == IF viaRunning THEN "RUNNING" ELSE pass[p].verdict IN
  /\ pass[p].at = "write"
  /\ workflowStatus' = IF matches THEN target ELSE workflowStatus
  /\ pass' = [pass EXCEPT ![p] =
                IF matches /\ viaRunning THEN [@ EXCEPT !.expected = "RUNNING"] ELSE Idle]
  /\ UNCHANGED <<nodeVars, childVars, suspension, task, faults>>

-----------------------------------------------------------------------------
(* Tasks: node rows. *)

(* Mutant: the status is set without being compared. *)
OverwriteNode(n, expected, target) == nodeStatus' = [nodeStatus EXCEPT ![n] = target]

(* saveWorkflowNodeRunTransition, the status compared and set. *)
TransitionNode(n, expected, target) ==
  nodeStatus' = IF nodeStatus[n] = expected
                  THEN [nodeStatus EXCEPT ![n] = target]
                  ELSE nodeStatus

(* saveWorkflowNodeRun of a new row: the key is unique in the WorkflowRun. *)
InsertNode(n, status, input) ==
  /\ nodeStatus' = IF nodeStatus[n] = Absent
                     THEN [nodeStatus EXCEPT ![n] = status]
                     ELSE nodeStatus
  /\ nodeInput' = IF nodeStatus[n] = Absent
                    THEN [nodeInput EXCEPT ![n] = input]
                    ELSE nodeInput

(* materializeNodeRun: insert the row, or take the one that is there. *)
MaterializeNodeRun(p, n) ==
  LET t == task[p][n] IN
  /\ t.step = "materialize"
  /\ InsertNode(n, "PENDING", t.input)
  /\ Continue(p, n, [t EXCEPT !.row = nodeStatus'[n], !.step = StepOnRow(n, nodeStatus'[n])])
  /\ UNCHANGED <<workflowStatus, selectedTargetKey, childVars, suspension, faults>>

(* markRunning of an orchestration node, markWaiting of a suspension. *)
ActivateNode(p, n) ==
  LET t == task[p][n] IN
  /\ t.step = "activate"
  /\ TransitionNode(n, "PENDING",
       IF NodeType[n] \in SuspensionTypes THEN "WAITING" ELSE "RUNNING")
  /\ Continue(p, n, [t EXCEPT !.row = nodeStatus'[n], !.step = StepOnRow(n, nodeStatus'[n])])
  /\ UNCHANGED <<workflowStatus, nodeInput, selectedTargetKey, childVars,
                 suspension, faults>>

(* resolveOrchestrationNode ends the node.  selectBranchTarget looks at    *)
(* the payload, so any successor of a branch may be the one.               *)
ResolveOrchestrationNode(p, n) ==
  /\ task[p][n].step = "resolve"
  /\ TransitionNode(n, "RUNNING", "SUCCEEDED")
  /\ IF NodeType[n] = "BRANCH" /\ nodeStatus[n] = "RUNNING"
       THEN \E target \in Successors(n) :
              selectedTargetKey' = [selectedTargetKey EXCEPT ![n] = target]
       ELSE UNCHANGED selectedTargetKey
  /\ Done(p, n)
  /\ UNCHANGED <<workflowStatus, nodeInput, childVars, suspension, faults>>

(* propagateSkips: insert a SKIPPED row, or skip the PENDING one. *)
SkipNode(p, n) ==
  LET t == task[p][n] IN
  /\ t.step = "skip"
  /\ IF t.row = Absent
       THEN InsertNode(n, "SKIPPED", t.input)
       ELSE TransitionNode(n, "PENDING", "SKIPPED") /\ UNCHANGED nodeInput
  /\ Done(p, n)
  /\ UNCHANGED <<workflowStatus, selectedTargetKey, childVars, suspension, faults>>

(* Mutant: arming again overwrites the row. *)
ReopenSuspension(n) == suspension' = [suspension EXCEPT ![n] = "open"]

(* The row of a suspension is unique; one that is there is kept. *)
OpenSuspension(n) ==
  suspension' = [suspension EXCEPT ![n] = IF @ = "absent" THEN "open" ELSE @]

EnsureApprovalRequest(p, n) ==
  /\ task[p][n].step = "arm" /\ NodeType[n] = "APPROVAL"
  /\ OpenSuspension(n)
  /\ Done(p, n)
  /\ UNCHANGED <<workflowStatus, nodeVars, childVars, faults>>

(* ensureWorkflowWait; arming a wait whose correlation pointer finds no    *)
(* string throws.                                                          *)
EnsureWorkflowWait(p, n) ==
  /\ task[p][n].step = "arm" /\ NodeType[n] = "WAIT"
  /\ IF n \in Unarmable
       THEN Throw(p, n) /\ UNCHANGED suspension
       ELSE Done(p, n) /\ OpenSuspension(n)
  /\ UNCHANGED <<workflowStatus, nodeVars, childVars, faults>>

(* A WAITING row ends the way its suspension did. *)
FollowSuspension(n) ==
  \/ suspension[n] = "satisfied" /\ TransitionNode(n, "WAITING", "SUCCEEDED")
  \/ suspension[n] = "refused" /\ TransitionNode(n, "WAITING", "FAILED")
  \/ suspension[n] \in {"absent", "open"} /\ UNCHANGED nodeStatus

(* observeApprovalDecisions.  The request was made for this very row and   *)
(* without an expiry, so an approval is neither mismatched nor expired.    *)
ObserveApprovalDecision(p, n) ==
  /\ task[p][n].step = "observe" /\ NodeType[n] = "APPROVAL"
  /\ FollowSuspension(n)
  /\ Done(p, n)
  /\ UNCHANGED <<workflowStatus, nodeInput, selectedTargetKey, childVars,
                 suspension, faults>>

(* observeResolvedWorkflowWaits: TIMER and EVENT satisfy, TIMEOUT refuses. *)
ObserveResolvedWait(p, n) ==
  /\ task[p][n].step = "observe" /\ NodeType[n] = "WAIT"
  /\ FollowSuspension(n)
  /\ Done(p, n)
  /\ UNCHANGED <<workflowStatus, nodeInput, selectedTargetKey, childVars,
                 suspension, faults>>

-----------------------------------------------------------------------------
(* Tasks: the child Run of an AGENT node (ensureChildRun, observeChildRun). *)

agentUnchanged == <<workflowStatus, nodeInput, selectedTargetKey, suspension>>

(* Mutant: a Run found QUEUED is taken to have been enqueued. *)
StepOnQueuedRun(t) ==
  IF t.run = "PENDING" /\ ~t.enqueued THEN "requeue" ELSE "observeRun"

(* What is left to do once the row is RUNNING. *)
StepOnRun(t) ==
  CASE t.run = "PENDING" /\ ~t.enqueued -> "requeue"
    [] t.run = "QUEUED" /\ ~t.enqueued  -> "enqueue"
    [] OTHER                            -> "observeRun"

(* Mutant: the row is marked RUNNING before it names its child Run. *)
StepBeforeAttach(n, t) ==
  IF t.row = "PENDING" THEN "markRunning" ELSE StepOnRun(t)

(* What follows once the task holds its child Run.  A row listed without   *)
(* its child_run_id that another pass has set since is given the same one  *)
(* again, which changes nothing.                                           *)
StepWithRun(n, t) ==
  IF ~childRunId[n] THEN "attach"
  ELSE IF t.row = "PENDING" THEN "markRunning" ELSE StepOnRun(t)

WithRun(n, t) == [t EXCEPT !.step = StepWithRun(n, t)]

(* Find the Run by child_run_id or by the idempotency key. *)
FindChildRun(p, n) ==
  LET t == [task[p][n] EXCEPT !.run = childStatus[n]] IN
  /\ t.step = "findRun"
  /\ Continue(p, n, IF t.run = Absent THEN [t EXCEPT !.step = "createRun"]
                                      ELSE WithRun(n, t))
  /\ UNCHANGED <<agentUnchanged, nodeStatus, childVars, faults>>

(* createRunWithInitialAttempt; the idempotency key is unique, a conflict  *)
(* makes the task take the Run that is there.                              *)
CreateChildRun(p, n) ==
  LET t == task[p][n] IN
  /\ t.step = "createRun"
  /\ IF childStatus[n] = Absent
       THEN /\ childStatus' = [childStatus EXCEPT ![n] = "PENDING"]
            /\ Continue(p, n, [t EXCEPT !.step = "queueRun"])
       ELSE /\ Continue(p, n, WithRun(n, [t EXCEPT !.run = childStatus[n]]))
            /\ UNCHANGED childStatus
  /\ UNCHANGED <<agentUnchanged, nodeStatus, childRunId, job, faults>>

(* CreateRun moves its Run to QUEUED; when another pass, which found the   *)
(* Run PENDING, did so first, the conflict is thrown out of the pass.      *)
QueueChildRun(p, n) ==
  /\ task[p][n].step = "queueRun"
  /\ IF childStatus[n] = "PENDING"
       THEN /\ childStatus' = [childStatus EXCEPT ![n] = "QUEUED"]
            /\ Continue(p, n, [task[p][n] EXCEPT !.step = "enqueueNew"])
       ELSE Throw(p, n) /\ UNCHANGED childStatus
  /\ UNCHANGED <<agentUnchanged, nodeStatus, childRunId, job, faults>>

(* CreateRun enqueues the first attempt; EnqueueFailedError makes the task *)
(* re-read the Run and go on as if another process had created it.         *)
EnqueueNewRun(p, n) ==
  LET t == task[p][n] IN
  /\ t.step = "enqueueNew"
  /\ \/ /\ job' = [job EXCEPT ![n] = TRUE]
        /\ Continue(p, n, WithRun(n, [t EXCEPT !.run = "QUEUED", !.enqueued = TRUE]))
        /\ UNCHANGED faults
     \/ /\ Fault
        /\ Continue(p, n, WithRun(n, [t EXCEPT !.run = childStatus[n]]))
        /\ UNCHANGED job
  /\ UNCHANGED <<agentUnchanged, nodeStatus, childRunId, childStatus>>

(* saveWorkflowNodeRun of the row with its childRunId. *)
AttachChildRun(p, n) ==
  LET t == task[p][n] IN
  /\ t.step = "attach"
  /\ childRunId' = [childRunId EXCEPT ![n] = TRUE]
  /\ Continue(p, n, [t EXCEPT !.step =
                       IF t.row = "PENDING" THEN "markRunning" ELSE StepOnRun(t)])
  /\ UNCHANGED <<agentUnchanged, nodeStatus, childStatus, job, faults>>

MarkNodeRunning(p, n) ==
  LET t == task[p][n] IN
  /\ t.step = "markRunning"
  /\ TransitionNode(n, "PENDING", "RUNNING")
  /\ Continue(p, n, [t EXCEPT !.row = nodeStatus'[n], !.step = StepOnRun(t)])
  /\ UNCHANGED <<agentUnchanged, childVars, faults>>

(* enqueueInitialAttempt of a Run found PENDING. *)
RequeueChildRun(p, n) ==
  LET queued == childStatus[n] = "PENDING" IN
  /\ task[p][n].step = "requeue"
  /\ childStatus' = IF queued THEN [childStatus EXCEPT ![n] = "QUEUED"] ELSE childStatus
  /\ Continue(p, n, [task[p][n] EXCEPT !.step = IF queued THEN "enqueue" ELSE "observeRun"])
  /\ UNCHANGED <<agentUnchanged, nodeStatus, childRunId, job, faults>>

(* enqueueInitialAttempt of a QUEUED Run; a failing queue is only logged. *)
EnqueueInitialAttempt(p, n) ==
  /\ task[p][n].step = "enqueue"
  /\ \/ job' = [job EXCEPT ![n] = TRUE] /\ UNCHANGED faults
     \/ Fault /\ UNCHANGED job
  /\ Continue(p, n, [task[p][n] EXCEPT !.step = "observeRun"])
  /\ UNCHANGED <<agentUnchanged, nodeStatus, childRunId, childStatus>>

(* Mutant: a Run that stopped ends the node, with the Run's status. *)
ObserveStoppedRun(p, n) ==
  /\ task[p][n].step = "observeRun"
  /\ IF childStatus[n] \in {"SUCCEEDED", "FAILED", "INTERRUPTED"}
       THEN TransitionNode(n, task[p][n].row, childStatus[n])
       ELSE UNCHANGED nodeStatus
  /\ Done(p, n)
  /\ UNCHANGED <<agentUnchanged, childVars, faults>>

(* observeChildRun: an ended Run ends the node, whatever way it failed. *)
ObserveChildRun(p, n) ==
  LET row == task[p][n].row IN
  /\ task[p][n].step = "observeRun"
  /\ IF childStatus[n] \in {"SUCCEEDED", "FAILED"} /\ row # childStatus[n]
       THEN TransitionNode(n, row, childStatus[n])
       ELSE UNCHANGED nodeStatus
  /\ Done(p, n)
  /\ UNCHANGED <<agentUnchanged, childVars, faults>>

-----------------------------------------------------------------------------
(* The environment. *)

envUnchanged == <<workflowStatus, nodeVars, childRunId, job, pass, task>>

(* A worker takes the child Run's job; its Run ends, or is interrupted and *)
(* scheduled again (RunLifecycle).  FAILED stands for TIMED_OUT and        *)
(* CANCELLED too, which the reconciler treats alike.                       *)
ChildStarts(n) ==
  /\ childStatus[n] = "QUEUED" /\ job[n]
  /\ childStatus' = [childStatus EXCEPT ![n] = "RUNNING"]
  /\ UNCHANGED <<envUnchanged, suspension, faults>>

ChildEnds(n, outcome) ==
  /\ childStatus[n] = "RUNNING"
  /\ childStatus' = [childStatus EXCEPT ![n] = outcome]
  /\ UNCHANGED <<envUnchanged, suspension, faults>>

ChildInterrupted(n) ==
  /\ Fault
  /\ childStatus[n] = "RUNNING"
  /\ childStatus' = [childStatus EXCEPT ![n] = "INTERRUPTED"]
  /\ UNCHANGED <<envUnchanged, suspension>>

ChildRecovered(n) ==
  /\ childStatus[n] = "INTERRUPTED"
  /\ childStatus' = [childStatus EXCEPT ![n] = "QUEUED"]
  /\ UNCHANGED <<envUnchanged, suspension, faults>>

(* A person decides, at any time, also after the WorkflowRun has ended. *)
DecideApproval(n, outcome) ==
  /\ NodeType[n] = "APPROVAL" /\ suspension[n] = "open"
  /\ suspension' = [suspension EXCEPT ![n] = outcome]
  /\ UNCHANGED <<envUnchanged, childStatus, faults>>

(* An event or a timeout resolves a wait, in a transaction that locks the  *)
(* WorkflowRun and leaves the wait alone once it has ended; a timer does   *)
(* the same and never refuses.                                             *)
ResolveWait(n, outcome) ==
  /\ NodeType[n] = "WAIT" /\ suspension[n] = "open"
  /\ ~WorkflowEnded
  /\ suspension' = [suspension EXCEPT ![n] = outcome]
  /\ UNCHANGED <<envUnchanged, childStatus, faults>>

(* The replica dies. *)
Crash(p) ==
  /\ Fault
  /\ pass[p].at # "idle" \/ Working(p)
  /\ pass' = [pass EXCEPT ![p] = Idle]
  /\ task' = [task EXCEPT ![p] = [n \in Nodes |-> NoTask]]
  /\ UNCHANGED <<workflowStatus, nodeVars, childVars, suspension>>

(* A call of the task fails with anything the code does not handle. *)
TaskFails(p, n) ==
  /\ Fault
  /\ task[p][n].step # "none"
  /\ Throw(p, n)
  /\ UNCHANGED <<workflowStatus, nodeVars, childVars, suspension>>

-----------------------------------------------------------------------------
TaskStep(p, n) ==
  \/ MaterializeNodeRun(p, n)
  \/ ActivateNode(p, n)
  \/ ResolveOrchestrationNode(p, n)
  \/ SkipNode(p, n)
  \/ EnsureApprovalRequest(p, n)
  \/ EnsureWorkflowWait(p, n)
  \/ ObserveApprovalDecision(p, n)
  \/ ObserveResolvedWait(p, n)
  \/ FindChildRun(p, n)
  \/ CreateChildRun(p, n)
  \/ QueueChildRun(p, n)
  \/ EnqueueNewRun(p, n)
  \/ AttachChildRun(p, n)
  \/ MarkNodeRunning(p, n)
  \/ RequeueChildRun(p, n)
  \/ EnqueueInitialAttempt(p, n)
  \/ ObserveChildRun(p, n)

PassStep(p) ==
  \/ Tick(p)
  \/ ListNodes(p)
  \/ Advance(p)
  \/ FailFast(p)
  \/ Conclude(p)
  \/ ReloadWorkflow(p)
  \/ WriteWorkflow(p)
  \/ \E n \in Nodes : TaskStep(p, n)

Environment(n) ==
  \/ ChildStarts(n)
  \/ \E outcome \in {"SUCCEEDED", "FAILED"} : ChildEnds(n, outcome)
  \/ ChildInterrupted(n)
  \/ ChildRecovered(n)
  \/ \E outcome \in {"satisfied", "refused"} :
       DecideApproval(n, outcome) \/ ResolveWait(n, outcome)

Next ==
  \/ \E p \in Passes : PassStep(p) \/ Crash(p) \/ \E n \in Nodes : TaskFails(p, n)
  \/ \E n \in Nodes : Environment(n)

Spec == Init /\ [][Next]_vars

-----------------------------------------------------------------------------
(* Safety. *)

(* A node row exists only where the graph calls for it, for good: a live   *)
(* row has only predecessors that ended without failure, one of them       *)
(* SUCCEEDED and its branch selecting the node, and a SKIPPED one has no   *)
(* active path to it.                                                      *)
RowsFollowGraph ==
  \A n \in Nodes :
    /\ nodeStatus[n] = "SKIPPED" =>
         Predecessors[n] # {} /\ \A p \in Predecessors[n] : IsInactive(p, n)
    /\ nodeStatus[n] \notin {Absent, "SKIPPED"} =>
         /\ Predecessors[n] # {} => \E p \in Predecessors[n] : ~IsInactive(p, n)
         /\ \A p \in Predecessors[n] : nodeStatus[p] \in {"SUCCEEDED", "SKIPPED"}

(* The input written with a row is what its predecessors' final rows give: *)
(* no predecessor ends or contributes later.                               *)
InputsAreFinal ==
  \A n \in Nodes :
    nodeStatus[n] # Absent => nodeInput[n] = InputForNode(n)

(* A node ends the way its child Run or its suspension did, and no path    *)
(* that was skipped ever had a child Run or asked anybody for a decision.  *)
OutcomesAreEarned ==
  \A n \in Nodes :
    /\ NodeType[n] = "AGENT" =>
         /\ nodeStatus[n] \in {"SUCCEEDED", "FAILED"} =>
              childRunId[n] /\ childStatus[n] = nodeStatus[n]
         /\ nodeStatus[n] = "RUNNING" => childRunId[n] /\ childStatus[n] # Absent
    /\ NodeType[n] \in SuspensionTypes =>
         /\ nodeStatus[n] = "SUCCEEDED" => suspension[n] = "satisfied"
         /\ nodeStatus[n] = "FAILED" => suspension[n] = "refused"
    /\ nodeStatus[n] \in {Absent, "SKIPPED"} =>
         childStatus[n] = Absent /\ suspension[n] = "absent"

(* A WorkflowRun is SUCCEEDED only when every node has ended, none FAILED, *)
(* and FAILED only because a node is.                                      *)
VerdictMatchesNodes ==
  /\ workflowStatus = "SUCCEEDED" =>
       \A n \in Nodes : nodeStatus[n] \in {"SUCCEEDED", "SKIPPED"}
  /\ workflowStatus = "FAILED" => \E n \in Nodes : nodeStatus[n] = "FAILED"

(* Status columns only move along the tables of the domain layer. *)
FollowsWorkflowStateMachines == WSM!WSMSpec

WaitNodes == {n \in Nodes : NodeType[n] = "WAIT"}

Suspension == INSTANCE NodeSuspension WITH
  Waits <- WaitNodes,
  suspension <- [n \in WaitNodes |-> suspension[n]],
  ended <- IF WorkflowEnded THEN WaitNodes ELSE {}

(* However many passes arm a wait, and repair one that a crash left        *)
(* unarmed, it is opened once and what resolved it is never taken back:    *)
(* the reconciler and WorkflowWaits implement the same NodeSuspension.     *)
ImplementsNodeSuspension == Suspension!Spec

-----------------------------------------------------------------------------
(* Liveness.  Every replica polls in a loop that survives a failing tick,  *)
(* and the steps of a pass follow one another; a replica that dies is      *)
(* started again.  Nothing is assumed of child Runs, people and events.    *)
Fairness == \A p \in Passes : WF_vars(PassStep(p))

FairSpec == Spec /\ Fairness

(* Whatever remains to happen is up to the reconciler. *)
UpToReconciler ==
  /\ ~WorkflowEnded
  /\ \A n \in Nodes : /\ childStatus[n] \in {Absent, "SUCCEEDED", "FAILED"}
                       /\ suspension[n] # "open"

(* A WAIT node whose WorkflowWait cannot be armed: its row is WAITING, so  *)
(* every pass tries to arm it and throws, and nothing resolves it.         *)
HasUnarmedWait == \E n \in Unarmable : nodeStatus[n] = "WAITING"

(* An active workflow never stalls: when no child Run is under way and no  *)
(* suspension is open, the reconciler ends it or starts one.  The one      *)
(* exception is a wait that cannot be armed.  (The passes are those over   *)
(* this WorkflowRun: it is among the 50 that a tick of the orchestrator    *)
(* lists.)                                                                 *)
NeverStalls == UpToReconciler ~> ~UpToReconciler \/ HasUnarmedWait

(* A failed node fails the workflow, whatever its siblings are doing. *)
FailureEndsWorkflow ==
  (\E n \in Nodes : nodeStatus[n] = "FAILED") ~> workflowStatus = "FAILED"

(* A child Run whose first enqueue was lost is enqueued again, as long as  *)
(* its workflow is active.                                                 *)
LostEnqueueRepaired ==
  \A n \in Nodes :
    childStatus[n] \in {"PENDING", "QUEUED"} /\ ~job[n] ~> job[n] \/ WorkflowEnded
=============================================================================
