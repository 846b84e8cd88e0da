-------------------- MODULE WorkflowReconciliationProofs --------------------
(* Proofs about WorkflowReconciliation for every graph, every number of     *)
(* passes and any number of faults.                                         *)
EXTENDS WorkflowReconciliation, TLAPS

USE WorkflowAssumption

-----------------------------------------------------------------------------
(* The inductive invariant: what a row, a task and a pass may be relied on  *)
(* for.  The argument is that a task acts on old rows, yet only on facts    *)
(* about them that no step ever takes back (Grows).                         *)

EndedWell == {"SUCCEEDED", "SKIPPED"}

(* The node's turn has come: its predecessors are through and one of the    *)
(* paths they leave open leads to it.                                       *)
Activated(n) ==
  /\ ~IsNodeSkippable(n)
  /\ \A p \in Predecessors[n] : nodeStatus[p] \in EndedWell

ActivatedRow(status) == status \notin {Absent, "SKIPPED"}

(* The row of node n is where the graph wants it. *)
RowOK(n) ==
  /\ nodeStatus[n] # "CANCELLED"
  /\ nodeStatus[n] = "SKIPPED" => IsNodeSkippable(n)
  /\ ActivatedRow(nodeStatus[n]) => Activated(n)
  /\ nodeStatus[n] # Absent => nodeInput[n] = InputForNode(n)
  /\ nodeStatus[n] = "RUNNING" => NodeType[n] \notin SuspensionTypes
  /\ nodeStatus[n] = "WAITING" => NodeType[n] \in SuspensionTypes
  /\ nodeStatus[n] = "SUCCEEDED" /\ NodeType[n] = "BRANCH" =>
       selectedTargetKey[n] \in Successors(n)

(* The row, its child Run and its suspension agree. *)
EarnedOK(n) ==
  /\ childRunId[n] => childStatus[n] # Absent
  /\ NodeType[n] = "AGENT" =>
       /\ nodeStatus[n] \in {"SUCCEEDED", "FAILED"} =>
            childRunId[n] /\ childStatus[n] = nodeStatus[n]
       /\ nodeStatus[n] = "RUNNING" => childRunId[n] /\ childStatus[n] # Absent
  /\ NodeType[n] \in SuspensionTypes =>
       /\ nodeStatus[n] = "SUCCEEDED" => suspension[n] = "satisfied"
       /\ nodeStatus[n] = "FAILED" => suspension[n] = "refused"
  /\ nodeStatus[n] \in {Absent, "SKIPPED"} =>
       childStatus[n] = Absent /\ suspension[n] = "absent"

SuspensionSteps == {"arm", "observe"}
(* Steps with a row that is RUNNING or beyond, with a child Run that the    *)
(* row names, with a child Run, of an AGENT node.                           *)
StartedSteps  == {"requeue", "enqueue", "observeRun"}
AttachedSteps == StartedSteps \cup {"markRunning"}
RunSteps      == AttachedSteps \cup {"queueRun", "enqueueNew", "attach"}
AgentSteps    == RunSteps \cup {"findRun", "createRun"}

(* What task t of node n may rely on. *)
TaskOK(t, n) ==
  /\ t.step = "materialize" => Activated(n) /\ t.input = InputForNode(n)
  /\ t.step = "skip" =>
       IsNodeSkippable(n) /\ t.row = Absent /\ t.input = InputForNode(n)
  /\ t.step = "activate" => NodeType[n] # "AGENT" /\ ActivatedRow(nodeStatus[n])
  /\ t.step = "resolve" => NodeType[n] \in OrchestrationTypes
  /\ t.step \in SuspensionSteps =>
       /\ NodeType[n] \in SuspensionTypes
       /\ nodeStatus[n] \in {"WAITING", "SUCCEEDED", "FAILED"}
  /\ t.step \in AgentSteps =>
       /\ NodeType[n] = "AGENT"
       /\ ActivatedRow(nodeStatus[n])
       /\ t.row \in {"PENDING", "RUNNING", "SUCCEEDED", "FAILED"}
       /\ t.row # "PENDING" => nodeStatus[n] \in {"RUNNING", "SUCCEEDED", "FAILED"}
       /\ t.row \in {"SUCCEEDED", "FAILED"} => nodeStatus[n] = t.row
  /\ t.step \in RunSteps => childStatus[n] # Absent
  /\ t.step \in AttachedSteps => childRunId[n]
  /\ t.step \in StartedSteps => t.row # "PENDING"

AllEndedWell == \A n \in Nodes : nodeStatus[n] \in EndedWell

(* A verdict is what the rows call for, and go on calling for if it ends    *)
(* the WorkflowRun; it is written over an active status that differs.       *)
PassOK(s) ==
  /\ s.at \in {"reload", "write"} =>
       /\ s.verdict \in Verdicts
       /\ s.verdict = "SUCCEEDED" => AllEndedWell
       /\ s.verdict = "FAILED" => HasFailedNode
  /\ s.at = "write" =>
       s.expected \in {"PENDING", "RUNNING", "WAITING"} /\ s.expected # s.verdict

IInv ==
  /\ TypeOK
  /\ \A n \in Nodes : RowOK(n) /\ EarnedOK(n)
  /\ \A p \in Passes, n \in Nodes : TaskOK(task[p][n], n)
  /\ \A p \in Passes : PassOK(pass[p])
  /\ VerdictMatchesNodes

-----------------------------------------------------------------------------
(* What no step takes back. *)

StatusGrows(a, b) ==
  \/ a = b
  \/ a = Absent /\ b \in {"PENDING", "SKIPPED"}
  \/ a = "PENDING" /\ b \in {"RUNNING", "WAITING"}
  \/ a \in {"RUNNING", "WAITING"} /\ b \in {"SUCCEEDED", "FAILED"}

Grows ==
  \A n \in Nodes :
    /\ StatusGrows(nodeStatus[n], nodeStatus'[n])
    /\ nodeStatus[n] \in EndedWell => selectedTargetKey'[n] = selectedTargetKey[n]
    /\ childRunId[n] => childRunId'[n]
    /\ childStatus[n] # Absent => childStatus'[n] # Absent

LEMMA SkippableStable ==
  ASSUME Grows, NEW n \in Nodes, IsNodeSkippable(n)
  PROVE  IsNodeSkippable(n)' /\ InputForNode(n)' = InputForNode(n)
  BY DEF Grows, StatusGrows, IsNodeSkippable, IsInactive, InputForNode, EndedWell,
         Absent, WSM!Absent

LEMMA ActivatedStable ==
  ASSUME Grows, NEW n \in Nodes, Activated(n)
  PROVE  Activated(n)' /\ InputForNode(n)' = InputForNode(n)
<1>1. \A p \in Predecessors[n] : /\ p \in Nodes
                                 /\ nodeStatus[p] \in EndedWell
                                 /\ nodeStatus'[p] = nodeStatus[p]
                                 /\ selectedTargetKey'[p] = selectedTargetKey[p]
  BY DEF Grows, StatusGrows, Activated, EndedWell, Absent, WSM!Absent
<1>2. \A p \in Predecessors[n] : IsInactive(p, n)' <=> IsInactive(p, n)
  BY <1>1 DEF IsInactive
<1>3. IsNodeSkippable(n)' <=> IsNodeSkippable(n)
  BY <1>2 DEF IsNodeSkippable
<1> QED BY <1>1, <1>3 DEF Activated, InputForNode

(* A task keeps what it relies on while others act. *)
LEMMA TaskStable ==
  ASSUME Grows, NEW n \in Nodes, NEW t, TaskOK(t, n)
  PROVE  TaskOK(t, n)'
<1>1. t.step = "materialize" => (Activated(n) /\ t.input = InputForNode(n))'
  BY ActivatedStable DEF TaskOK
<1>2. t.step = "skip" =>
        (IsNodeSkippable(n) /\ t.row = Absent /\ t.input = InputForNode(n))'
  BY SkippableStable DEF TaskOK, Absent, WSM!Absent
<1>3. /\ ActivatedRow(nodeStatus[n]) => ActivatedRow(nodeStatus[n])'
      /\ nodeStatus[n] \in {"WAITING", "SUCCEEDED", "FAILED"} =>
           nodeStatus'[n] \in {"WAITING", "SUCCEEDED", "FAILED"}
      /\ nodeStatus[n] \in {"RUNNING", "SUCCEEDED", "FAILED"} =>
           nodeStatus'[n] \in {"RUNNING", "SUCCEEDED", "FAILED"}
      /\ nodeStatus[n] \in {"SUCCEEDED", "FAILED"} => nodeStatus'[n] = nodeStatus[n]
      /\ childRunId[n] => childRunId'[n]
      /\ childStatus[n] # Absent => (childStatus[n] # Absent)'
  BY DEF Grows, StatusGrows, ActivatedRow, Absent, WSM!Absent
<1> QED BY <1>1, <1>2, <1>3 DEF TaskOK

(* What ends a WorkflowRun is final. *)
LEMMA VerdictStable ==
  ASSUME Grows
  PROVE  (AllEndedWell => AllEndedWell') /\ (HasFailedNode => HasFailedNode')
  BY DEF Grows, StatusGrows, AllEndedWell, EndedWell, HasFailedNode, Absent, WSM!Absent

(* What is left to show of a step once it is known to grow. *)
LEMMA StepOK ==
  ASSUME IInv, Grows, TypeOK',
         \A n \in Nodes : RowOK(n)' /\ EarnedOK(n)',
         \A p \in Passes, n \in Nodes :
            task'[p][n] = task[p][n] \/ TaskOK(task[p][n], n)',
         \A p \in Passes : pass'[p] = pass[p] \/ PassOK(pass[p])',
         UNCHANGED workflowStatus \/ VerdictMatchesNodes'
  PROVE  IInv' /\ Grows
<1>1. ASSUME NEW p \in Passes, NEW n \in Nodes PROVE TaskOK(task[p][n], n)'
  <2>1. CASE task'[p][n] = task[p][n]
    <3>1. PICK t : t = task[p][n]
      OBVIOUS
    <3>2. TaskOK(t, n)
      BY <1>1, <3>1 DEF IInv
    <3>3. TaskOK(t, n)'
      BY <3>2, TaskStable
    <3> QED BY <2>1, <3>1, <3>3 DEF TaskOK
  <2> QED BY <2>1
<1>2. ASSUME NEW p \in Passes PROVE PassOK(pass[p])'
  <2>1. CASE pass'[p] = pass[p]
    BY <1>2, <2>1, VerdictStable DEF IInv, PassOK
  <2> QED BY <1>2, <2>1
<1>3. VerdictMatchesNodes'
  BY VerdictStable DEF IInv, VerdictMatchesNodes, AllEndedWell, EndedWell, HasFailedNode
<1> QED BY <1>1, <1>2, <1>3 DEF IInv

LEMMA RowStable ==
  ASSUME Grows, NEW n \in Nodes, RowOK(n), nodeStatus'[n] = nodeStatus[n],
         nodeInput'[n] = nodeInput[n]
  PROVE  RowOK(n)'
<1>1. CASE nodeStatus[n] = "SKIPPED"
  BY <1>1, SkippableStable DEF RowOK, ActivatedRow, Absent, WSM!Absent
<1>2. CASE ActivatedRow(nodeStatus[n])
  BY <1>2, ActivatedStable DEF RowOK, ActivatedRow, Grows, EndedWell, Absent, WSM!Absent
<1>3. CASE nodeStatus[n] = Absent
  BY <1>3 DEF RowOK, ActivatedRow, Absent, WSM!Absent
<1> QED BY <1>1, <1>2, <1>3 DEF ActivatedRow

(* A live row that moves on. *)
LEMMA RowMoves ==
  ASSUME Grows, NEW n \in Nodes, RowOK(n), ActivatedRow(nodeStatus[n]),
         nodeStatus'[n] \in {"RUNNING", "WAITING", "SUCCEEDED", "FAILED"},
         nodeStatus'[n] = "RUNNING" => NodeType[n] \notin SuspensionTypes,
         nodeStatus'[n] = "WAITING" => NodeType[n] \in SuspensionTypes,
         nodeStatus'[n] = "SUCCEEDED" /\ NodeType[n] = "BRANCH" =>
           selectedTargetKey'[n] \in Successors(n),
         nodeInput'[n] = nodeInput[n]
  PROVE  RowOK(n)'
<1>1. Activated(n) /\ nodeInput[n] = InputForNode(n)
  BY DEF RowOK, ActivatedRow, Absent, WSM!Absent
<1>2. Activated(n)' /\ InputForNode(n)' = InputForNode(n)
  BY <1>1, ActivatedStable
<1>3. Successors(n)' = Successors(n)
  BY DEF Successors
<1> QED BY <1>1, <1>2, <1>3 DEF RowOK, ActivatedRow, Absent, WSM!Absent

(* A step that writes no row, no child Run and no suspension. *)
LEMMA SameRows ==
  ASSUME IInv, UNCHANGED <<nodeVars, childVars, suspension>>
  PROVE  Grows /\ \A n \in Nodes : RowOK(n)' /\ EarnedOK(n)'
<1>1. Grows
  BY DEF Grows, StatusGrows, nodeVars, childVars
<1>2. \A n \in Nodes : RowOK(n)'
  BY <1>1, RowStable DEF IInv, nodeVars
<1>3. \A n \in Nodes : EarnedOK(n)'
  BY DEF IInv, EarnedOK, nodeVars, childVars, Absent, WSM!Absent
<1> QED BY <1>1, <1>2, <1>3

LEMMA NoTaskOK == NoTask \in Tasks /\ \A n \in Nodes : TaskOK(NoTask, n)
  BY DEF NoTask, Tasks, Steps, TaskOK, SuspensionSteps, StartedSteps, AttachedSteps,
         RunSteps, AgentSteps, Absent, WSM!Absent

LEMMA NoTaskOKNext == \A n \in Nodes : TaskOK(NoTask, n)'
  BY DEF NoTask, TaskOK, SuspensionSteps, StartedSteps, AttachedSteps,
         RunSteps, AgentSteps, Absent, WSM!Absent

TasksOK ==
  /\ task' \in [Passes -> [Nodes -> Tasks]]
  /\ pass' \in [Passes -> PassStates]
  /\ \A p \in Passes, n \in Nodes :
       task'[p][n] = task[p][n] \/ TaskOK(task[p][n], n)'
  /\ \A p \in Passes : pass'[p] = pass[p] \/ PassOK(pass[p])'

LEMMA ContinueOK ==
  ASSUME TypeOK, NEW p \in Passes, NEW n \in Nodes, NEW t \in Tasks,
         Continue(p, n, t), TaskOK(t, n)'
  PROVE  TasksOK
<1> DEFINE s == IF t.step = "none" THEN NoTask ELSE t
<1>1. s \in Tasks /\ TaskOK(s, n)'
  BY NoTaskOK, NoTaskOKNext
<1> HIDE DEF s
<1>2. task' = [task EXCEPT ![p][n] = s] /\ pass' = pass
  BY DEF Continue, s
<1>3. task' \in [Passes -> [Nodes -> Tasks]]
  BY <1>1, <1>2 DEF TypeOK
<1>4. task'[p][n] = s
  BY <1>2 DEF TypeOK
<1>5. TaskOK(task[p][n], n)'
  BY <1>1, <1>4 DEF TaskOK
<1>6. \A q \in Passes, m \in Nodes : q # p \/ m # n => task'[q][m] = task[q][m]
  BY <1>2 DEF TypeOK
<1> QED BY <1>2, <1>3, <1>5, <1>6 DEF TasksOK, TypeOK

LEMMA DoneOK ==
  ASSUME TypeOK, NEW p \in Passes, NEW n \in Nodes, Done(p, n)
  PROVE  TasksOK
  BY ContinueOK, NoTaskOK, NoTaskOKNext DEF Done

LEMMA IdleOK == Idle \in PassStates /\ PassOK(Idle)
  BY DEF Idle, PassStates, PassOK, Phases, NextPhase

LEMMA ThrowOK ==
  ASSUME TypeOK, NEW p \in Passes, NEW n \in Nodes, Throw(p, n)
  PROVE  TasksOK
<1>1. task' \in [Passes -> [Nodes -> Tasks]]
  BY NoTaskOK DEF Throw, TypeOK
<1>2. pass' \in [Passes -> PassStates]
  BY IdleOK DEF Throw, TypeOK
<1>3. task'[p][n] = NoTask /\ pass'[p] = Idle
  BY DEF Throw, TypeOK
<1>4. TaskOK(task[p][n], n)'
  BY <1>3, NoTaskOKNext DEF TaskOK
<1>5. PassOK(pass[p])'
  BY <1>3 DEF PassOK, Idle
<1>6. \A q \in Passes, m \in Nodes : q # p \/ m # n => task'[q][m] = task[q][m]
  BY DEF Throw, TypeOK
<1>7. \A q \in Passes : q # p => pass'[q] = pass[q]
  BY DEF Throw, TypeOK
<1> QED BY <1>1, <1>2, <1>4, <1>5, <1>6, <1>7 DEF TasksOK

(* The task that goes on with a live row it holds. *)
LEMMA LiveStepOK ==
  ASSUME NEW n \in Nodes, NEW t \in Tasks, RowOK(n)',
         nodeStatus'[n] \in WSM!WorkflowNodeRunStates,
         ActivatedRow(nodeStatus[n])', t.row = nodeStatus'[n],
         t.step = StepOnRow(n, t.row)
  PROVE  TaskOK(t, n)'
<1> USE DEF Absent, WSM!Absent, IsTerminalRow, WSM!TerminalWorkflowNodeRunStates,
            WSM!WorkflowNodeRunStates, ActivatedRow, StepOnRow
<1>1. CASE IsTerminalRow(t.row)
  BY <1>1 DEF TaskOK, SuspensionSteps, StartedSteps, AttachedSteps, RunSteps, AgentSteps
<1>2. CASE ~IsTerminalRow(t.row) /\ NodeType[n] = "AGENT"
  BY <1>2 DEF TaskOK, SuspensionSteps, StartedSteps, AttachedSteps, RunSteps,
              AgentSteps, RowOK, SuspensionTypes
<1>3. CASE ~IsTerminalRow(t.row) /\ NodeType[n] # "AGENT"
  BY <1>3 DEF TaskOK, SuspensionSteps, StartedSteps, AttachedSteps, RunSteps,
              AgentSteps, RowOK, SuspensionTypes, OrchestrationTypes, NodeTypes
<1> QED BY <1>1, <1>2, <1>3

-----------------------------------------------------------------------------
(* The pass itself. *)

(* The terminal node ends last. *)
LEMMA ClosedIsAll ==
  ASSUME NEW S \in SUBSET Nodes, TerminalKey \in S, \A n \in S : Predecessors[n] \subseteq S
  PROVE  S = Nodes
<1> SUFFICES ASSUME S # Nodes PROVE FALSE
  OBVIOUS
<1>1. PICK n \in Nodes \ S : Successors(n) \cap (Nodes \ S) = {}
  BY DEF IsAcyclic
<1>2. PICK m \in Nodes : m \in Successors(n)
  BY <1>1 DEF Successors
<1> QED BY <1>1, <1>2 DEF Successors

LEMMA TerminalEndsLast ==
  ASSUME IInv, nodeStatus[TerminalKey] \in EndedWell
  PROVE  AllEndedWell
<1> DEFINE S == {n \in Nodes : nodeStatus[n] \in EndedWell}
<1>1. ASSUME NEW n \in S PROVE Predecessors[n] \subseteq S
  <2>1. n \in Nodes /\ RowOK(n) /\ Predecessors[n] \subseteq Nodes
    BY DEF IInv
  <2>2. CASE nodeStatus[n] = "SUCCEEDED"
    BY <2>1, <2>2 DEF RowOK, ActivatedRow, Activated, Absent, WSM!Absent
  <2>3. CASE nodeStatus[n] = "SKIPPED"
    BY <2>1, <2>3 DEF RowOK, IsNodeSkippable, IsInactive, EndedWell
  <2> QED BY <2>2, <2>3 DEF EndedWell
<1>2. TerminalKey \in S /\ S \in SUBSET Nodes
  OBVIOUS
<1> HIDE DEF S
<1>3. S = Nodes
  BY <1>1, <1>2, ClosedIsAll
<1> QED BY <1>3 DEF S, AllEndedWell

(* A path is left open at every node, so one leads to the terminal node:    *)
(* the branch of the code for a skipped terminal node is never taken.       *)
LEMMA TerminalNotSkipped ==
  ASSUME IInv
  PROVE  nodeStatus[TerminalKey] # "SKIPPED"
<1> SUFFICES ASSUME nodeStatus[TerminalKey] = "SKIPPED" PROVE FALSE
  OBVIOUS
<1> DEFINE B == {n \in Nodes : nodeStatus[n] = "SUCCEEDED"}
<1>1. \A n \in Nodes : nodeStatus[n] \in {"SUCCEEDED", "SKIPPED"} /\ RowOK(n)
  BY TerminalEndsLast DEF EndedWell, AllEndedWell, IInv
<1>2. PICK root \in Nodes : Predecessors[root] = {}
  <2>1. PICK root \in Nodes : Predecessors[root] \cap Nodes = {}
    BY DEF IsAcyclic
  <2> QED BY <2>1
<1>3. root \in B
  BY <1>1, <1>2 DEF RowOK, IsNodeSkippable
<1>4. PICK n \in B : Successors(n) \cap B = {}
  BY <1>3 DEF IsAcyclic
<1>5. n \in Nodes /\ n # TerminalKey /\ Successors(n) \subseteq Nodes
  BY <1>4 DEF Successors
<1>6. PICK m \in Successors(n) : NodeType[n] = "BRANCH" => m = selectedTargetKey[n]
  BY <1>1, <1>4, <1>5 DEF RowOK
<1>7. m \in Nodes /\ n \in Predecessors[m] /\ nodeStatus[m] = "SKIPPED"
  BY <1>1, <1>4, <1>5, <1>6 DEF Successors
<1>8. IsInactive(n, m)
  BY <1>1, <1>7 DEF RowOK, IsNodeSkippable
<1> QED BY <1>4, <1>6, <1>8 DEF IsInactive

LEMMA PassMoves ==
  ASSUME IInv, NEW p \in Passes, NEW s \in PassStates, PassOK(s),
         pass' = [pass EXCEPT ![p] = s], workflowStatus' \in WSM!WorkflowRunStates,
         UNCHANGED workflowStatus \/ VerdictMatchesNodes',
         UNCHANGED <<nodeVars, childVars, suspension, task, faults>>
  PROVE  IInv' /\ Grows
<1>1. TypeOK'
  BY DEF IInv, TypeOK, nodeVars, childVars
<1>2. pass'[p] = s /\ \A q \in Passes \ {p} : pass'[q] = pass[q]
  BY DEF IInv, TypeOK
<1>3. PassOK(pass[p])'
  BY <1>2, SameRows, VerdictStable DEF PassOK
<1> QED BY <1>1, <1>2, <1>3, SameRows, StepOK

LEMMA ControlOK ==
  ASSUME IInv, NEW p \in Passes,
         Tick(p) \/ Advance(p) \/ FailFast(p) \/ Conclude(p)
  PROVE  IInv' /\ Grows
<1> USE DEF PassStates, PassOK, Verdicts, WSM!WorkflowRunStates
<1>0. pass[p] \in PassStates /\ PassOK(pass[p]) /\ workflowStatus \in WSM!WorkflowRunStates
  BY DEF IInv, TypeOK
<1>1. CASE Tick(p)
  <2>1. [pass[p] EXCEPT !.at = "list"] \in PassStates /\ PassOK([pass[p] EXCEPT !.at = "list"])
    BY <1>0
  <2>2. pass' = [pass EXCEPT ![p] = [pass[p] EXCEPT !.at = "list"]]
    BY <1>1 DEF Tick, IInv, TypeOK
  <2> QED BY <1>0, <1>1, <2>1, <2>2, PassMoves DEF Tick
<1>2. CASE Advance(p)
  <2> DEFINE s == IF WorkflowEnded
                    THEN Idle
                    ELSE [pass[p] EXCEPT !.at = "list", !.phase = NextPhase[@]]
  <2>1. NextPhase[pass[p].phase] \in Phases
    BY <1>0 DEF Phases, NextPhase
  <2>2. s \in PassStates /\ PassOK(s)
    <3>1. PICK phase \in Phases : phase = NextPhase[pass[p].phase]
      BY <2>1
    <3>2. CASE WorkflowEnded
      BY <3>2, IdleOK
    <3>3. CASE ~WorkflowEnded
      BY <1>0, <3>1, <3>3
    <3> QED BY <3>2, <3>3
  <2>3. pass' = [pass EXCEPT ![p] = s]
    BY <1>2 DEF Advance
  <2> HIDE DEF s, PassStates, PassOK
  <2> QED BY <1>0, <1>2, <2>2, <2>3, PassMoves DEF Advance
<1>3. CASE FailFast(p)
  <2> DEFINE s == IF HasFailedNode
                    THEN [pass[p] EXCEPT !.at = "reload", !.verdict = "FAILED"]
                    ELSE [pass[p] EXCEPT !.at = "work"]
  <2>1. s \in PassStates /\ PassOK(s)
    BY <1>0
  <2>2. pass' = [pass EXCEPT ![p] = s]
    BY <1>3 DEF FailFast
  <2> HIDE DEF s, PassStates, PassOK
  <2> QED BY <1>0, <1>3, <2>1, <2>2, PassMoves DEF FailFast
<1>4. CASE Conclude(p)
  <2> DEFINE s == [pass[p] EXCEPT !.at = "reload", !.verdict = DerivedStatus]
  <2>1. /\ DerivedStatus \in Verdicts
        /\ DerivedStatus = "SUCCEEDED" => AllEndedWell
        /\ DerivedStatus = "FAILED" => HasFailedNode
    BY TerminalEndsLast, TerminalNotSkipped DEF DerivedStatus, EndedWell
  <2>2. s \in PassStates /\ PassOK(s)
    BY <1>0, <2>1
  <2>3. pass' = [pass EXCEPT ![p] = s]
    BY <1>4 DEF Conclude, IInv, TypeOK
  <2> HIDE DEF s, PassStates, PassOK
  <2> QED BY <1>0, <1>4, <2>2, <2>3, PassMoves DEF Conclude
<1> QED BY <1>1, <1>2, <1>3, <1>4

LEMMA VerdictOK ==
  ASSUME IInv, NEW p \in Passes, ReloadWorkflow(p) \/ WriteWorkflow(p)
  PROVE  IInv' /\ Grows
<1> USE DEF PassStates, PassOK, Verdicts, WSM!WorkflowRunStates
<1>0. pass[p] \in PassStates /\ PassOK(pass[p]) /\ workflowStatus \in WSM!WorkflowRunStates
  BY DEF IInv, TypeOK
<1>1. CASE ReloadWorkflow(p)
  <2> DEFINE s == IF WorkflowEnded \/ workflowStatus = pass[p].verdict
                    THEN Idle
                    ELSE [pass[p] EXCEPT !.at = "write", !.expected = workflowStatus]
  <2>1. s \in PassStates /\ PassOK(s)
    <3>1. CASE WorkflowEnded \/ workflowStatus = pass[p].verdict
      BY <3>1, IdleOK
    <3>2. CASE ~(WorkflowEnded \/ workflowStatus = pass[p].verdict)
      <4>1. workflowStatus \in {"PENDING", "RUNNING", "WAITING"}
        BY <1>0, <3>2 DEF WorkflowEnded
      <4> QED BY <1>0, <1>1, <3>2, <4>1 DEF ReloadWorkflow
    <3> QED BY <3>1, <3>2
  <2>2. pass' = [pass EXCEPT ![p] = s]
    BY <1>1 DEF ReloadWorkflow
  <2> HIDE DEF s, PassStates, PassOK
  <2> QED BY <1>0, <1>1, <2>1, <2>2, PassMoves DEF ReloadWorkflow
<1>2. CASE WriteWorkflow(p)
  <2> DEFINE viaRunning == pass[p].verdict = "SUCCEEDED" /\ pass[p].expected = "PENDING"
             matches    == workflowStatus = pass[p].expected
             s == IF matches /\ viaRunning THEN [pass[p] EXCEPT !.expected = "RUNNING"] ELSE Idle
  <2>1. s \in PassStates /\ PassOK(s)
    BY <1>0, <1>2, IdleOK DEF WriteWorkflow
  <2>2. pass' = [pass EXCEPT ![p] = s]
    BY <1>2 DEF WriteWorkflow
  <2>3. workflowStatus' \in WSM!WorkflowRunStates
    BY <1>0, <1>2 DEF WriteWorkflow, WSM!TerminalWorkflowRunStates
  <2>4. UNCHANGED workflowStatus \/ VerdictMatchesNodes'
    BY <1>0, <1>2 DEF WriteWorkflow, VerdictMatchesNodes, AllEndedWell, EndedWell,
         HasFailedNode, nodeVars
  <2> HIDE DEF s, PassStates, PassOK
  <2> QED BY <1>2, <2>1, <2>2, <2>3, <2>4, PassMoves DEF WriteWorkflow
<1> QED BY <1>1, <1>2

(* The nodes a phase picks are ready for what their tasks do first. *)
LEMMA ListedOK ==
  ASSUME IInv, NEW phase \in Phases, NEW n \in Nodes, IsPicked(phase, n),
         UNCHANGED <<nodeVars, childVars, suspension>>,
         NEW t, t = NewTask(phase, n)
  PROVE  t \in Tasks /\ TaskOK(t, n)'
<1> USE DEF Absent, WSM!Absent
<1>1. nodeStatus[n] \in WSM!WorkflowNodeRunStates \cup {Absent} /\ InputForNode(n) \in SUBSET Nodes
  BY DEF IInv, TypeOK, InputForNode
<1>2. RowOK(n) /\ RowOK(n)' /\ Grows
  BY SameRows DEF IInv
<1>3. FirstStep(phase, n) \in Steps
  BY <1>1 DEF FirstStep, StepOnRow, Steps, IsTerminalRow,
          WSM!TerminalWorkflowNodeRunStates, WSM!WorkflowNodeRunStates
<1>4. /\ t \in Tasks
      /\ t.step = FirstStep(phase, n)
      /\ t.row = nodeStatus[n]
      /\ t.input = InputForNode(n)
  BY <1>1, <1>3 DEF NewTask, NoTask, Tasks
<1>5. CASE phase \in SkipPhases
  <2>1. t.step = "skip" /\ IsNodeSkippable(n) /\ nodeStatus[n] \in {Absent, "PENDING"}
    BY <1>4, <1>5 DEF IsPicked, IsToSkip, SkipPhases, FirstStep
  <2>2. nodeStatus[n] = Absent
    BY <1>2, <2>1 DEF RowOK, Activated, ActivatedRow
  <2>3. TaskOK(t, n)
    BY <1>4, <2>1, <2>2 DEF TaskOK, SuspensionSteps, StartedSteps, AttachedSteps,
                            RunSteps, AgentSteps
  <2> QED BY <1>2, <1>4, <2>3, TaskStable
<1>6. CASE phase \in {"observeApprovals", "observeWaits"}
  <2>1. t.step = "observe" /\ nodeStatus[n] = "WAITING" /\ NodeType[n] \in SuspensionTypes
    BY <1>4, <1>6 DEF IsPicked, IsSuspended, SkipPhases, FirstStep, SuspensionTypes
  <2>2. TaskOK(t, n)
    BY <2>1 DEF TaskOK, SuspensionSteps, StartedSteps, AttachedSteps, RunSteps, AgentSteps
  <2> QED BY <1>2, <1>4, <2>2, TaskStable
<1>7. CASE phase \notin SkipPhases \cup {"observeApprovals", "observeWaits"}
  <2>1. t.step = StepOnRow(n, t.row)
    BY <1>4, <1>7 DEF FirstStep
  <2>2. CASE nodeStatus[n] = Absent
    <3>1. t.step = "materialize" /\ IsNodeReady(n)
      BY <1>4, <1>7, <2>1, <2>2 DEF StepOnRow, IsPicked, IsActiveAgent, IsSuspended
    <3>2. \A q \in Predecessors[n] : nodeStatus[q] # "CANCELLED"
      BY DEF IInv, RowOK
    <3>3. Activated(n)
      BY <3>1, <3>2 DEF IsNodeReady, JoinReady, Activated, EndedWell
    <3>4. TaskOK(t, n)
      BY <1>4, <3>1, <3>3 DEF TaskOK, SuspensionSteps, StartedSteps, AttachedSteps,
                              RunSteps, AgentSteps
    <3> QED BY <1>2, <1>4, <3>4, TaskStable
  <2>3. CASE nodeStatus[n] # Absent
    <3>1. ~IsTerminalRow(nodeStatus[n])
      BY <1>7 DEF IsPicked, IsActiveAgent, IsSuspended, IsNodeReady, IsTerminalRow,
                  WSM!TerminalWorkflowNodeRunStates
    <3>2. ActivatedRow(nodeStatus[n])
      BY <2>3, <3>1 DEF ActivatedRow, IsTerminalRow, WSM!TerminalWorkflowNodeRunStates
    <3>3. nodeStatus' = nodeStatus
      BY DEF nodeVars
    <3> QED BY <1>1, <1>2, <1>4, <2>1, <2>3, <3>2, <3>3, LiveStepOK DEF ActivatedRow
  <2> QED BY <2>2, <2>3
<1> QED BY <1>5, <1>6, <1>7

LEMMA ListNodesOK ==
  ASSUME IInv, NEW p \in Passes, ListNodes(p)
  PROVE  IInv' /\ Grows
<1> DEFINE phase == pass[p].phase
           picked == {n \in Nodes : IsPicked(phase, n)}
           tasks == [n \in Nodes |-> IF n \in picked THEN NewTask(phase, n) ELSE NoTask]
<1>1. pass[p] \in PassStates /\ phase \in Phases
  BY DEF IInv, TypeOK, PassStates
<1>2. task' = [task EXCEPT ![p] = tasks]
      /\ UNCHANGED <<workflowStatus, nodeVars, childVars, suspension, faults>>
  BY DEF ListNodes
<1>3. ASSUME NEW n \in Nodes, NEW t, t = tasks[n]
      PROVE  t \in Tasks /\ TaskOK(t, n)'
  <2>1. CASE n \in picked
    <3>1. t = NewTask(phase, n)
      BY <1>3, <2>1
    <3> QED BY <1>1, <1>2, <2>1, <3>1, ListedOK
  <2>2. CASE n \notin picked
    BY <1>3, <2>2, NoTaskOK, NoTaskOKNext
  <2> QED BY <2>1, <2>2
<1> HIDE DEF tasks
<1>4. tasks \in [Nodes -> Tasks]
  BY <1>3 DEF tasks
<1>5. task' \in [Passes -> [Nodes -> Tasks]]
  BY <1>2, <1>4 DEF IInv, TypeOK
<1>6. \A q \in Passes, n \in Nodes : task'[q][n] = task[q][n] \/ TaskOK(task[q][n], n)'
  <2> SUFFICES ASSUME NEW q \in Passes, NEW n \in Nodes, q = p
               PROVE  TaskOK(task[q][n], n)'
    BY <1>2 DEF IInv, TypeOK
  <2>1. PICK t : t = tasks[n]
    OBVIOUS
  <2>2. task'[q][n] = t
    BY <1>2, <2>1 DEF IInv, TypeOK
  <2>3. TaskOK(t, n)'
    BY <1>3, <2>1
  <2> QED BY <2>2, <2>3 DEF TaskOK
<1> DEFINE s == [pass[p] EXCEPT !.at = "work",
                                !.phase = IF phase = "resolve" /\ picked = {}
                                            THEN "resolved" ELSE phase]
<1>7. s \in PassStates /\ s.at = "work"
  BY <1>1 DEF PassStates, Phases, NextPhase
<1>8. pass' = [pass EXCEPT ![p] = s]
  BY DEF ListNodes, IInv, TypeOK
<1> HIDE DEF s
<1>9. pass' \in [Passes -> PassStates] /\ \A q \in Passes : pass'[q] = pass[q] \/ PassOK(pass[q])'
  BY <1>7, <1>8 DEF IInv, TypeOK, PassOK
<1>10. TypeOK'
  BY <1>2, <1>5, <1>9 DEF IInv, TypeOK, nodeVars, childVars
<1> QED BY <1>2, <1>6, <1>9, <1>10, SameRows, StepOK

-----------------------------------------------------------------------------
(* Tasks: node rows. *)

(* A step that writes the rows of one node. *)
LEMMA NodeStepOK ==
  ASSUME IInv, Grows, TypeOK', TasksOK, NEW n \in Nodes, RowOK(n)', EarnedOK(n)',
         UNCHANGED workflowStatus,
         \A m \in Nodes \ {n} : /\ nodeStatus'[m] = nodeStatus[m]
                                /\ nodeInput'[m] = nodeInput[m]
                                /\ childRunId'[m] = childRunId[m]
                                /\ childStatus'[m] = childStatus[m]
                                /\ suspension'[m] = suspension[m]
  PROVE  IInv' /\ Grows
<1>1. \A m \in Nodes \ {n} : RowOK(m)'
  BY RowStable DEF IInv
<1>2. \A m \in Nodes \ {n} : EarnedOK(m)'
  BY DEF IInv, EarnedOK, Absent, WSM!Absent
<1>3. \A m \in Nodes : RowOK(m)' /\ EarnedOK(m)'
  BY <1>1, <1>2
<1> QED BY <1>3, StepOK DEF TasksOK

(* What the invariant says of the task that acts. *)
LEMMA TaskFacts ==
  ASSUME IInv, NEW p \in Passes, NEW n \in Nodes
  PROVE  /\ TypeOK
         /\ task[p][n] \in Tasks
         /\ TaskOK(task[p][n], n)
         /\ RowOK(n)
         /\ EarnedOK(n)
         /\ nodeStatus[n] \in WSM!WorkflowNodeRunStates \cup {Absent}
  BY DEF IInv, TypeOK

LEMMA MaterializeOK ==
  ASSUME IInv, NEW p \in Passes, NEW n \in Nodes, MaterializeNodeRun(p, n)
  PROVE  IInv' /\ Grows
<1> USE DEF Absent, WSM!Absent
<1>1. PICK t \in Tasks : t = task[p][n]
  BY TaskFacts
<1>2. TaskOK(t, n) /\ t.step = "materialize" /\ TypeOK /\ RowOK(n) /\ EarnedOK(n)
  BY <1>1, TaskFacts DEF MaterializeNodeRun
<1>3. Activated(n) /\ t.input = InputForNode(n) /\ t.input \in SUBSET Nodes
  BY <1>2 DEF TaskOK, Tasks
<1>4. /\ InsertNode(n, "PENDING", t.input)
      /\ UNCHANGED <<workflowStatus, selectedTargetKey, childVars, suspension, faults>>
  BY <1>1 DEF MaterializeNodeRun
<1>5. /\ nodeStatus' \in [Nodes -> WSM!WorkflowNodeRunStates \cup {Absent}]
      /\ nodeInput' \in [Nodes -> SUBSET Nodes]
      /\ \A m \in Nodes \ {n} : nodeStatus'[m] = nodeStatus[m] /\ nodeInput'[m] = nodeInput[m]
      /\ nodeStatus[n] = Absent => nodeStatus'[n] = "PENDING" /\ nodeInput'[n] = t.input
      /\ nodeStatus[n] # Absent =>
           nodeStatus'[n] = nodeStatus[n] /\ nodeInput'[n] = nodeInput[n]
  BY <1>2, <1>3, <1>4 DEF InsertNode, TypeOK, WSM!WorkflowNodeRunStates
<1>6. Grows
  BY <1>4, <1>5 DEF Grows, StatusGrows, childVars
<1>7. RowOK(n)' /\ ActivatedRow(nodeStatus[n])'
  <2>1. CASE nodeStatus[n] = Absent
    BY <1>3, <1>5, <1>6, <2>1, ActivatedStable DEF RowOK, ActivatedRow
  <2>2. CASE nodeStatus[n] # Absent
    <3>1. RowOK(n)'
      BY <1>2, <1>5, <1>6, <2>2, RowStable
    <3>2. nodeStatus[n] # "SKIPPED"
      BY <1>2, <1>3 DEF RowOK, Activated
    <3> QED BY <1>5, <2>2, <3>1, <3>2 DEF ActivatedRow
  <2> QED BY <2>1, <2>2
<1>8. EarnedOK(n)'
  BY <1>2, <1>4, <1>5 DEF EarnedOK, childVars
<1>9. nodeStatus'[n] \in WSM!WorkflowNodeRunStates
  BY <1>5, <1>7 DEF ActivatedRow
<1>10. PICK u : u = [t EXCEPT !.row = nodeStatus'[n], !.step = StepOnRow(n, nodeStatus'[n])]
  OBVIOUS
<1>11. u \in Tasks /\ u.row = nodeStatus'[n] /\ u.step = StepOnRow(n, u.row)
  BY <1>7, <1>9, <1>10 DEF Tasks, Steps, StepOnRow, ActivatedRow, IsTerminalRow,
       WSM!TerminalWorkflowNodeRunStates, WSM!WorkflowNodeRunStates
<1>12. TaskOK(u, n)'
  BY <1>7, <1>9, <1>11, LiveStepOK
<1>13. Continue(p, n, u)
  BY <1>1, <1>10 DEF MaterializeNodeRun, Continue
<1>14. TasksOK
  BY <1>2, <1>11, <1>12, <1>13, ContinueOK
<1>15. TypeOK'
  BY <1>2, <1>4, <1>5, <1>14 DEF TypeOK, TasksOK, childVars
<1> QED BY <1>4, <1>5, <1>6, <1>7, <1>8, <1>14, <1>15, NodeStepOK DEF childVars

LEMMA TransitionFacts ==
  ASSUME TypeOK, NEW n \in Nodes, NEW expected, NEW target \in WSM!WorkflowNodeRunStates,
         StatusGrows(expected, target), TransitionNode(n, expected, target)
  PROVE  /\ nodeStatus' \in [Nodes -> WSM!WorkflowNodeRunStates \cup {Absent}]
         /\ \A m \in Nodes \ {n} : nodeStatus'[m] = nodeStatus[m]
         /\ \A m \in Nodes : StatusGrows(nodeStatus[m], nodeStatus'[m])
         /\ nodeStatus[n] = expected => nodeStatus'[n] = target
         /\ nodeStatus[n] # expected => nodeStatus'[n] = nodeStatus[n]
<1>1. /\ nodeStatus' \in [Nodes -> WSM!WorkflowNodeRunStates \cup {Absent}]
      /\ \A m \in Nodes \ {n} : nodeStatus'[m] = nodeStatus[m]
      /\ nodeStatus[n] = expected => nodeStatus'[n] = target
      /\ nodeStatus[n] # expected => nodeStatus'[n] = nodeStatus[n]
  BY DEF TransitionNode, TypeOK
<1>2. \A m \in Nodes : StatusGrows(nodeStatus[m], nodeStatus'[m])
  <2> SUFFICES ASSUME NEW m \in Nodes PROVE StatusGrows(nodeStatus[m], nodeStatus'[m])
    OBVIOUS
  <2>1. CASE m = n /\ nodeStatus[n] = expected
    BY <1>1, <2>1
  <2>2. CASE ~(m = n /\ nodeStatus[n] = expected)
    BY <1>1, <2>2 DEF StatusGrows
  <2> QED BY <2>1, <2>2
<1> QED BY <1>1, <1>2

LEMMA ActivateOK ==
  ASSUME IInv, NEW p \in Passes, NEW n \in Nodes, ActivateNode(p, n)
  PROVE  IInv' /\ Grows
<1> USE DEF Absent, WSM!Absent
<1> DEFINE target == IF NodeType[n] \in SuspensionTypes THEN "WAITING" ELSE "RUNNING"
<1>1. PICK t \in Tasks : t = task[p][n]
  BY TaskFacts
<1>2. TaskOK(t, n) /\ t.step = "activate" /\ TypeOK /\ RowOK(n) /\ EarnedOK(n)
  BY <1>1, TaskFacts DEF ActivateNode
<1>3. NodeType[n] # "AGENT" /\ ActivatedRow(nodeStatus[n])
  BY <1>2 DEF TaskOK
<1>4. /\ TransitionNode(n, "PENDING", target)
      /\ UNCHANGED <<workflowStatus, nodeInput, selectedTargetKey, childVars,
                     suspension, faults>>
  BY <1>1 DEF ActivateNode
<1>5. target \in WSM!WorkflowNodeRunStates /\ StatusGrows("PENDING", target)
  BY DEF StatusGrows, WSM!WorkflowNodeRunStates
<1>6. /\ nodeStatus' \in [Nodes -> WSM!WorkflowNodeRunStates \cup {Absent}]
      /\ \A m \in Nodes \ {n} : nodeStatus'[m] = nodeStatus[m]
      /\ \A m \in Nodes : StatusGrows(nodeStatus[m], nodeStatus'[m])
      /\ nodeStatus[n] = "PENDING" => nodeStatus'[n] = target
      /\ nodeStatus[n] # "PENDING" => nodeStatus'[n] = nodeStatus[n]
  BY <1>2, <1>4, <1>5, TransitionFacts
<1>7. Grows
  BY <1>4, <1>6 DEF Grows, childVars
<1>8. RowOK(n)' /\ ActivatedRow(nodeStatus[n])' /\ EarnedOK(n)'
  <2>1. CASE nodeStatus[n] = "PENDING"
    <3>1. RowOK(n)'
      BY <1>2, <1>3, <1>4, <1>6, <1>7, <2>1, RowMoves
    <3> QED BY <1>2, <1>3, <1>4, <1>6, <2>1, <3>1 DEF ActivatedRow, EarnedOK, childVars
  <2>2. CASE nodeStatus[n] # "PENDING"
    <3>1. RowOK(n)'
      BY <1>2, <1>4, <1>6, <1>7, <2>2, RowStable
    <3> QED BY <1>2, <1>3, <1>4, <1>6, <2>2, <3>1 DEF ActivatedRow, EarnedOK, childVars
  <2> QED BY <2>1, <2>2
<1>9. nodeStatus'[n] \in WSM!WorkflowNodeRunStates
  BY <1>6, <1>8 DEF ActivatedRow
<1>10. PICK u : u = [t EXCEPT !.row = nodeStatus'[n], !.step = StepOnRow(n, nodeStatus'[n])]
  OBVIOUS
<1>11. u \in Tasks /\ u.row = nodeStatus'[n] /\ u.step = StepOnRow(n, u.row)
  BY <1>8, <1>9, <1>10 DEF Tasks, Steps, StepOnRow, ActivatedRow, IsTerminalRow,
       WSM!TerminalWorkflowNodeRunStates, WSM!WorkflowNodeRunStates
<1>12. TaskOK(u, n)'
  BY <1>8, <1>9, <1>11, LiveStepOK
<1>13. Continue(p, n, u)
  BY <1>1, <1>10 DEF ActivateNode, Continue
<1>14. TasksOK
  BY <1>2, <1>11, <1>12, <1>13, ContinueOK
<1>15. TypeOK'
  BY <1>2, <1>4, <1>6, <1>14 DEF TypeOK, TasksOK, childVars
<1> QED BY <1>4, <1>6, <1>7, <1>8, <1>14, <1>15, NodeStepOK DEF childVars

LEMMA ResolveOK ==
  ASSUME IInv, NEW p \in Passes, NEW n \in Nodes, ResolveOrchestrationNode(p, n)
  PROVE  IInv' /\ Grows
<1> USE DEF Absent, WSM!Absent
<1>1. TaskOK(task[p][n], n) /\ task[p][n].step = "resolve" /\ TypeOK /\ RowOK(n) /\ EarnedOK(n)
  BY TaskFacts DEF ResolveOrchestrationNode
<1>2. NodeType[n] \in OrchestrationTypes
  BY <1>1 DEF TaskOK
<1>3. /\ TransitionNode(n, "RUNNING", "SUCCEEDED")
      /\ UNCHANGED <<workflowStatus, nodeInput, childVars, suspension, faults>>
  BY DEF ResolveOrchestrationNode
<1>4. StatusGrows("RUNNING", "SUCCEEDED") /\ "SUCCEEDED" \in WSM!WorkflowNodeRunStates
  BY DEF StatusGrows, WSM!WorkflowNodeRunStates, WSM!TerminalWorkflowNodeRunStates
<1>5. /\ nodeStatus' \in [Nodes -> WSM!WorkflowNodeRunStates \cup {Absent}]
      /\ \A m \in Nodes \ {n} : nodeStatus'[m] = nodeStatus[m]
      /\ \A m \in Nodes : StatusGrows(nodeStatus[m], nodeStatus'[m])
      /\ nodeStatus[n] = "RUNNING" => nodeStatus'[n] = "SUCCEEDED"
      /\ nodeStatus[n] # "RUNNING" => nodeStatus'[n] = nodeStatus[n]
  BY <1>1, <1>3, <1>4, TransitionFacts
<1>6. /\ selectedTargetKey' \in [Nodes -> Nodes \cup {None}]
      /\ \A m \in Nodes : m # n \/ nodeStatus[n] # "RUNNING" =>
                            selectedTargetKey'[m] = selectedTargetKey[m]
      /\ NodeType[n] = "BRANCH" /\ nodeStatus[n] = "RUNNING" =>
           selectedTargetKey'[n] \in Successors(n)
  BY <1>1 DEF ResolveOrchestrationNode, Successors, TypeOK
<1>7. Grows
  BY <1>3, <1>5, <1>6 DEF Grows, childVars, EndedWell
<1>8. RowOK(n)'
  BY <1>1, <1>3, <1>5, <1>6, <1>7, RowMoves, RowStable DEF ActivatedRow
<1>9. EarnedOK(n)'
  BY <1>1, <1>2, <1>3, <1>5
     DEF EarnedOK, childVars, OrchestrationTypes, SuspensionTypes
<1>10. TasksOK
  BY <1>1, DoneOK DEF ResolveOrchestrationNode
<1>11. TypeOK'
  BY <1>1, <1>3, <1>5, <1>6, <1>10 DEF TypeOK, TasksOK, childVars
<1> QED BY <1>3, <1>5, <1>7, <1>8, <1>9, <1>10, <1>11, NodeStepOK DEF childVars

LEMMA SkipOK ==
  ASSUME IInv, NEW p \in Passes, NEW n \in Nodes, SkipNode(p, n)
  PROVE  IInv' /\ Grows
<1> USE DEF Absent, WSM!Absent
<1>1. PICK t \in Tasks : t = task[p][n]
  BY TaskFacts
<1>2. TaskOK(t, n) /\ t.step = "skip" /\ TypeOK /\ RowOK(n) /\ EarnedOK(n)
  BY <1>1, TaskFacts DEF SkipNode
<1>3. /\ IsNodeSkippable(n) /\ t.row = Absent
      /\ t.input = InputForNode(n) /\ t.input \in SUBSET Nodes
  BY <1>2 DEF TaskOK, Tasks
<1>4. /\ InsertNode(n, "SKIPPED", t.input)
      /\ UNCHANGED <<workflowStatus, selectedTargetKey, childVars, suspension, faults>>
  BY <1>1, <1>3 DEF SkipNode
<1>5. /\ nodeStatus' \in [Nodes -> WSM!WorkflowNodeRunStates \cup {Absent}]
      /\ nodeInput' \in [Nodes -> SUBSET Nodes]
      /\ \A m \in Nodes \ {n} : nodeStatus'[m] = nodeStatus[m] /\ nodeInput'[m] = nodeInput[m]
      /\ nodeStatus[n] = Absent => nodeStatus'[n] = "SKIPPED" /\ nodeInput'[n] = t.input
      /\ nodeStatus[n] # Absent =>
           nodeStatus'[n] = nodeStatus[n] /\ nodeInput'[n] = nodeInput[n]
  BY <1>2, <1>3, <1>4 DEF InsertNode, TypeOK, WSM!WorkflowNodeRunStates,
       WSM!TerminalWorkflowNodeRunStates
<1>6. Grows
  BY <1>4, <1>5 DEF Grows, StatusGrows, childVars
<1>7. RowOK(n)'
  <2>1. CASE nodeStatus[n] = Absent
    BY <1>3, <1>5, <1>6, <2>1, SkippableStable DEF RowOK, ActivatedRow
  <2>2. CASE nodeStatus[n] # Absent
    BY <1>2, <1>5, <1>6, <2>2, RowStable
  <2> QED BY <2>1, <2>2
<1>8. EarnedOK(n)'
  BY <1>2, <1>4, <1>5 DEF EarnedOK, childVars
<1>9. TasksOK
  BY <1>2, DoneOK DEF SkipNode
<1>10. TypeOK'
  BY <1>2, <1>4, <1>5, <1>9 DEF TypeOK, TasksOK, childVars
<1> QED BY <1>4, <1>5, <1>6, <1>7, <1>8, <1>9, <1>10, NodeStepOK DEF childVars

LEMMA ArmOK ==
  ASSUME IInv, NEW p \in Passes, NEW n \in Nodes,
         EnsureApprovalRequest(p, n) \/ EnsureWorkflowWait(p, n)
  PROVE  IInv' /\ Grows
<1> USE DEF Absent, WSM!Absent
<1>1. TaskOK(task[p][n], n) /\ task[p][n].step = "arm" /\ TypeOK /\ RowOK(n) /\ EarnedOK(n)
  BY TaskFacts DEF EnsureApprovalRequest, EnsureWorkflowWait
<1>2. nodeStatus[n] \in {"WAITING", "SUCCEEDED", "FAILED"}
  BY <1>1 DEF TaskOK, SuspensionSteps
<1>3. /\ OpenSuspension(n) \/ UNCHANGED suspension
      /\ UNCHANGED <<workflowStatus, nodeVars, childVars, faults>>
  BY DEF EnsureApprovalRequest, EnsureWorkflowWait
<1>4. /\ suspension' \in [Nodes -> {"absent", "open", "satisfied", "refused"}]
      /\ \A m \in Nodes \ {n} : suspension'[m] = suspension[m]
      /\ suspension[n] # "absent" => suspension'[n] = suspension[n]
  BY <1>1, <1>3 DEF OpenSuspension, TypeOK
<1>5. Grows
  BY <1>3 DEF Grows, StatusGrows, nodeVars, childVars
<1>6. RowOK(n)'
  BY <1>1, <1>3, <1>5, RowStable DEF nodeVars
<1>7. EarnedOK(n)'
  BY <1>1, <1>2, <1>3, <1>4 DEF EarnedOK, nodeVars, childVars
<1>8. TasksOK
  BY <1>1, DoneOK, ThrowOK DEF EnsureApprovalRequest, EnsureWorkflowWait
<1>9. TypeOK'
  BY <1>1, <1>3, <1>4, <1>8 DEF TypeOK, TasksOK, nodeVars, childVars
<1> QED BY <1>3, <1>4, <1>5, <1>6, <1>7, <1>8, <1>9, NodeStepOK DEF nodeVars, childVars

LEMMA ObserveOK ==
  ASSUME IInv, NEW p \in Passes, NEW n \in Nodes,
         ObserveApprovalDecision(p, n) \/ ObserveResolvedWait(p, n)
  PROVE  IInv' /\ Grows
<1> USE DEF Absent, WSM!Absent
<1>1. TaskOK(task[p][n], n) /\ task[p][n].step = "observe" /\ TypeOK /\ RowOK(n) /\ EarnedOK(n)
  BY TaskFacts DEF ObserveApprovalDecision, ObserveResolvedWait
<1>2. NodeType[n] \in SuspensionTypes /\ nodeStatus[n] \in {"WAITING", "SUCCEEDED", "FAILED"}
  BY <1>1 DEF TaskOK, SuspensionSteps
<1>3. /\ FollowSuspension(n)
      /\ UNCHANGED <<workflowStatus, nodeInput, selectedTargetKey, childVars,
                     suspension, faults>>
  BY DEF ObserveApprovalDecision, ObserveResolvedWait
<1>4. /\ nodeStatus' \in [Nodes -> WSM!WorkflowNodeRunStates \cup {Absent}]
      /\ \A m \in Nodes \ {n} : nodeStatus'[m] = nodeStatus[m]
      /\ \/ nodeStatus'[n] = nodeStatus[n]
         \/ /\ nodeStatus[n] = "WAITING" /\ suspension[n] = "satisfied"
            /\ nodeStatus'[n] = "SUCCEEDED"
         \/ /\ nodeStatus[n] = "WAITING" /\ suspension[n] = "refused"
            /\ nodeStatus'[n] = "FAILED"
  BY <1>1, <1>3 DEF FollowSuspension, TransitionNode, TypeOK, WSM!WorkflowNodeRunStates,
       WSM!TerminalWorkflowNodeRunStates
<1>5. Grows
  BY <1>3, <1>4 DEF Grows, StatusGrows, childVars
<1>6. RowOK(n)'
  BY <1>1, <1>2, <1>3, <1>4, <1>5, RowMoves, RowStable DEF ActivatedRow, SuspensionTypes
<1>7. EarnedOK(n)'
  BY <1>1, <1>2, <1>3, <1>4 DEF EarnedOK, childVars, SuspensionTypes
<1>8. TasksOK
  BY <1>1, DoneOK DEF ObserveApprovalDecision, ObserveResolvedWait
<1>9. TypeOK'
  BY <1>1, <1>3, <1>4, <1>8 DEF TypeOK, TasksOK, childVars
<1> QED BY <1>3, <1>4, <1>5, <1>6, <1>7, <1>8, <1>9, NodeStepOK DEF childVars

-----------------------------------------------------------------------------
(* Tasks: the child Run of an AGENT node. *)

(* A step that changes no row but that of the child Run of n, and its name  *)
(* in the node row: an ended Run stays as it is.                            *)
ChildWrite(n) ==
  /\ UNCHANGED <<agentUnchanged, nodeStatus>>
  /\ childRunId' \in [Nodes -> BOOLEAN]
  /\ childStatus' \in [Nodes -> RunStates \cup {Absent}]
  /\ job' \in [Nodes -> BOOLEAN]
  /\ faults' \in 0..MaxFaults
  /\ \A m \in Nodes \ {n} : childRunId'[m] = childRunId[m] /\ childStatus'[m] = childStatus[m]
  /\ childRunId[n] => childRunId'[n]
  /\ childRunId'[n] => childRunId[n] \/ childStatus'[n] # Absent
  /\ \/ childStatus'[n] = childStatus[n]
     \/ childStatus[n] \notin {"SUCCEEDED", "FAILED"} /\ childStatus'[n] # Absent

LEMMA ChildWriteGrows ==
  ASSUME NEW n \in Nodes, ChildWrite(n)
  PROVE  Grows
  BY DEF ChildWrite, Grows, StatusGrows, agentUnchanged, Absent, WSM!Absent

LEMMA ChildWriteOK ==
  ASSUME IInv, NEW n \in Nodes, ChildWrite(n), ActivatedRow(nodeStatus[n]), TasksOK
  PROVE  IInv' /\ Grows
<1> USE DEF Absent, WSM!Absent
<1>1. TypeOK /\ RowOK(n) /\ EarnedOK(n)
  BY DEF IInv
<1>2. Grows
  BY ChildWriteGrows
<1>3. RowOK(n)'
  BY <1>1, <1>2, RowStable DEF ChildWrite, agentUnchanged
<1>4. EarnedOK(n)'
  BY <1>1 DEF EarnedOK, ChildWrite, agentUnchanged, ActivatedRow
<1>5. TypeOK'
  BY <1>1 DEF TypeOK, TasksOK, ChildWrite, agentUnchanged
<1> QED BY <1>2, <1>3, <1>4, <1>5, NodeStepOK DEF ChildWrite, agentUnchanged

(* The task that goes on with the row it holds. *)
LEMMA AgentTaskOK ==
  ASSUME Grows, NEW n \in Nodes, NEW t \in Tasks, TaskOK(t, n), t.step \in AgentSteps,
         NEW u \in Tasks, u.row = t.row, u.step \in AgentSteps,
         u.step \in RunSteps => childStatus'[n] # Absent,
         u.step \in AttachedSteps => childRunId'[n],
         u.step \in StartedSteps => u.row # "PENDING"
  PROVE  TaskOK(u, n)'
<1>1. TaskOK(t, n)'
  BY TaskStable
<1>2. u.step \notin {"materialize", "skip", "activate", "resolve"} \cup SuspensionSteps
  BY DEF AgentSteps, RunSteps, AttachedSteps, StartedSteps, SuspensionSteps
<1> QED BY <1>1, <1>2 DEF TaskOK, Absent, WSM!Absent

LEMMA AgentFacts ==
  ASSUME IInv, NEW p \in Passes, NEW n \in Nodes, task[p][n].step \in AgentSteps
  PROVE  /\ TypeOK /\ RowOK(n) /\ EarnedOK(n)
         /\ task[p][n] \in Tasks
         /\ TaskOK(task[p][n], n)
         /\ ActivatedRow(nodeStatus[n])
         /\ childStatus \in [Nodes -> RunStates \cup {Absent}]
         /\ childRunId \in [Nodes -> BOOLEAN]
         /\ job \in [Nodes -> BOOLEAN]
         /\ faults \in 0..MaxFaults
         /\ childRunId[n] => childStatus[n] # Absent
  BY TaskFacts DEF TaskOK, IInv, TypeOK, EarnedOK

(* What StepWithRun chooses the task can rely on. *)
LEMMA WithRunOK ==
  ASSUME Grows, NEW n \in Nodes, NEW t \in Tasks, TaskOK(t, n), t.step \in AgentSteps,
         childStatus'[n] # Absent, childRunId[n] => childRunId'[n],
         NEW v \in Tasks, v.row = t.row, NEW u, u = WithRun(n, v)
  PROVE  u \in Tasks /\ TaskOK(u, n)'
<1>1. StepWithRun(n, v) \in {"attach", "markRunning"} \cup StartedSteps
  BY DEF StepWithRun, StepOnRun, StartedSteps
<1>2. u \in Tasks /\ u.row = t.row /\ u.step = StepWithRun(n, v)
  BY <1>1 DEF WithRun, Tasks, Steps, StartedSteps
<1>3. u.step \in AgentSteps
  BY <1>1, <1>2 DEF AgentSteps, RunSteps, AttachedSteps
<1>4. u.step \in AttachedSteps => childRunId[n]
  BY <1>2 DEF StepWithRun, AttachedSteps, StartedSteps
<1>5. u.step \in StartedSteps => u.row # "PENDING"
  BY <1>2 DEF StepWithRun, StartedSteps
<1> QED BY <1>2, <1>3, <1>4, <1>5, AgentTaskOK

LEMMA FindChildRunOK ==
  ASSUME IInv, NEW p \in Passes, NEW n \in Nodes, FindChildRun(p, n)
  PROVE  IInv' /\ Grows
<1> USE DEF Absent, WSM!Absent
<1>1. PICK t : t = task[p][n]
  OBVIOUS
<1>2. task[p][n] \in Tasks
  BY TaskFacts
<1>3. t.step = "findRun" /\ t.step \in AgentSteps
  BY <1>1, <1>2 DEF FindChildRun, AgentSteps, Tasks
<1>4. t \in Tasks /\ TaskOK(t, n) /\ TypeOK /\ ActivatedRow(nodeStatus[n])
      /\ childStatus[n] \in RunStates \cup {Absent}
  BY <1>1, <1>3, AgentFacts
<1>5. UNCHANGED <<agentUnchanged, nodeStatus, childVars, faults>>
  BY DEF FindChildRun
<1>6. ChildWrite(n) /\ childStatus' = childStatus /\ childRunId' = childRunId
  BY <1>1, <1>3, <1>5, AgentFacts DEF ChildWrite, childVars
<1>7. Grows
  BY <1>6, ChildWriteGrows
<1>8. PICK v : v = [t EXCEPT !.run = childStatus[n]]
  OBVIOUS
<1>9. v \in Tasks /\ v.row = t.row /\ v.step = "findRun" /\ v.run = childStatus[n]
  BY <1>3, <1>4, <1>8 DEF Tasks
<1>10. PICK u : u = IF v.run = Absent THEN [v EXCEPT !.step = "createRun"] ELSE WithRun(n, v)
  OBVIOUS
<1>11. u \in Tasks /\ TaskOK(u, n)'
  <2>1. CASE v.run = Absent
    <3>1. u \in Tasks /\ u.row = t.row /\ u.step = "createRun"
      BY <1>9, <1>10, <2>1 DEF Tasks, Steps
    <3>2. u.step \in AgentSteps \ RunSteps /\ u.step \notin AttachedSteps /\ u.step \notin StartedSteps
      BY <3>1 DEF AgentSteps, RunSteps, AttachedSteps, StartedSteps
    <3> QED BY <1>3, <1>4, <1>7, <3>1, <3>2, AgentTaskOK
  <2>2. CASE v.run # Absent
    BY <1>3, <1>4, <1>6, <1>7, <1>9, <1>10, <2>2, WithRunOK
  <2> QED BY <2>1, <2>2
<1>12. Continue(p, n, u)
  BY <1>1, <1>8, <1>10 DEF FindChildRun
<1>13. TasksOK
  BY <1>4, <1>11, <1>12, ContinueOK
<1> QED BY <1>4, <1>6, <1>13, ChildWriteOK

LEMMA CreateChildRunOK ==
  ASSUME IInv, NEW p \in Passes, NEW n \in Nodes, CreateChildRun(p, n)
  PROVE  IInv' /\ Grows
<1> USE DEF Absent, WSM!Absent
<1>1. PICK t : t = task[p][n]
  OBVIOUS
<1>2. t.step = "createRun" /\ t.step \in AgentSteps
  BY <1>1 DEF CreateChildRun, AgentSteps
<1>3. t \in Tasks /\ TaskOK(t, n) /\ TypeOK /\ ActivatedRow(nodeStatus[n])
      /\ childStatus \in [Nodes -> RunStates \cup {Absent}]
      /\ (childRunId[n] => childStatus[n] # Absent)
  BY <1>1, <1>2, AgentFacts
<1>4. /\ UNCHANGED <<agentUnchanged, nodeStatus, childRunId, job, faults>>
      /\ childStatus[n] = Absent => childStatus' = [childStatus EXCEPT ![n] = "PENDING"]
      /\ childStatus[n] # Absent => childStatus' = childStatus
  BY <1>1 DEF CreateChildRun
<1>5. childStatus' \in [Nodes -> RunStates \cup {Absent}] /\ childStatus'[n] # Absent
      /\ \A m \in Nodes \ {n} : childStatus'[m] = childStatus[m]
  BY <1>3, <1>4 DEF RunStates
<1>6. ChildWrite(n)
  BY <1>1, <1>2, <1>4, <1>5, AgentFacts DEF ChildWrite
<1>7. Grows
  BY <1>6, ChildWriteGrows
<1>8. TasksOK
  <2>1. CASE childStatus[n] = Absent
    <3>1. PICK u : u = [t EXCEPT !.step = "queueRun"]
      OBVIOUS
    <3>2. u \in Tasks /\ u.row = t.row /\ u.step = "queueRun"
      BY <1>3, <3>1 DEF Tasks, Steps
    <3>3. u.step \in AgentSteps /\ u.step \notin AttachedSteps /\ u.step \notin StartedSteps
      BY <3>2 DEF AgentSteps, RunSteps, AttachedSteps, StartedSteps
    <3>4. TaskOK(u, n)'
      BY <1>2, <1>3, <1>5, <1>7, <3>2, <3>3, AgentTaskOK
    <3>5. Continue(p, n, u)
      BY <1>1, <2>1, <3>1 DEF CreateChildRun
    <3> QED BY <1>3, <3>2, <3>4, <3>5, ContinueOK
  <2>2. CASE childStatus[n] # Absent
    <3>1. PICK v : v = [t EXCEPT !.run = childStatus[n]]
      OBVIOUS
    <3>2. v \in Tasks /\ v.row = t.row
      BY <1>3, <3>1 DEF Tasks
    <3>3. PICK u : u = WithRun(n, v)
      OBVIOUS
    <3>4. u \in Tasks /\ TaskOK(u, n)'
      BY <1>2, <1>3, <1>4, <1>5, <1>7, <3>2, <3>3, WithRunOK
    <3>5. Continue(p, n, u)
      BY <1>1, <2>2, <3>1, <3>3 DEF CreateChildRun
    <3> QED BY <1>3, <3>4, <3>5, ContinueOK
  <2> QED BY <2>1, <2>2
<1> QED BY <1>3, <1>6, <1>8, ChildWriteOK

LEMMA QueueChildRunOK ==
  ASSUME IInv, NEW p \in Passes, NEW n \in Nodes, QueueChildRun(p, n)
  PROVE  IInv' /\ Grows
<1> USE DEF Absent, WSM!Absent
<1>1. PICK t : t = task[p][n]
  OBVIOUS
<1>2. t.step = "queueRun" /\ t.step \in AgentSteps /\ t.step \in RunSteps
  BY <1>1 DEF QueueChildRun, AgentSteps, RunSteps
<1>3. t \in Tasks /\ TaskOK(t, n) /\ TypeOK /\ ActivatedRow(nodeStatus[n])
      /\ childStatus \in [Nodes -> RunStates \cup {Absent}]
  BY <1>1, <1>2, AgentFacts
<1>4. /\ UNCHANGED <<agentUnchanged, nodeStatus, childRunId, job, faults>>
      /\ \/ childStatus[n] = "PENDING" /\ childStatus' = [childStatus EXCEPT ![n] = "QUEUED"]
         \/ childStatus' = childStatus
  BY <1>1 DEF QueueChildRun
<1>5. /\ childStatus' \in [Nodes -> RunStates \cup {Absent}]
      /\ \A m \in Nodes \ {n} : childStatus'[m] = childStatus[m]
      /\ \/ childStatus'[n] = childStatus[n]
         \/ childStatus[n] = "PENDING" /\ childStatus'[n] = "QUEUED"
  BY <1>3, <1>4 DEF RunStates
<1>6. ChildWrite(n)
  BY <1>1, <1>2, <1>4, <1>5, AgentFacts DEF ChildWrite
<1>7. Grows
  BY <1>6, ChildWriteGrows
<1>8. TasksOK
  <2>1. CASE childStatus[n] = "PENDING"
    <3>1. PICK u : u = [t EXCEPT !.step = "enqueueNew"]
      OBVIOUS
    <3>2. u \in Tasks /\ u.row = t.row /\ u.step = "enqueueNew"
      BY <1>3, <3>1 DEF Tasks, Steps
    <3>3. u.step \in AgentSteps /\ u.step \notin AttachedSteps /\ u.step \notin StartedSteps
      BY <3>2 DEF AgentSteps, RunSteps, AttachedSteps, StartedSteps
    <3>4. childStatus'[n] # Absent
      BY <1>5, <2>1
    <3>5. TaskOK(u, n)'
      BY <1>2, <1>3, <1>7, <3>2, <3>3, <3>4, AgentTaskOK
    <3>6. Continue(p, n, u)
      BY <1>1, <2>1, <3>1 DEF QueueChildRun
    <3> QED BY <1>3, <3>2, <3>5, <3>6, ContinueOK
  <2>2. CASE childStatus[n] # "PENDING"
    BY <1>3, <2>2, ThrowOK DEF QueueChildRun
  <2> QED BY <2>1, <2>2
<1> QED BY <1>3, <1>6, <1>8, ChildWriteOK

LEMMA FaultOK == ASSUME TypeOK, Fault PROVE faults' \in 0..MaxFaults
  BY DEF Fault, TypeOK

LEMMA EnqueueNewRunOK ==
  ASSUME IInv, NEW p \in Passes, NEW n \in Nodes, EnqueueNewRun(p, n)
  PROVE  IInv' /\ Grows
<1> USE DEF Absent, WSM!Absent
<1>1. PICK t : t = task[p][n]
  OBVIOUS
<1>2. t.step = "enqueueNew" /\ t.step \in AgentSteps /\ t.step \in RunSteps
  BY <1>1 DEF EnqueueNewRun, AgentSteps, RunSteps
<1>3. t \in Tasks /\ TaskOK(t, n) /\ TypeOK /\ ActivatedRow(nodeStatus[n])
      /\ childStatus \in [Nodes -> RunStates \cup {Absent}]
      /\ faults \in 0..MaxFaults
      /\ job \in [Nodes -> BOOLEAN]
  BY <1>1, <1>2, AgentFacts
<1>4. /\ UNCHANGED <<agentUnchanged, nodeStatus, childRunId, childStatus>>
      /\ job' \in [Nodes -> BOOLEAN]
      /\ faults' \in 0..MaxFaults
  BY <1>1, <1>3, FaultOK DEF EnqueueNewRun
<1>5. ChildWrite(n)
  BY <1>1, <1>2, <1>4, AgentFacts DEF ChildWrite
<1>6. Grows /\ childStatus'[n] # Absent
  BY <1>2, <1>3, <1>4, <1>5, ChildWriteGrows DEF TaskOK
<1>7. \E v \in Tasks : v.row = t.row /\ Continue(p, n, WithRun(n, v))
  <2>1. CASE Continue(p, n, WithRun(n, [t EXCEPT !.run = "QUEUED", !.enqueued = TRUE]))
    <3>1. PICK v : v = [t EXCEPT !.run = "QUEUED", !.enqueued = TRUE]
      OBVIOUS
    <3>2. v \in Tasks /\ v.row = t.row
      BY <1>3, <3>1 DEF Tasks, RunStates
    <3> QED BY <2>1, <3>1, <3>2
  <2>2. CASE Continue(p, n, WithRun(n, [t EXCEPT !.run = childStatus[n]]))
    <3>1. PICK v : v = [t EXCEPT !.run = childStatus[n]]
      OBVIOUS
    <3>2. v \in Tasks /\ v.row = t.row
      BY <1>3, <3>1 DEF Tasks
    <3> QED BY <2>2, <3>1, <3>2
  <2> QED BY <1>1, <2>1, <2>2 DEF EnqueueNewRun
<1>8. TasksOK
  <2>1. PICK v \in Tasks : v.row = t.row /\ Continue(p, n, WithRun(n, v))
    BY <1>7
  <2>2. PICK u : u = WithRun(n, v)
    OBVIOUS
  <2>3. u \in Tasks /\ TaskOK(u, n)'
    BY <1>2, <1>3, <1>4, <1>6, <2>1, <2>2, WithRunOK
  <2>4. Continue(p, n, u)
    BY <2>1, <2>2
  <2> QED BY <1>3, <2>3, <2>4, ContinueOK
<1> QED BY <1>3, <1>5, <1>8, ChildWriteOK

LEMMA AttachChildRunOK ==
  ASSUME IInv, NEW p \in Passes, NEW n \in Nodes, AttachChildRun(p, n)
  PROVE  IInv' /\ Grows
<1> USE DEF Absent, WSM!Absent
<1>1. PICK t : t = task[p][n]
  OBVIOUS
<1>2. t.step = "attach" /\ t.step \in AgentSteps /\ t.step \in RunSteps
  BY <1>1 DEF AttachChildRun, AgentSteps, RunSteps
<1>3. t \in Tasks /\ TaskOK(t, n) /\ TypeOK /\ ActivatedRow(nodeStatus[n])
      /\ childRunId \in [Nodes -> BOOLEAN]
  BY <1>1, <1>2, AgentFacts
<1>4. /\ UNCHANGED <<agentUnchanged, nodeStatus, childStatus, job, faults>>
      /\ childRunId' = [childRunId EXCEPT ![n] = TRUE]
  BY <1>1 DEF AttachChildRun
<1>5. /\ childRunId' \in [Nodes -> BOOLEAN] /\ childRunId'[n]
      /\ \A m \in Nodes \ {n} : childRunId'[m] = childRunId[m]
  BY <1>3, <1>4
<1>6. childStatus'[n] # Absent
  BY <1>2, <1>3, <1>4 DEF TaskOK
<1>7. ChildWrite(n)
  BY <1>1, <1>2, <1>4, <1>5, <1>6, AgentFacts DEF ChildWrite
<1>8. Grows
  BY <1>7, ChildWriteGrows
<1> DEFINE step == IF t.row = "PENDING" THEN "markRunning" ELSE StepOnRun(t)
<1>9. PICK u : u = [t EXCEPT !.step = step]
  OBVIOUS
<1>10. step \in {"markRunning"} \cup StartedSteps /\ (step \in StartedSteps => t.row # "PENDING")
  BY DEF StepOnRun, StartedSteps
<1> HIDE DEF step
<1>11. u \in Tasks /\ u.row = t.row /\ u.step = step
  BY <1>3, <1>9, <1>10 DEF Tasks, Steps, StartedSteps
<1>12. u.step \in AgentSteps
  BY <1>10, <1>11 DEF AgentSteps, RunSteps, AttachedSteps
<1>13. TaskOK(u, n)'
  BY <1>2, <1>3, <1>5, <1>6, <1>8, <1>10, <1>11, <1>12, AgentTaskOK
<1>14. Continue(p, n, u)
  BY <1>1, <1>9 DEF AttachChildRun, step
<1>15. TasksOK
  BY <1>3, <1>11, <1>13, <1>14, ContinueOK
<1> QED BY <1>3, <1>7, <1>15, ChildWriteOK

LEMMA MarkNodeRunningOK ==
  ASSUME IInv, NEW p \in Passes, NEW n \in Nodes, MarkNodeRunning(p, n)
  PROVE  IInv' /\ Grows
<1> USE DEF Absent, WSM!Absent
<1>1. PICK t : t = task[p][n]
  OBVIOUS
<1>2. /\ t.step = "markRunning" /\ t.step \in AgentSteps /\ t.step \in RunSteps
      /\ t.step \in AttachedSteps
  BY <1>1 DEF MarkNodeRunning, AgentSteps, RunSteps, AttachedSteps
<1>3. t \in Tasks /\ TaskOK(t, n) /\ TypeOK /\ ActivatedRow(nodeStatus[n])
      /\ RowOK(n) /\ EarnedOK(n) /\ nodeStatus[n] \in WSM!WorkflowNodeRunStates \cup {Absent}
  BY <1>1, <1>2, AgentFacts, TaskFacts
<1>4. NodeType[n] = "AGENT" /\ childStatus[n] # Absent /\ childRunId[n]
  BY <1>2, <1>3 DEF TaskOK
<1>5. /\ TransitionNode(n, "PENDING", "RUNNING")
      /\ UNCHANGED <<agentUnchanged, childVars, faults>>
  BY <1>1 DEF MarkNodeRunning
<1>6. "RUNNING" \in WSM!WorkflowNodeRunStates /\ StatusGrows("PENDING", "RUNNING")
  BY DEF StatusGrows, WSM!WorkflowNodeRunStates
<1>7. /\ nodeStatus' \in [Nodes -> WSM!WorkflowNodeRunStates \cup {Absent}]
      /\ \A m \in Nodes \ {n} : nodeStatus'[m] = nodeStatus[m]
      /\ \A m \in Nodes : StatusGrows(nodeStatus[m], nodeStatus'[m])
      /\ nodeStatus[n] = "PENDING" => nodeStatus'[n] = "RUNNING"
      /\ nodeStatus[n] # "PENDING" => nodeStatus'[n] = nodeStatus[n]
  BY <1>3, <1>5, <1>6, TransitionFacts
<1>8. nodeStatus'[n] \in {"RUNNING", "SUCCEEDED", "FAILED"}
  BY <1>3, <1>4, <1>7 DEF RowOK, ActivatedRow, SuspensionTypes, WSM!WorkflowNodeRunStates,
       WSM!TerminalWorkflowNodeRunStates
<1>9. Grows
  BY <1>5, <1>7 DEF Grows, childVars, agentUnchanged
<1>10. RowOK(n)'
  BY <1>3, <1>4, <1>5, <1>8, <1>9, RowMoves DEF agentUnchanged, SuspensionTypes
<1>11. EarnedOK(n)'
  BY <1>3, <1>4, <1>5, <1>7, <1>8 DEF EarnedOK, childVars, agentUnchanged, SuspensionTypes
<1>12. PICK u : u = [t EXCEPT !.row = nodeStatus'[n], !.step = StepOnRun(t)]
  OBVIOUS
<1>13. u \in Tasks /\ u.row = nodeStatus'[n] /\ u.step \in StartedSteps
  <2>1. StepOnRun(t) \in StartedSteps /\ StartedSteps \subseteq Steps
    BY DEF StepOnRun, StartedSteps, Steps
  <2>2. nodeStatus'[n] \in WSM!WorkflowNodeRunStates
    BY <1>8 DEF WSM!WorkflowNodeRunStates, WSM!TerminalWorkflowNodeRunStates
  <2> QED BY <1>3, <1>12, <2>1, <2>2 DEF Tasks
<1>14. /\ u.step \notin {"materialize", "skip", "activate", "resolve"} \cup SuspensionSteps
       /\ u.step \in AgentSteps /\ u.step \in RunSteps /\ u.step \in AttachedSteps
  BY <1>13 DEF AgentSteps, RunSteps, AttachedSteps, StartedSteps, SuspensionSteps
<1>15. TaskOK(u, n)'
  BY <1>4, <1>5, <1>8, <1>13, <1>14 DEF TaskOK, ActivatedRow, childVars
<1>16. Continue(p, n, u)
  BY <1>1, <1>12 DEF MarkNodeRunning, Continue
<1>17. TasksOK
  BY <1>3, <1>13, <1>15, <1>16, ContinueOK
<1>18. TypeOK'
  BY <1>3, <1>5, <1>7, <1>17 DEF TypeOK, TasksOK, childVars, agentUnchanged
<1> QED BY <1>5, <1>7, <1>9, <1>10, <1>11, <1>17, <1>18, NodeStepOK DEF childVars, agentUnchanged

LEMMA RequeueChildRunOK ==
  ASSUME IInv, NEW p \in Passes, NEW n \in Nodes, RequeueChildRun(p, n)
  PROVE  IInv' /\ Grows
<1> USE DEF Absent, WSM!Absent
<1> DEFINE step == IF childStatus[n] = "PENDING" THEN "enqueue" ELSE "observeRun"
<1>1. PICK t : t = task[p][n]
  OBVIOUS
<1>2. /\ t.step = "requeue" /\ t.step \in AgentSteps /\ t.step \in RunSteps
      /\ t.step \in AttachedSteps /\ t.step \in StartedSteps
  BY <1>1 DEF RequeueChildRun, AgentSteps, RunSteps, AttachedSteps, StartedSteps
<1>3. t \in Tasks /\ TaskOK(t, n) /\ TypeOK /\ ActivatedRow(nodeStatus[n])
      /\ childStatus \in [Nodes -> RunStates \cup {Absent}]
  BY <1>1, <1>2, AgentFacts
<1>4. childRunId[n] /\ t.row # "PENDING" /\ childStatus[n] # Absent
  BY <1>2, <1>3 DEF TaskOK
<1>5. /\ UNCHANGED <<agentUnchanged, nodeStatus, childRunId, job, faults>>
      /\ \/ childStatus[n] = "PENDING" /\ childStatus' = [childStatus EXCEPT ![n] = "QUEUED"]
         \/ childStatus' = childStatus
  BY DEF RequeueChildRun
<1>6. /\ childStatus' \in [Nodes -> RunStates \cup {Absent}]
      /\ \A m \in Nodes \ {n} : childStatus'[m] = childStatus[m]
      /\ \/ childStatus'[n] = childStatus[n]
         \/ childStatus[n] = "PENDING" /\ childStatus'[n] = "QUEUED"
  BY <1>3, <1>5 DEF RunStates
<1>7. ChildWrite(n)
  BY <1>1, <1>2, <1>5, <1>6, AgentFacts DEF ChildWrite
<1>8. Grows
  BY <1>7, ChildWriteGrows
<1>9. PICK u : u = [t EXCEPT !.step = step]
  OBVIOUS
<1>10. u \in Tasks /\ u.row = t.row /\ u.step \in StartedSteps
  BY <1>3, <1>9 DEF Tasks, Steps, StartedSteps
<1>11. u.step \in AgentSteps
  BY <1>10 DEF AgentSteps, RunSteps, AttachedSteps
<1>12. TaskOK(u, n)'
  BY <1>2, <1>3, <1>4, <1>5, <1>6, <1>8, <1>10, <1>11, AgentTaskOK
<1>13. Continue(p, n, u)
  BY <1>1, <1>9 DEF RequeueChildRun
<1>14. TasksOK
  BY <1>3, <1>10, <1>12, <1>13, ContinueOK
<1> QED BY <1>3, <1>7, <1>14, ChildWriteOK

LEMMA EnqueueInitialAttemptOK ==
  ASSUME IInv, NEW p \in Passes, NEW n \in Nodes, EnqueueInitialAttempt(p, n)
  PROVE  IInv' /\ Grows
<1> USE DEF Absent, WSM!Absent
<1>1. PICK t : t = task[p][n]
  OBVIOUS
<1>2. /\ t.step = "enqueue" /\ t.step \in AgentSteps /\ t.step \in RunSteps
      /\ t.step \in AttachedSteps /\ t.step \in StartedSteps
  BY <1>1 DEF EnqueueInitialAttempt, AgentSteps, RunSteps, AttachedSteps, StartedSteps
<1>3. t \in Tasks /\ TaskOK(t, n) /\ TypeOK /\ ActivatedRow(nodeStatus[n])
      /\ faults \in 0..MaxFaults /\ job \in [Nodes -> BOOLEAN]
  BY <1>1, <1>2, AgentFacts
<1>4. childRunId[n] /\ t.row # "PENDING" /\ childStatus[n] # Absent
  BY <1>2, <1>3 DEF TaskOK
<1>5. /\ UNCHANGED <<agentUnchanged, nodeStatus, childRunId, childStatus>>
      /\ job' \in [Nodes -> BOOLEAN]
      /\ faults' \in 0..MaxFaults
  BY <1>3, FaultOK DEF EnqueueInitialAttempt
<1>6. ChildWrite(n)
  BY <1>1, <1>2, <1>5, AgentFacts DEF ChildWrite
<1>7. Grows
  BY <1>6, ChildWriteGrows
<1>8. PICK u : u = [t EXCEPT !.step = "observeRun"]
  OBVIOUS
<1>9. u \in Tasks /\ u.row = t.row /\ u.step \in StartedSteps
  BY <1>3, <1>8 DEF Tasks, Steps, StartedSteps
<1>10. u.step \in AgentSteps
  BY <1>9 DEF AgentSteps, RunSteps, AttachedSteps
<1>11. TaskOK(u, n)'
  BY <1>2, <1>3, <1>4, <1>5, <1>7, <1>9, <1>10, AgentTaskOK
<1>12. Continue(p, n, u)
  BY <1>1, <1>8 DEF EnqueueInitialAttempt
<1>13. TasksOK
  BY <1>3, <1>9, <1>11, <1>12, ContinueOK
<1> QED BY <1>3, <1>6, <1>13, ChildWriteOK

(* The row the task holds may be old, yet an ended row agrees with its Run. *)
LEMMA ObserveChildRunOK ==
  ASSUME IInv, NEW p \in Passes, NEW n \in Nodes, ObserveChildRun(p, n)
  PROVE  IInv' /\ Grows
<1> USE DEF Absent, WSM!Absent
<1>1. PICK t : t = task[p][n]
  OBVIOUS
<1>2. /\ t.step = "observeRun" /\ t.step \in AgentSteps /\ t.step \in RunSteps
      /\ t.step \in AttachedSteps /\ t.step \in StartedSteps
  BY <1>1 DEF ObserveChildRun, AgentSteps, RunSteps, AttachedSteps, StartedSteps
<1>3. t \in Tasks /\ TaskOK(t, n) /\ TypeOK /\ RowOK(n) /\ EarnedOK(n)
  BY <1>1, <1>2, AgentFacts
<1>4. /\ NodeType[n] = "AGENT" /\ childRunId[n]
      /\ t.row \in {"RUNNING", "SUCCEEDED", "FAILED"}
      /\ nodeStatus[n] \in {"RUNNING", "SUCCEEDED", "FAILED"}
      /\ t.row \in {"SUCCEEDED", "FAILED"} => nodeStatus[n] = t.row
  BY <1>2, <1>3 DEF TaskOK
<1>5. UNCHANGED <<agentUnchanged, childVars, faults>>
  BY DEF ObserveChildRun
<1>6. /\ nodeStatus' \in [Nodes -> WSM!WorkflowNodeRunStates \cup {Absent}]
      /\ \A m \in Nodes \ {n} : nodeStatus'[m] = nodeStatus[m]
      /\ \/ nodeStatus'[n] = nodeStatus[n]
         \/ /\ nodeStatus[n] = "RUNNING"
            /\ childStatus[n] \in {"SUCCEEDED", "FAILED"}
            /\ nodeStatus'[n] = childStatus[n]
  <2>1. CASE childStatus[n] \in {"SUCCEEDED", "FAILED"} /\ t.row # childStatus[n]
    <3>1. t.row = "RUNNING"
      BY <1>3, <1>4, <2>1 DEF EarnedOK
    <3>2. TransitionNode(n, "RUNNING", childStatus[n])
      BY <1>1, <2>1, <3>1 DEF ObserveChildRun
    <3> QED BY <1>3, <2>1, <3>2 DEF TransitionNode, TypeOK, WSM!WorkflowNodeRunStates,
              WSM!TerminalWorkflowNodeRunStates
  <2>2. CASE ~(childStatus[n] \in {"SUCCEEDED", "FAILED"} /\ t.row # childStatus[n])
    BY <1>1, <1>3, <2>2 DEF ObserveChildRun, TypeOK
  <2> QED BY <2>1, <2>2
<1>7. Grows
  BY <1>5, <1>6 DEF Grows, StatusGrows, childVars, agentUnchanged
<1>8. RowOK(n)'
  BY <1>3, <1>4, <1>5, <1>6, <1>7, RowMoves, RowStable DEF ActivatedRow, agentUnchanged
<1>9. EarnedOK(n)'
  BY <1>3, <1>4, <1>5, <1>6 DEF EarnedOK, childVars, agentUnchanged, SuspensionTypes
<1>10. TasksOK
  BY <1>3, DoneOK DEF ObserveChildRun
<1>11. TypeOK'
  BY <1>3, <1>5, <1>6, <1>10 DEF TypeOK, TasksOK, childVars, agentUnchanged
<1> QED BY <1>5, <1>6, <1>7, <1>8, <1>9, <1>10, <1>11, NodeStepOK DEF childVars, agentUnchanged

-----------------------------------------------------------------------------
(* The environment. *)

LEMMA ChildRunOK ==
  ASSUME IInv, NEW n \in Nodes, NEW outcome \in {"SUCCEEDED", "FAILED"},
         \/ ChildStarts(n) \/ ChildEnds(n, outcome)
         \/ ChildInterrupted(n) \/ ChildRecovered(n)
  PROVE  IInv' /\ Grows
<1> USE DEF Absent, WSM!Absent
<1>1. TypeOK /\ EarnedOK(n) /\ faults \in 0..MaxFaults
      /\ childStatus \in [Nodes -> RunStates \cup {Absent}]
  BY DEF IInv, TypeOK
<1>2. /\ UNCHANGED <<envUnchanged, suspension>>
      /\ childStatus[n] \in {"QUEUED", "RUNNING", "INTERRUPTED"}
      /\ \E s \in RunStates : childStatus' = [childStatus EXCEPT ![n] = s]
      /\ faults' \in 0..MaxFaults
  BY <1>1, FaultOK DEF ChildStarts, ChildEnds, ChildInterrupted, ChildRecovered, RunStates
<1>3. ChildWrite(n)
  BY <1>1, <1>2 DEF ChildWrite, envUnchanged, nodeVars, agentUnchanged, TypeOK, RunStates
<1>4. ActivatedRow(nodeStatus[n])
  BY <1>1, <1>2 DEF EarnedOK, ActivatedRow
<1>5. TasksOK
  BY <1>1, <1>2 DEF TasksOK, envUnchanged, TypeOK
<1> QED BY <1>3, <1>4, <1>5, ChildWriteOK, ChildWriteGrows

LEMMA SuspensionOK ==
  ASSUME IInv, NEW n \in Nodes, NEW outcome \in {"satisfied", "refused"},
         DecideApproval(n, outcome) \/ ResolveWait(n, outcome)
  PROVE  IInv' /\ Grows
<1> USE DEF Absent, WSM!Absent
<1>1. TypeOK /\ RowOK(n) /\ EarnedOK(n)
  BY DEF IInv
<1>2. /\ suspension[n] = "open"
      /\ suspension' = [suspension EXCEPT ![n] = outcome]
      /\ UNCHANGED <<envUnchanged, childStatus, faults>>
  BY DEF DecideApproval, ResolveWait
<1>3. /\ suspension' \in [Nodes -> {"absent", "open", "satisfied", "refused"}]
      /\ \A m \in Nodes \ {n} : suspension'[m] = suspension[m]
  BY <1>1, <1>2 DEF TypeOK
<1>4. Grows
  BY <1>2 DEF Grows, StatusGrows, envUnchanged, nodeVars
<1>5. RowOK(n)'
  BY <1>1, <1>2, <1>4, RowStable DEF envUnchanged, nodeVars
<1>6. EarnedOK(n)'
  BY <1>1, <1>2 DEF EarnedOK, envUnchanged, nodeVars
<1>7. TasksOK
  BY <1>1, <1>2 DEF TasksOK, envUnchanged, TypeOK
<1>8. TypeOK'
  BY <1>1, <1>2, <1>3, <1>7 DEF TypeOK, TasksOK, envUnchanged, nodeVars
<1> QED BY <1>2, <1>3, <1>4, <1>5, <1>6, <1>7, <1>8, NodeStepOK DEF envUnchanged, nodeVars

LEMMA FailureOK ==
  ASSUME IInv, NEW p \in Passes, Crash(p) \/ \E n \in Nodes : TaskFails(p, n)
  PROVE  IInv' /\ Grows
<1>1. TypeOK /\ UNCHANGED <<workflowStatus, nodeVars, childVars, suspension>>
      /\ faults' \in 0..MaxFaults
  BY FaultOK DEF IInv, Crash, TaskFails
<1>2. TasksOK
  <2>1. CASE Crash(p)
    <3>1. task' \in [Passes -> [Nodes -> Tasks]] /\ pass' \in [Passes -> PassStates]
      BY <1>1, <2>1, NoTaskOK, IdleOK DEF Crash, TypeOK
    <3>2. \A n \in Nodes : task'[p][n] = NoTask
      BY <1>1, <2>1 DEF Crash, TypeOK
    <3>3. pass'[p] = Idle
      BY <1>1, <2>1 DEF Crash, TypeOK
    <3>4. \A n \in Nodes : TaskOK(task[p][n], n)'
      <4> SUFFICES ASSUME NEW n \in Nodes PROVE TaskOK(task[p][n], n)'
        OBVIOUS
      <4> QED BY <3>2, NoTaskOKNext DEF TaskOK
    <3>5. PassOK(pass[p])'
      BY <3>3 DEF PassOK, Idle
    <3>6. \A q \in Passes \ {p} : task'[q] = task[q] /\ pass'[q] = pass[q]
      BY <1>1, <2>1 DEF Crash, TypeOK
    <3> QED BY <3>1, <3>4, <3>5, <3>6 DEF TasksOK
  <2>2. CASE \E n \in Nodes : TaskFails(p, n)
    BY <1>1, <2>2, ThrowOK DEF TaskFails
  <2> QED BY <2>1, <2>2
<1>3. TypeOK'
  BY <1>1, <1>2 DEF TypeOK, TasksOK, nodeVars, childVars
<1> QED BY <1>1, <1>2, <1>3, SameRows, StepOK DEF TasksOK

-----------------------------------------------------------------------------
LEMMA InitOK == Init => IInv
<1> SUFFICES ASSUME Init PROVE IInv
  OBVIOUS
<1> USE DEF Init, Absent, WSM!Absent
<1>1. TypeOK
  BY NoTaskOK, IdleOK DEF TypeOK, WSM!WorkflowRunStates
<1>2. \A n \in Nodes : RowOK(n) /\ EarnedOK(n)
  BY DEF RowOK, EarnedOK, ActivatedRow
<1>3. \A p \in Passes, n \in Nodes : TaskOK(task[p][n], n)
  BY NoTaskOK
<1>4. \A p \in Passes : PassOK(pass[p])
  BY IdleOK
<1>5. VerdictMatchesNodes
  BY DEF VerdictMatchesNodes
<1> QED BY <1>1, <1>2, <1>3, <1>4, <1>5 DEF IInv

LEMMA TaskStepOK ==
  ASSUME IInv, NEW p \in Passes, NEW n \in Nodes, TaskStep(p, n)
  PROVE  IInv' /\ Grows
  BY MaterializeOK, ActivateOK, ResolveOK, SkipOK, ArmOK, ObserveOK, FindChildRunOK,
     CreateChildRunOK, QueueChildRunOK, EnqueueNewRunOK, AttachChildRunOK,
     MarkNodeRunningOK, RequeueChildRunOK, EnqueueInitialAttemptOK, ObserveChildRunOK
     DEF TaskStep

LEMMA NextOK ==
  ASSUME IInv, [Next]_vars
  PROVE  IInv' /\ Grows
<1>1. CASE UNCHANGED vars
  <2>1. UNCHANGED <<nodeVars, childVars, suspension>>
    BY <1>1 DEF vars, nodeVars, childVars
  <2>2. TypeOK'
    BY <1>1 DEF IInv, TypeOK, vars
  <2> QED BY <1>1, <2>1, <2>2, SameRows, StepOK DEF vars
<1>2. ASSUME NEW p \in Passes, PassStep(p) PROVE IInv' /\ Grows
  BY <1>2, ControlOK, ListNodesOK, VerdictOK, TaskStepOK DEF PassStep
<1>3. ASSUME NEW n \in Nodes, Environment(n) PROVE IInv' /\ Grows
  BY <1>3, ChildRunOK, SuspensionOK DEF Environment
<1> QED BY <1>1, <1>2, <1>3, FailureOK DEF Next

(* The inductive invariant of the reconciliation. *)
THEOREM IInvHolds == Spec => []IInv
<1>1. IInv /\ [Next]_vars => IInv'
  BY NextOK
<1> QED BY InitOK, <1>1, PTL DEF Spec

(* Every variable of the reconciliation keeps its type. *)
THEOREM TypeOKHolds == Spec => []TypeOK
<1>1. IInv => TypeOK
  BY DEF IInv
<1> QED BY <1>1, IInvHolds, PTL

(* No pass, acting on rows it listed long ago, ever inserts or moves a node *)
(* row that the graph does not call for (ensureNodeRun, propagateSkips).    *)
THEOREM RowsFollowGraphHolds == Spec => []RowsFollowGraph
<1>1. IInv => RowsFollowGraph
  BY DEF IInv, RowOK, RowsFollowGraph, ActivatedRow, Activated, IsNodeSkippable, EndedWell
<1> QED BY <1>1, IInvHolds, PTL

(* A WorkflowRun never ends against its nodes: SUCCEEDED with a node that   *)
(* has not ended or has FAILED, FAILED without one that has; the verdict    *)
(* was derived from rows listed before the write (reconcileWorkflowRun).    *)
THEOREM VerdictMatchesNodesHolds == Spec => []VerdictMatchesNodes
<1>1. IInv => VerdictMatchesNodes
  BY DEF IInv
<1> QED BY <1>1, IInvHolds, PTL

(* The input materializeNodeRun computed from listed rows is the one the    *)
(* final rows give, also when another pass inserted the row.                *)
THEOREM InputsAreFinalHolds == Spec => []InputsAreFinal
<1>1. IInv => InputsAreFinal
  BY DEF IInv, RowOK, InputsAreFinal
<1> QED BY <1>1, IInvHolds, PTL

(* A node never ends against its child Run, approval or wait, and a path    *)
(* that is not taken has neither (observeChildRun, observeApprovalDecisions,*)
(* observeResolvedWorkflowWaits).                                           *)
THEOREM OutcomesAreEarnedHolds == Spec => []OutcomesAreEarned
<1>1. IInv => OutcomesAreEarned
  BY DEF IInv, EarnedOK, OutcomesAreEarned
<1> QED BY <1>1, IInvHolds, PTL

-----------------------------------------------------------------------------
(* The refinement of the status tables. *)

Follows == WSM!WSMNext \/ UNCHANGED WSM!wsmVars

LEMMA NodeFollows ==
  ASSUME IInv, IInv', Grows, NEW n \in Nodes, UNCHANGED workflowStatus,
         \A m \in Nodes \ {n} : nodeStatus'[m] = nodeStatus[m]
  PROVE  Follows
<1> USE DEF Absent, WSM!Absent
<1>1. nodeStatus' = [nodeStatus EXCEPT ![n] = nodeStatus'[n]]
  BY DEF IInv, TypeOK
<1>2. CASE nodeStatus'[n] = nodeStatus[n]
  BY <1>1, <1>2 DEF Follows, WSM!wsmVars, IInv, TypeOK
<1>3. CASE nodeStatus'[n] # nodeStatus[n]
  <2>1. /\ nodeStatus'[n] \in WSM!WorkflowNodeRunStates
        /\ \/ nodeStatus[n] = Absent /\ nodeStatus'[n] \in {"PENDING", "SKIPPED"}
           \/ <<nodeStatus[n], nodeStatus'[n]>> \in WSM!LegalWorkflowNodeRunTransitions
    BY <1>3 DEF Grows, StatusGrows, WSM!WorkflowNodeRunStates,
         WSM!TerminalWorkflowNodeRunStates, WSM!LegalWorkflowNodeRunTransitions
  <2>2. WSM!NodeMoves
    BY <1>1, <2>1 DEF WSM!NodeMoves
  <2> QED BY <2>2 DEF Follows, WSM!WSMNext
<1> QED BY <1>2, <1>3

LEMMA TransitionOthers ==
  ASSUME TypeOK, NEW n \in Nodes, NEW a, NEW b, TransitionNode(n, a, b) \/ InsertNode(n, a, b)
  PROVE  \A m \in Nodes \ {n} : nodeStatus'[m] = nodeStatus[m]
  BY DEF TransitionNode, InsertNode, TypeOK

LEMMA TaskFollows ==
  ASSUME IInv, IInv', Grows, NEW p \in Passes, NEW n \in Nodes, TaskStep(p, n)
  PROVE  Follows
<1>1. UNCHANGED workflowStatus
  BY DEF TaskStep, MaterializeNodeRun, ActivateNode, ResolveOrchestrationNode, SkipNode,
     EnsureApprovalRequest, EnsureWorkflowWait, ObserveApprovalDecision,
     ObserveResolvedWait, FindChildRun, CreateChildRun, QueueChildRun, EnqueueNewRun,
     AttachChildRun, MarkNodeRunning, RequeueChildRun, EnqueueInitialAttempt,
     ObserveChildRun, agentUnchanged
<1>2. \/ UNCHANGED nodeStatus
      \/ \E a, b : TransitionNode(n, a, b) \/ InsertNode(n, a, b)
  BY Zenon DEF TaskStep, MaterializeNodeRun, ActivateNode, ResolveOrchestrationNode, SkipNode,
     EnsureApprovalRequest, EnsureWorkflowWait, ObserveApprovalDecision, FollowSuspension,
     ObserveResolvedWait, FindChildRun, CreateChildRun, QueueChildRun, EnqueueNewRun,
     AttachChildRun, MarkNodeRunning, RequeueChildRun, EnqueueInitialAttempt,
     ObserveChildRun, nodeVars
<1>3. \A m \in Nodes \ {n} : nodeStatus'[m] = nodeStatus[m]
  BY <1>2, TransitionOthers DEF IInv
<1> QED BY <1>1, <1>3, NodeFollows

LEMMA WriteFollows ==
  ASSUME IInv, NEW p \in Passes, WriteWorkflow(p)
  PROVE  Follows
<1>1. /\ pass[p].verdict \in Verdicts
      /\ pass[p].expected \in {"PENDING", "RUNNING", "WAITING"}
      /\ pass[p].expected # pass[p].verdict
      /\ UNCHANGED nodeStatus
  BY DEF IInv, PassOK, WriteWorkflow, nodeVars
<1>2. CASE workflowStatus' = workflowStatus
  BY <1>1, <1>2 DEF Follows, WSM!wsmVars
<1>3. CASE workflowStatus' # workflowStatus
  <2>1. /\ <<workflowStatus, workflowStatus'>> \in WSM!LegalWorkflowRunTransitions
        /\ workflowStatus' \in WSM!WorkflowRunStates
    BY <1>1, <1>3 DEF WriteWorkflow, Verdicts, WSM!LegalWorkflowRunTransitions,
         WSM!WorkflowRunStates, WSM!TerminalWorkflowRunStates
  <2> QED BY <1>1, <2>1 DEF Follows, WSM!WSMNext, WSM!WorkflowMoves
<1> QED BY <1>2, <1>3

(* The reconciliation implements the status tables of the domain layer: no  *)
(* race of passes, crash or failing call takes a WorkflowRun or a node row  *)
(* off its table, or out of a terminal status.                              *)
THEOREM FollowsWorkflowStateMachinesHolds == Spec => FollowsWorkflowStateMachines
<1>1. Init => WSM!WSMInit
  BY DEF Init, WSM!WSMInit, Absent, WSM!Absent
<1>2. ASSUME IInv, [Next]_vars PROVE Follows
  <2>1. IInv' /\ Grows
    BY <1>2, NextOK
  <2>2. CASE UNCHANGED <<workflowStatus, nodeVars>>
    BY <2>2 DEF Follows, WSM!wsmVars, nodeVars
  <2>3. CASE UNCHANGED vars
    BY <2>2, <2>3 DEF vars, nodeVars
  <2>4. ASSUME NEW p \in Passes, PassStep(p) PROVE Follows
    <3>1. CASE \E n \in Nodes : TaskStep(p, n)
      BY <1>2, <2>1, <3>1, TaskFollows
    <3>2. CASE WriteWorkflow(p)
      BY <1>2, <3>2, WriteFollows
    <3> QED BY <2>2, <2>4, <3>1, <3>2 DEF PassStep, Tick, ListNodes, Advance, FailFast,
              Conclude, ReloadWorkflow
  <2>5. ASSUME NEW n \in Nodes, Environment(n) PROVE Follows
    BY <2>2, <2>5 DEF Environment, ChildStarts, ChildEnds, ChildInterrupted,
       ChildRecovered, DecideApproval, ResolveWait, envUnchanged
  <2>6. ASSUME NEW p \in Passes, Crash(p) \/ \E n \in Nodes : TaskFails(p, n) PROVE Follows
    BY <2>2, <2>6 DEF Crash, TaskFails
  <2> QED BY <1>2, <2>3, <2>4, <2>5, <2>6 DEF Next
<1>3. IInv /\ [Next]_vars => [WSM!WSMNext]_(WSM!wsmVars)
  BY <1>2 DEF Follows
<1> QED BY <1>1, <1>3, IInvHolds, PTL DEF Spec, FollowsWorkflowStateMachines, WSM!WSMSpec

-----------------------------------------------------------------------------
(* The refinement of NodeSuspension: arming opens a wait, whoever resolves  *)
(* it does so once, and nothing else is seen.                               *)

WaitRows == [n \in WaitNodes |-> suspension[n]]

EndedWaits == IF WorkflowEnded THEN WaitNodes ELSE {}

Suspends == Suspension!Next \/ UNCHANGED <<WaitRows, EndedWaits>>

LEMMA WaitRowChanges ==
  ASSUME NEW n \in WaitNodes, NEW row, TypeOK,
         suspension' = [suspension EXCEPT ![n] = row]
  PROVE  WaitRows' = [WaitRows EXCEPT ![n] = row]
BY DEF WaitRows, WaitNodes, TypeOK

LEMMA WaitRowsKept ==
  ASSUME \A n \in WaitNodes : suspension'[n] = suspension[n]
  PROVE  WaitRows' = WaitRows
BY DEF WaitRows

(* A WorkflowRun ends for good. *)
LEMMA EndOfWorkflow ==
  ASSUME IInv, NEW p \in Passes, WriteWorkflow(p)
  PROVE  Suspends
<1>1. /\ pass[p].expected \in {"PENDING", "RUNNING", "WAITING"}
      /\ UNCHANGED suspension
  BY DEF IInv, PassOK, WriteWorkflow
<1>2. WorkflowEnded => workflowStatus' = workflowStatus
  BY <1>1 DEF WriteWorkflow, WorkflowEnded, WSM!TerminalWorkflowRunStates
<1>3. EndedWaits' \in SUBSET WaitNodes /\ EndedWaits \subseteq EndedWaits'
  BY <1>2 DEF EndedWaits, WorkflowEnded
<1>4. WaitRows' = WaitRows
  BY <1>1, WaitRowsKept
<1> QED BY <1>3, <1>4 DEF Suspends, Suspension!Next, Suspension!End, WaitRows, EndedWaits

(* The row of a wait is unique: only the first pass opens it. *)
LEMMA WaitOpens ==
  ASSUME TypeOK, NEW n \in WaitNodes, OpenSuspension(n), UNCHANGED workflowStatus
  PROVE  Suspends
<1>1. EndedWaits' = EndedWaits
  BY DEF EndedWaits, WorkflowEnded
<1>2. CASE suspension[n] = "absent"
  <2>1. suspension' = [suspension EXCEPT ![n] = "open"]
    BY <1>2 DEF OpenSuspension
  <2>2. WaitRows' = [WaitRows EXCEPT ![n] = "open"] /\ WaitRows[n] = "absent"
    BY <1>2, <2>1, WaitRowChanges DEF WaitRows
  <2>3. Suspension!Open(n)
    BY <1>1, <2>2 DEF Suspension!Open, WaitRows, EndedWaits
  <2> QED BY <2>3 DEF Suspends, Suspension!Next
<1>3. CASE suspension[n] # "absent"
  <2>1. \A m \in WaitNodes : suspension'[m] = suspension[m]
    BY <1>3 DEF OpenSuspension, TypeOK, WaitNodes
  <2> QED BY <1>1, <2>1, WaitRowsKept DEF Suspends
<1> QED BY <1>2, <1>3

LEMMA WaitResolves ==
  ASSUME TypeOK, NEW n \in Nodes, NEW outcome \in {"satisfied", "refused"},
         ResolveWait(n, outcome)
  PROVE  Suspends
<1>1. /\ n \in WaitNodes /\ suspension[n] = "open" /\ ~WorkflowEnded
      /\ suspension' = [suspension EXCEPT ![n] = outcome]
      /\ UNCHANGED workflowStatus
  BY DEF ResolveWait, WaitNodes, envUnchanged
<1>2. EndedWaits' = EndedWaits /\ n \notin EndedWaits
  BY <1>1 DEF EndedWaits, WorkflowEnded
<1>3. WaitRows' = [WaitRows EXCEPT ![n] = outcome] /\ WaitRows[n] = "open"
  BY <1>1, WaitRowChanges DEF WaitRows
<1>4. Suspension!Resolve(n, outcome)
  BY <1>2, <1>3 DEF Suspension!Resolve, WaitRows, EndedWaits
<1> QED BY <1>1, <1>4 DEF Suspends, Suspension!Next

(* What happens to an approval is not seen. *)
LEMMA ApprovalUnseen ==
  ASSUME TypeOK, NEW n \in Nodes \ WaitNodes, NEW row,
         suspension' = [suspension EXCEPT ![n] = row],
         UNCHANGED workflowStatus
  PROVE  Suspends
<1>1. \A m \in WaitNodes : suspension'[m] = suspension[m]
  BY DEF TypeOK, WaitNodes
<1>2. EndedWaits' = EndedWaits
  BY DEF EndedWaits, WorkflowEnded
<1> QED BY <1>1, <1>2, WaitRowsKept DEF Suspends

LEMMA TaskSuspends ==
  ASSUME TypeOK, NEW p \in Passes, NEW n \in Nodes, TaskStep(p, n)
  PROVE  Suspends
<1>1. UNCHANGED workflowStatus
  BY DEF TaskStep, MaterializeNodeRun, ActivateNode, ResolveOrchestrationNode, SkipNode,
     EnsureApprovalRequest, EnsureWorkflowWait, ObserveApprovalDecision,
     ObserveResolvedWait, FindChildRun, CreateChildRun, QueueChildRun, EnqueueNewRun,
     AttachChildRun, MarkNodeRunning, RequeueChildRun, EnqueueInitialAttempt,
     ObserveChildRun, agentUnchanged
<1>2. CASE UNCHANGED suspension
  BY <1>1, <1>2, WaitRowsKept DEF Suspends, EndedWaits, WorkflowEnded
<1>3. CASE EnsureApprovalRequest(p, n)
  <2>1. n \in Nodes \ WaitNodes /\ OpenSuspension(n)
    BY <1>3 DEF EnsureApprovalRequest, WaitNodes
  <2> QED BY <1>1, <2>1, ApprovalUnseen DEF OpenSuspension
<1>4. CASE EnsureWorkflowWait(p, n)
  <2>1. n \in WaitNodes /\ (OpenSuspension(n) \/ UNCHANGED suspension)
    BY <1>4 DEF EnsureWorkflowWait, WaitNodes
  <2> QED BY <1>1, <1>2, <2>1, WaitOpens
<1> QED BY <1>2, <1>3, <1>4
     DEF TaskStep, MaterializeNodeRun, ActivateNode, ResolveOrchestrationNode, SkipNode,
     ObserveApprovalDecision, ObserveResolvedWait, FindChildRun, CreateChildRun,
     QueueChildRun, EnqueueNewRun, AttachChildRun, MarkNodeRunning, RequeueChildRun,
     EnqueueInitialAttempt, ObserveChildRun, agentUnchanged

(* However many passes arm a wait, and whatever they crash or race with,    *)
(* it is opened once and resolved once, before the WorkflowRun has ended    *)
(* (ensureWorkflowWait, the wait resolution repositories).                  *)
THEOREM ReconciliationImplementsSuspension == Spec => ImplementsNodeSuspension
<1>1. Init => Suspension!Init
  BY DEF Init, Suspension!Init, WaitNodes, WorkflowEnded, WSM!TerminalWorkflowRunStates
<1>2. ASSUME IInv, [Next]_vars PROVE Suspends
  <2>1. TypeOK
    BY <1>2 DEF IInv
  <2>2. CASE UNCHANGED <<workflowStatus, suspension>>
    BY <2>2, WaitRowsKept DEF Suspends, EndedWaits, WorkflowEnded
  <2>3. CASE UNCHANGED vars
    BY <2>2, <2>3 DEF vars
  <2>4. ASSUME NEW p \in Passes, PassStep(p) PROVE Suspends
    <3>1. CASE \E n \in Nodes : TaskStep(p, n)
      BY <2>1, <3>1, TaskSuspends
    <3>2. CASE WriteWorkflow(p)
      BY <1>2, <3>2, EndOfWorkflow
    <3> QED BY <2>2, <2>4, <3>1, <3>2 DEF PassStep, Tick, ListNodes, Advance, FailFast,
              Conclude, ReloadWorkflow
  <2>5. ASSUME NEW n \in Nodes, Environment(n) PROVE Suspends
    <3>1. CASE \E outcome \in {"satisfied", "refused"} : DecideApproval(n, outcome)
      <4>1. n \in Nodes \ WaitNodes /\ UNCHANGED workflowStatus
        BY <3>1 DEF DecideApproval, WaitNodes, envUnchanged
      <4> QED BY <2>1, <3>1, <4>1, ApprovalUnseen DEF DecideApproval
    <3>2. CASE \E outcome \in {"satisfied", "refused"} : ResolveWait(n, outcome)
      BY <2>1, <3>2, WaitResolves
    <3> QED BY <2>2, <2>5, <3>1, <3>2 DEF Environment, ChildStarts, ChildEnds,
              ChildInterrupted, ChildRecovered, envUnchanged
  <2>6. ASSUME NEW p \in Passes, Crash(p) \/ \E n \in Nodes : TaskFails(p, n) PROVE Suspends
    BY <2>2, <2>6 DEF Crash, TaskFails
  <2> QED BY <1>2, <2>3, <2>4, <2>5, <2>6 DEF Next
<1>3. IInv /\ [Next]_vars
        => [Suspension!Next]_<<[n \in WaitNodes |-> suspension[n]],
                               IF WorkflowEnded THEN WaitNodes ELSE {}>>
  BY <1>2 DEF Suspends, WaitRows, EndedWaits
<1> QED BY <1>1, <1>3, IInvHolds, PTL DEF Spec, ImplementsNodeSuspension, Suspension!Spec
=============================================================================
