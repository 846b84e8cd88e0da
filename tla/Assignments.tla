---------------------------- MODULE Assignments -----------------------------
(***************************************************************************)
(* Assignments of the AI Office: HTTP requests launch, cancel, edit and    *)
(* look at assignments, each by reading the row and writing it back later. *)
(* A launch starts a Run (AGENT_VERSION) or a WorkflowRun and links it;    *)
(* looking at an assignment reconciles its status with what was linked.    *)
(*                                                                         *)
(* A launch request brings the id its execution would get, so executions   *)
(* are named by requests.  A Run carries the idempotency key               *)
(* assignment:<id>, which is unique; a WorkflowRun has none.               *)
(***************************************************************************)
EXTENDS Integers, FiniteSets

CONSTANTS
  Assignments,
  TargetType,  \* TargetType[a]: "AGENT_VERSION" or "WORKFLOW_VERSION"
  Requests,    \* HTTP requests that change something
  Readers,     \* clients that keep looking, one GET after the other
  MaxFaults,   \* bound on requests that die
  None         \* SQL NULL

Handlers == Requests \cup Readers

ASSUME AssignmentsAssumption ==
  /\ TargetType \in [Assignments -> {"AGENT_VERSION", "WORKFLOW_VERSION"}]
  /\ Requests \cap Readers = {}
  /\ MaxFaults \in Nat
  /\ None \notin Requests \cup Assignments

VARIABLES
  assignment,  \* assignments: status, run_id or workflow_run_id, started
  execution,   \* runs and workflow_runs: whose they are, and their status
  request,     \* where each request is and the row it has read
  faults

vars == <<assignment, execution, request, faults>>

ExecutionStates == {"absent", "PENDING", "ACTIVE", "SUCCEEDED", "FAILED", "CANCELLED"}
Terminal == {"COMPLETED", "FAILED", "CANCELLED"}
Rows == [status : {"PENDING", "RUNNING"} \cup Terminal, link : Requests \cup {None},
         started : BOOLEAN]
NewRow == [status |-> "PENDING", link |-> None, started |-> FALSE]
NoExecution == [of |-> None, status |-> "absent"]
Idle == [at |-> "idle", assignment |-> None, row |-> NewRow]
Stages == {"idle", "find", "create", "queue", "link", "cancel", "update",
           "reload", "reconcile", "done"}

TypeOK ==
  /\ assignment \in [Assignments -> Rows]
  /\ execution \in [Requests -> [of : Assignments \cup {None}, status : ExecutionStates]]
  /\ request \in [Handlers -> [at : Stages, assignment : Assignments \cup {None},
                               row : Rows]]
  /\ \A q \in Requests : execution[q].status = "absent" <=> execution[q].of = None
  /\ faults \in 0 .. MaxFaults

Init ==
  /\ assignment = [a \in Assignments |-> NewRow]
  /\ execution = [q \in Requests |-> NoExecution]
  /\ request = [q \in Handlers |-> Idle]
  /\ faults = 0

(* A request is over; a reader comes again. *)
Finished(q) == IF q \in Readers THEN Idle ELSE [Idle EXCEPT !.at = "done"]

Go(q, at) ==
  request' = [request EXCEPT ![q] =
    IF at = "done" THEN Finished(q) ELSE [request[q] EXCEPT !.at = at]]

(* The row is read, and the code's conditions on it tell what comes next. *)
Start(q, a, at) ==
  /\ request[q].at = "idle"
  /\ request' = [request EXCEPT ![q] =
       IF at = "done" THEN Finished(q)
       ELSE [at |-> at, assignment |-> a, row |-> assignment[a]]]
  /\ UNCHANGED <<assignment, execution, faults>>

-----------------------------------------------------------------------------
(* The two ways a row is written. *)

(* Mutant: only the status is written. *)
StatusOf(a, next) == [assignment[a] EXCEPT !.status = next.status]

Written(a, next) == next

(* transitionAssignment: the whole row, if its status is as expected. *)
TransitionAssignment(q, a, expected, next, then) ==
  IF assignment[a].status = expected
    THEN /\ assignment' = [assignment EXCEPT ![a] = Written(a, next)]
         /\ Go(q, then)
    ELSE Go(q, "done") /\ UNCHANGED assignment

(* updateAssignment: the whole row, whatever it has become. *)
UpdateRow(q, a, next, then) ==
  /\ assignment' = [assignment EXCEPT ![a] = next]
  /\ Go(q, then)

-----------------------------------------------------------------------------
(* LaunchAssignment *)

StartLaunch(q, a) ==
  Start(q, a, IF assignment[a].status \in Terminal THEN "reload" ELSE "find")

RunsOf(a) == {x \in Requests : execution[x].of = a}

(* The execution the row names; for an agent also the Run under the key. *)
Found(q) ==
  LET a == request[q].assignment
      linked == request[q].row.link
  IN IF linked # None THEN linked
     ELSE IF TargetType[a] = "AGENT_VERSION" /\ RunsOf(a) # {}
       THEN CHOOSE x \in RunsOf(a) : TRUE
     ELSE None

Holding(q, x, at) ==
  request' = [request EXCEPT ![q].row.link = x, ![q].at = at]

FindExecution(q) ==
  /\ request[q].at = "find"
  /\ IF Found(q) # None THEN Holding(q, Found(q), "link") ELSE Go(q, "create")
  /\ UNCHANGED <<assignment, execution, faults>>

(* Mutant: the idempotency key of a Run is not unique. *)
TakesExisting(q) == FALSE

(* The insert of a Run meets the one under the key, which is taken. *)
MeetsExisting(q) ==
  TargetType[request[q].assignment] = "AGENT_VERSION" /\ RunsOf(request[q].assignment) # {}

CreateExecution(q) ==
  LET a == request[q].assignment
  IN /\ request[q].at = "create"
     /\ IF MeetsExisting(q)
          THEN /\ \E x \in RunsOf(a) : Holding(q, x, "link")
               /\ UNCHANGED execution
          ELSE /\ execution' = [execution EXCEPT ![q] = [of |-> a, status |-> "PENDING"]]
               /\ Holding(q, q, IF TargetType[a] = "AGENT_VERSION" THEN "queue" ELSE "link")
     /\ UNCHANGED <<assignment, faults>>

(* The rest of CreateRun: the Run is QUEUED and its job enqueued, a lost   *)
(* enqueue being repaired by the recovery ticker (RunLifecycle).           *)
QueueRun(q) ==
  /\ request[q].at = "queue"
  /\ execution' = [execution EXCEPT ![q].status = "ACTIVE"]
  /\ Go(q, "link")
  /\ UNCHANGED <<assignment, faults>>

(* markLaunched, on the row as it was read: compared with PENDING, or      *)
(* written over whatever is there when it was RUNNING.                     *)
LinkExecution(q) ==
  LET a == request[q].assignment
      row == request[q].row
      launched == [status |-> "RUNNING", link |-> row.link, started |-> TRUE]
  IN /\ request[q].at = "link"
     /\ IF row.status = "PENDING"
          THEN TransitionAssignment(q, a, "PENDING", launched, "reload")
          ELSE UpdateRow(q, a, launched, "reload")
     /\ UNCHANGED <<execution, faults>>

-----------------------------------------------------------------------------
(* CancelAssignment, UpdateAssignment *)

StartCancel(q, a) == Start(q, a, IF assignment[a].status = "PENDING" THEN "cancel" ELSE "done")

CancelAssignment(q) ==
  /\ request[q].at = "cancel"
  /\ TransitionAssignment(q, request[q].assignment, "PENDING",
                          [request[q].row EXCEPT !.status = "CANCELLED"], "done")
  /\ UNCHANGED <<execution, faults>>

(* Metadata may be edited as long as the row was not started when read. *)
StartUpdate(q, a) == Start(q, a, IF assignment[a].started THEN "done" ELSE "update")

UpdateAssignment(q) ==
  /\ request[q].at = "update"
  /\ UpdateRow(q, request[q].assignment, request[q].row, "done")
  /\ UNCHANGED <<execution, faults>>

-----------------------------------------------------------------------------
(* ReconcileAssignment, at the end of a launch or for a GET *)

StartGet(q, a) == Start(q, a, "reload")

Reload(q) ==
  /\ request[q].at = "reload"
  /\ request' = [request EXCEPT ![q].at = "reconcile",
                                ![q].row = assignment[request[q].assignment]]
  /\ UNCHANGED <<assignment, execution, faults>>

DeriveStatus(row) ==
  IF row.link = None THEN row.status
  ELSE CASE execution[row.link].status \in {"PENDING", "ACTIVE"} -> "RUNNING"
         [] execution[row.link].status = "SUCCEEDED" -> "COMPLETED"
         [] execution[row.link].status = "FAILED" -> "FAILED"
         [] execution[row.link].status = "CANCELLED" -> "CANCELLED"

(* The end of an execution is final, so reading it is one step with the    *)
(* write it leads to.                                                      *)
ReconcileAssignment(q) ==
  LET row == request[q].row
      derived == DeriveStatus(row)
  IN /\ request[q].at = "reconcile"
     /\ IF row.status \in Terminal \/ derived = row.status
          THEN Go(q, "done") /\ UNCHANGED assignment
          ELSE TransitionAssignment(q, request[q].assignment, row.status,
                 [row EXCEPT !.status = derived], "done")
     /\ UNCHANGED <<execution, faults>>

-----------------------------------------------------------------------------
(* The environment: executions go on by themselves, an orchestrator takes  *)
(* up WorkflowRuns, and requests die.  ACTIVE stands for QUEUED, RUNNING,  *)
(* WAITING and INTERRUPTED; FAILED for TIMED_OUT too.                      *)

WorkflowStarts(x) ==
  /\ execution[x].status = "PENDING"
  /\ TargetType[execution[x].of] = "WORKFLOW_VERSION"
  /\ execution' = [execution EXCEPT ![x].status = "ACTIVE"]
  /\ UNCHANGED <<assignment, request, faults>>

ExecutionEnds(x, outcome) ==
  /\ execution[x].status = "ACTIVE"
  /\ outcome = "CANCELLED" => TargetType[execution[x].of] = "AGENT_VERSION"
  /\ execution' = [execution EXCEPT ![x].status = outcome]
  /\ UNCHANGED <<assignment, request, faults>>

RequestDies(q) ==
  /\ faults < MaxFaults /\ faults' = faults + 1
  /\ request[q].at \notin {"idle", "done"}
  /\ Go(q, "done")
  /\ UNCHANGED <<assignment, execution>>

-----------------------------------------------------------------------------
Launch(q) == FindExecution(q) \/ CreateExecution(q) \/ QueueRun(q) \/ LinkExecution(q)
Reconcile(q) == Reload(q) \/ ReconcileAssignment(q)

Next ==
  \/ \E q \in Requests :
       \/ \E a \in Assignments : StartLaunch(q, a) \/ StartCancel(q, a) \/ StartUpdate(q, a)
       \/ Launch(q) \/ CancelAssignment(q) \/ UpdateAssignment(q)
       \/ \E outcome \in {"SUCCEEDED", "FAILED", "CANCELLED"} : ExecutionEnds(q, outcome)
       \/ WorkflowStarts(q)
  \/ \E q \in Readers : \E a \in Assignments : StartGet(q, a)
  \/ \E q \in Handlers : Reconcile(q) \/ RequestDies(q)

Spec == Init /\ [][Next]_vars

-----------------------------------------------------------------------------
(* An assignment ends the way an execution of its own did, the one it      *)
(* names, or was cancelled before it named any: also when a launch, an     *)
(* edit and a reconciliation have overwritten one another's rows.          *)
OutcomeIsOfLinked ==
  \A a \in Assignments :
    LET row == assignment[a]
    IN /\ row.link # None => execution[row.link].of = a
       /\ row.status = "COMPLETED" =>
            row.link # None /\ execution[row.link].status = "SUCCEEDED"
       /\ row.status = "FAILED" =>
            row.link # None /\ execution[row.link].status = "FAILED"
       /\ row.status = "CANCELLED" /\ row.link # None =>
            execution[row.link].status = "CANCELLED"

(* An agent's assignment is executed once, whatever is retried, raced or   *)
(* undone, and no row ever names another Run.                              *)
OneAgentRun ==
  \A a \in Assignments : TargetType[a] = "AGENT_VERSION" =>
    /\ Cardinality(RunsOf(a)) <= 1
    /\ assignment[a].link \in RunsOf(a) \cup {None}
=============================================================================
