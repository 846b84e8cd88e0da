--------------------------- MODULE EvaluationRuns ---------------------------
(***************************************************************************)
(* One EvaluationRun: the launch creates a child Run per case and then     *)
(* marks the EvaluationRun RUNNING; each worker that comes back from an    *)
(* attempt of a child Run records the case's result and, when it finds all *)
(* results there, ends the EvaluationRun and stores the assessment of its  *)
(* quality gate, which a client who looks at it does too.                  *)
(*                                                                         *)
(* Child Runs are those of RunLifecycle, reduced to what a worker comes    *)
(* back with: an attempt is started once, and ended by its worker or by    *)
(* the recovery ticker, which may let the Run go on with a next attempt.   *)
(***************************************************************************)
EXTENDS Integers, FiniteSets

CONSTANTS
  Cases,        \* the cases of the suite version, in the order of their keys
  MaxAttempts,  \* bound on the attempts of a child Run
  Workers,      \* slots of the worker processes
  Readers,      \* clients that look at the EvaluationRun
  MaxStalls,    \* BullMQ's maxStalledCount
  MaxFaults,    \* bound on leases that run out, jobs that stall, processes that die
  None

Attempts == 1 .. MaxAttempts
Outcomes == {"SCORED", "ERROR"}  \* SCORED stands for PASS and FAIL

ASSUME EvaluationAssumption ==
  /\ Cases \subseteq Nat
  /\ IsFiniteSet(Cases)
  /\ MaxAttempts \in Nat \ {0} /\ MaxStalls \in Nat /\ MaxFaults \in Nat
  /\ None \notin Workers \cup Cases /\ None \notin Outcomes

VARIABLES
  evaluation,  \* evaluation_runs: the status
  result,      \* evaluation_case_results: the outcome of each case
  gate,        \* evaluation_run_gate_assessments: what was assessed
  launch,      \* where LaunchEvaluationRun is
  run,         \* runs: the status of each case's child Run
  attempt,     \* run_attempts: their statuses
  job,         \* the jobs in Redis, one per attempt
  worker,      \* where each worker is and what it has read
  reader,      \* where each client's GetEvaluationRun is and what it has read
  faults,
  disturbed    \* whether a process has died or a handler has thrown

vars ==
  <<evaluation, result, gate, launch, run, attempt, job, worker, reader, faults, disturbed>>
fate == <<faults, disturbed>>
children == <<run, attempt, job>>

Terminal == {"COMPLETED", "FAILED"}
Statuses == {"absent", "PENDING", "RUNNING"} \cup Terminal
Results == [Cases -> Outcomes \cup {None}]
AttemptEnded == {"SUCCEEDED", "FAILED"}
NoJob == [state |-> "absent", lock |-> None, stalls |-> 0]
Idle == [at |-> "idle", case |-> None, attempt |-> 1, seen |-> "absent"]
Away == [at |-> "idle", seen |-> "absent", listed |-> [c \in Cases |-> None]]

TypeOK ==
  /\ evaluation \in Statuses
  /\ result \in Results
  /\ gate \in [status : Statuses, results : Results] \cup {None}
  /\ launch \in [at : {"save", "create", "queue", "enqueue", "done"}, todo : SUBSET Cases]
  /\ run \in [Cases -> {"absent", "PENDING", "QUEUED", "RUNNING", "INTERRUPTED"}
                         \cup AttemptEnded]
  /\ attempt \in [Cases -> [Attempts -> {"absent", "PENDING", "RUNNING"} \cup AttemptEnded]]
  /\ job \in [Cases -> [Attempts ->
       [state : {"absent", "waiting", "active", "kept"}, lock : Workers \cup {None},
        stalls : 0 .. MaxStalls]]]
  /\ worker \in [Workers ->
       [at : {"idle", "acquire", "execute", "find", "save", "status", "list",
              "transition", "gate"},
        case : Cases \cup {None}, attempt : Attempts, seen : Statuses]]
  /\ reader \in [Readers -> [at : {"idle", "list", "assess"}, seen : Statuses,
                             listed : Results]]
  /\ faults \in 0 .. MaxFaults /\ disturbed \in BOOLEAN

Init ==
  /\ evaluation = "absent"
  /\ result = [c \in Cases |-> None]
  /\ gate = None
  /\ launch = [at |-> "save", todo |-> Cases]
  /\ run = [c \in Cases |-> "absent"]
  /\ attempt = [c \in Cases |-> [n \in Attempts |-> "absent"]]
  /\ job = [c \in Cases |-> [n \in Attempts |-> NoJob]]
  /\ worker = [w \in Workers |-> Idle]
  /\ reader = [g \in Readers |-> Away]
  /\ faults = 0 /\ disturbed = FALSE

(* LEGAL_EVALUATION_RUN_TRANSITIONS; nothing cancels an EvaluationRun. *)
IsLegalTransition(from, to) ==
  <<from, to>> \in {<<"PENDING", "RUNNING">>, <<"PENDING", "FAILED">>,
                    <<"RUNNING", "COMPLETED">>, <<"RUNNING", "FAILED">>}

(* transitionEvaluationRun succeeds: the update compares the status. *)
MayTransition(expected, next) == IsLegalTransition(expected, next) /\ evaluation = expected

Fault == faults < MaxFaults /\ faults' = faults + 1

-----------------------------------------------------------------------------
(* LaunchEvaluationRun *)

SaveEvaluationRun ==
  /\ launch.at = "save"
  /\ evaluation' = "PENDING"
  /\ launch' = [launch EXCEPT !.at = "create"]
  /\ UNCHANGED <<result, gate, children, worker, reader, fate>>

NextCase == CHOOSE c \in launch.todo : \A k \in launch.todo : c <= k

CreateChildRun ==
  /\ launch.at = "create" /\ launch.todo # {}
  /\ run' = [run EXCEPT ![NextCase] = "PENDING"]
  /\ attempt' = [attempt EXCEPT ![NextCase][1] = "PENDING"]
  /\ launch' = [launch EXCEPT !.at = "queue"]
  /\ UNCHANGED <<evaluation, result, gate, job, worker, reader, fate>>

QueueChildRun ==
  /\ launch.at = "queue"
  /\ run' = [run EXCEPT ![NextCase] = "QUEUED"]
  /\ launch' = [launch EXCEPT !.at = "enqueue"]
  /\ UNCHANGED <<evaluation, result, gate, attempt, job, worker, reader, fate>>

(* A job is added under the attempt's id unless there is one. *)
AddJob(c, n) ==
  IF job[c][n].state = "absent"
    THEN [job EXCEPT ![c][n].state = "waiting"]
    ELSE job

EnqueueChildRun ==
  /\ launch.at = "enqueue"
  /\ job' = AddJob(NextCase, 1)
  /\ launch' = [at |-> "create", todo |-> launch.todo \ {NextCase}]
  /\ UNCHANGED <<evaluation, result, gate, run, attempt, worker, reader, fate>>

(* With all children under way; if one of them has failed the batch by     *)
(* then the request throws.                                                *)
MarkRunning ==
  /\ launch.at = "create" /\ launch.todo = {}
  /\ evaluation' = IF MayTransition("PENDING", "RUNNING") THEN "RUNNING" ELSE evaluation
  /\ launch' = [launch EXCEPT !.at = "done"]
  /\ UNCHANGED <<result, gate, children, worker, reader, fate>>

-----------------------------------------------------------------------------
(* Child Runs and their jobs *)

(* The handler goes on; it has returned or thrown, and the job is over     *)
(* either way, if it is still the handler's.                               *)
Go(w, at) == worker' = [worker EXCEPT ![w].at = at] /\ UNCHANGED job

Return(w) ==
  LET c == worker[w].case
      n == worker[w].attempt
  IN /\ worker' = [worker EXCEPT ![w] = Idle]
     /\ job' = IF job[c][n].lock = w
                 THEN [job EXCEPT ![c][n].state = "kept", ![c][n].lock = None]
                 ELSE job

IsStartable(c, n) == attempt[c][n] = "PENDING" /\ run[c] = "QUEUED"
IsAlreadyTerminal(c, n) == attempt[c][n] \in AttemptEnded /\ run[c] = attempt[c][n]

Hold(w, c, n, at) ==
  /\ job' = [job EXCEPT ![c][n].state = "active", ![c][n].lock = w]
  /\ worker' = [worker EXCEPT ![w] = [Idle EXCEPT !.at = at, !.case = c, !.attempt = n]]

(* ExecuteRunAttempt reads attempt and Run: it is about to start the       *)
(* attempt, finds it already-terminal, or has nothing to do: it is in      *)
(* progress, or the Run has gone on and the handler throws.                *)
TakeJob(w, c, n) ==
  /\ job[c][n].state = "waiting"
  /\ worker[w].at = "idle"
  /\ \/ IsStartable(c, n) /\ Hold(w, c, n, "acquire")
     \/ IsAlreadyTerminal(c, n) /\ Hold(w, c, n, "find")
     \/ /\ ~IsStartable(c, n) /\ ~IsAlreadyTerminal(c, n)
        /\ job' = [job EXCEPT ![c][n].state = "kept"]
        /\ UNCHANGED worker
  /\ UNCHANGED <<evaluation, result, gate, launch, run, attempt, reader, fate>>

(* The compare-and-set that starts the attempt.  After a conflict it is    *)
(* read again: one that has ended by now is reported, whatever its Run     *)
(* says, one that is in progress is left to the other handler.             *)
AcquireRunningLease(w) ==
  LET c == worker[w].case
      n == worker[w].attempt
  IN /\ worker[w].at = "acquire"
     /\ \/ /\ IsStartable(c, n)
           /\ attempt' = [attempt EXCEPT ![c][n] = "RUNNING"]
           /\ run' = [run EXCEPT ![c] = "RUNNING"]
           /\ Go(w, "execute")
        \/ /\ attempt[c][n] \in AttemptEnded
           /\ Go(w, "find")
           /\ UNCHANGED <<run, attempt>>
        \/ /\ ~IsStartable(c, n) /\ attempt[c][n] \notin AttemptEnded
           /\ Return(w)
           /\ UNCHANGED <<run, attempt>>
     /\ UNCHANGED <<evaluation, result, gate, launch, reader, fate>>

(* The runtime returns: the outcome is stored, unless the ticker has ended *)
(* the attempt, which the worker then finds FAILED (ownership-lost).       *)
FinishAttempt(w, outcome) ==
  LET c == worker[w].case
      n == worker[w].attempt
  IN /\ worker[w].at = "execute"
     /\ IF attempt[c][n] = "RUNNING"
          THEN /\ attempt' = [attempt EXCEPT ![c][n] = outcome]
               /\ run' = [run EXCEPT ![c] = outcome]
          ELSE UNCHANGED <<run, attempt>>
     /\ Go(w, "find")
     /\ UNCHANGED <<evaluation, result, gate, launch, reader, fate>>

(* The ticker ends an attempt whose lease ran out. *)
LeaseExpires(c, n) ==
  /\ Fault
  /\ attempt[c][n] = "RUNNING"
  /\ attempt' = [attempt EXCEPT ![c][n] = "FAILED"]
  /\ \E status \in {"FAILED", "INTERRUPTED"} : run' = [run EXCEPT ![c] = status]
  /\ UNCHANGED <<evaluation, result, gate, launch, job, worker, reader, disturbed>>

(* An interrupted Run is given a next attempt. *)
RecoverRun(c, n) ==
  /\ run[c] = "INTERRUPTED"
  /\ n > 1 /\ attempt[c][n] = "absent" /\ attempt[c][n - 1] # "absent"
  /\ attempt' = [attempt EXCEPT ![c][n] = "PENDING"]
  /\ run' = [run EXCEPT ![c] = "QUEUED"]
  /\ UNCHANGED <<evaluation, result, gate, launch, job, worker, reader, fate>>

(* The ticker enqueues the attempt of a QUEUED Run. *)
DeliverQueued(c, n) ==
  /\ run[c] = "QUEUED" /\ attempt[c][n] = "PENDING" /\ job[c][n].state = "absent"
  /\ job' = AddJob(c, n)
  /\ UNCHANGED <<evaluation, result, gate, launch, run, attempt, worker, reader, fate>>

MayRedeliver(c, n) == job[c][n].stalls < MaxStalls

Stall(c, n) ==
  /\ Fault
  /\ job[c][n].state = "active"
  /\ job' = [job EXCEPT ![c][n] =
       IF MayRedeliver(c, n)
         THEN [state |-> "waiting", lock |-> None, stalls |-> job[c][n].stalls + 1]
         ELSE [job[c][n] EXCEPT !.state = "kept", !.lock = None]]
  /\ UNCHANGED <<evaluation, result, gate, launch, run, attempt, worker, reader, disturbed>>

-----------------------------------------------------------------------------
(* ReconcileEvaluationCase, with an attempt that has ended *)

rest == <<launch, run, attempt, reader, fate>>

FindCaseResult(w) ==
  /\ worker[w].at = "find"
  /\ Go(w, IF result[worker[w].case] = None THEN "save" ELSE "status")
  /\ UNCHANGED <<evaluation, result, gate, rest>>

(* Mutant: the case is evaluated whether or not the attempt succeeded. *)
EvaluateAnyAttempt(status) == Outcomes

(* evaluateTerminalAttempt: what the evaluator finds in the output, and    *)
(* ERROR where it finds nothing it can evaluate.                           *)
EvaluateTerminalAttempt(status) == IF status = "SUCCEEDED" THEN Outcomes ELSE {"ERROR"}

(* Results are immutable: a second one throws. *)
SaveCaseResult(w) ==
  LET c == worker[w].case
  IN /\ worker[w].at = "save"
     /\ IF result[c] = None
          THEN /\ \E outcome \in EvaluateTerminalAttempt(attempt[c][worker[w].attempt]) :
                    result' = [result EXCEPT ![c] = outcome]
               /\ Go(w, "status")
          ELSE Return(w) /\ UNCHANGED result
     /\ UNCHANGED <<evaluation, gate, rest>>

(* reconcileEvaluationRunStatus *)
FindEvaluationRun(w) ==
  /\ worker[w].at = "status"
  /\ IF evaluation \in Terminal THEN Return(w)
     ELSE /\ worker' = [worker EXCEPT ![w].at = "list", ![w].seen = evaluation]
          /\ UNCHANGED job
  /\ UNCHANGED <<evaluation, result, gate, rest>>

Reported == {c \in Cases : result[c] # None}

(* Mutants: the count is off by one, either way. *)
IsAllButOne == Cardinality(Reported) >= Cardinality(Cases) - 1

IsComplete == Cardinality(Reported) >= Cardinality(Cases)

ListCaseResults(w) ==
  /\ worker[w].at = "list"
  /\ IF IsComplete THEN Go(w, "transition") ELSE Return(w)
  /\ UNCHANGED <<evaluation, result, gate, rest>>

NextStatus == IF \E c \in Cases : result[c] = "ERROR" THEN "FAILED" ELSE "COMPLETED"

(* A status that changed since, or a batch that is complete before it was  *)
(* marked RUNNING, makes the handler throw.                                *)
TransitionEvaluationRun(w) ==
  /\ worker[w].at = "transition"
  /\ IF MayTransition(worker[w].seen, NextStatus)
       THEN evaluation' = NextStatus /\ Go(w, "gate")
       ELSE Return(w) /\ UNCHANGED evaluation
  /\ UNCHANGED <<result, gate, rest>>

Assessed(status, results) ==
  IF gate = None THEN [status |-> status, results |-> results] ELSE gate

SaveGateAssessment(w) ==
  /\ worker[w].at = "gate"
  /\ gate' = Assessed(evaluation, result)
  /\ Return(w)
  /\ UNCHANGED <<evaluation, result, rest>>

Reconcile(w) ==
  \/ FindCaseResult(w) \/ SaveCaseResult(w) \/ FindEvaluationRun(w)
  \/ ListCaseResults(w) \/ TransitionEvaluationRun(w) \/ SaveGateAssessment(w)

-----------------------------------------------------------------------------
(* GetEvaluationRun: one that has not ended is shown with a preview of the *)
(* assessment, one that was assessed with the stored one.                  *)

(* Mutant: the assessment is stored once all results are there. *)
IsReported == Reported = Cases

IsFinal == evaluation \in Terminal

ReadEvaluationRun(g) ==
  /\ reader[g].at = "idle" /\ IsFinal /\ gate = None
  /\ reader' = [reader EXCEPT ![g].at = "list", ![g].seen = evaluation]
  /\ UNCHANGED <<evaluation, result, gate, launch, children, worker, fate>>

ReadCaseResults(g) ==
  /\ reader[g].at = "list"
  /\ reader' = [reader EXCEPT ![g].at = "assess", ![g].listed = result]
  /\ UNCHANGED <<evaluation, result, gate, launch, children, worker, fate>>

ResolveQualityGate(g) ==
  /\ reader[g].at = "assess"
  /\ gate' = Assessed(reader[g].seen, reader[g].listed)
  /\ reader' = [reader EXCEPT ![g] = Away]
  /\ UNCHANGED <<evaluation, result, launch, children, worker, fate>>

-----------------------------------------------------------------------------
(* The API process dies, or an enqueue throws. *)
LaunchDies ==
  /\ Fault /\ disturbed' = TRUE
  /\ launch.at # "done" /\ launch' = [launch EXCEPT !.at = "done"]
  /\ UNCHANGED <<evaluation, result, gate, children, worker, reader>>

(* A worker dies: the job keeps its lock until it stalls. *)
WorkerDies(w) ==
  /\ Fault /\ disturbed' = TRUE
  /\ worker[w].at # "idle" /\ worker' = [worker EXCEPT ![w] = Idle]
  /\ UNCHANGED <<evaluation, result, gate, launch, children, reader>>

(* A statement throws out of the handler, before it has reported: when it  *)
(* loads or acquires the attempt, builds its request, stores its outcome   *)
(* or reads it after a loss of the lease, or during the report.            *)
HandlerThrows(w) ==
  /\ Fault /\ disturbed' = TRUE
  /\ worker[w].at # "idle"
  /\ Return(w)
  /\ UNCHANGED <<evaluation, result, gate, launch, run, attempt, reader>>

Launch ==
  SaveEvaluationRun \/ CreateChildRun \/ QueueChildRun \/ EnqueueChildRun \/ MarkRunning

Step(w) ==
  \/ AcquireRunningLease(w)
  \/ \E outcome \in AttemptEnded : FinishAttempt(w, outcome)
  \/ Reconcile(w)

Next ==
  \/ Launch \/ LaunchDies
  \/ \E w \in Workers : Step(w) \/ WorkerDies(w) \/ HandlerThrows(w)
  \/ \E c \in Cases, n \in Attempts :
       \/ LeaseExpires(c, n) \/ RecoverRun(c, n) \/ DeliverQueued(c, n) \/ Stall(c, n)
       \/ \E w \in Workers : TakeJob(w, c, n)
  \/ \E g \in Readers : ReadEvaluationRun(g) \/ ReadCaseResults(g) \/ ResolveQualityGate(g)

Spec == Init /\ [][Next]_vars

(* Workers take jobs and go on with them, agents return, and the ticker    *)
(* delivers the attempts of QUEUED Runs.                                   *)
FairSpec ==
  /\ Spec
  /\ \A w \in Workers : WF_vars(Step(w))
  /\ WF_vars(\E w \in Workers, c \in Cases, n \in Attempts : TakeJob(w, c, n))
  /\ WF_vars(\E c \in Cases, n \in Attempts : DeliverQueued(c, n))

-----------------------------------------------------------------------------
(* The verdict on the batch is that of its results, all of them, whichever *)
(* worker counted them and however the last ones raced.                    *)
VerdictMatchesResults ==
  evaluation \in Terminal => Reported = Cases /\ evaluation = NextStatus

(* A case is scored by what an attempt that succeeded has returned, and is *)
(* an ERROR only after an attempt has ended.                               *)
OutcomesAreEarned ==
  \A c \in Cases :
    /\ result[c] = "SCORED" => run[c] = "SUCCEEDED"
    /\ result[c] # None => \E n \in Attempts : attempt[c][n] \in AttemptEnded

(* The one assessment that is ever stored is that of the final results,    *)
(* also when a client looks while the last of them come in.                *)
GateIsFinal ==
  gate # None => gate = [status |-> evaluation, results |-> result]

=============================================================================
