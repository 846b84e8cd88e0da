------------------------ MODULE EvaluationRunsProofs ------------------------
(* Proofs about EvaluationRuns for every suite, every number of workers,   *)
(* clients and attempts and every number of faults.                        *)
EXTENDS EvaluationRuns, FiniteSetTheorems, WellFoundedInduction, TLAPS

USE EvaluationAssumption

(* The launch goes on with one of the cases it has left. *)
LEMMA NextCaseAhead ==
  ASSUME TypeOK, launch.todo # {}
  PROVE  NextCase \in launch.todo /\ NextCase \in Cases
<1> DEFINE T == launch.todo
<1>1. T \subseteq Cases /\ T \subseteq Nat
  BY DEF TypeOK
<1>2. \E n \in T : \A k \in T : ~(<<k, n>> \in OpToRel(<, Nat))
  <2> HIDE DEF T
  <2> QED BY <1>1, WFMin, NatLessThanWellFounded, launch.todo # {} DEF T
<1>3. \E n \in T : \A k \in T : n <= k
  <2>1. PICK n \in T : \A k \in T : ~(<<k, n>> \in OpToRel(<, Nat))
    BY <1>2
  <2>2. ASSUME NEW k \in T PROVE n <= k
    <3>1. k \in Nat /\ n \in Nat
      BY <1>1
    <3>2. ~(k < n)
      BY <2>1, <3>1 DEF OpToRel
    <3> QED BY <3>1, <3>2
  <2> QED BY <2>2
<1> QED BY <1>1, <1>3 DEF NextCase

(* A worker that counts as many results as cases has them all. *)
LEMMA CompleteIsAll ==
  ASSUME IsComplete
  PROVE  Reported = Cases
<1>1. Reported \subseteq Cases
  BY DEF Reported
<1>2. IsFiniteSet(Reported) /\ Cardinality(Reported) <= Cardinality(Cases)
      /\ (Cardinality(Reported) = Cardinality(Cases) => Reported = Cases)
  BY <1>1, FS_Subset
<1>3. Cardinality(Reported) \in Nat /\ Cardinality(Cases) \in Nat
  BY <1>2, FS_CardinalityType
<1> QED BY <1>2, <1>3 DEF IsComplete

-----------------------------------------------------------------------------
(* Types *)

AttemptStates == {"absent", "PENDING", "RUNNING"} \cup AttemptEnded
RunStates == {"absent", "PENDING", "QUEUED", "RUNNING", "INTERRUPTED"} \cup AttemptEnded
Jobs == [state : {"absent", "waiting", "active", "kept"}, lock : Workers \cup {None},
         stalls : 0 .. MaxStalls]
Stages ==
  {"idle", "acquire", "execute", "find", "save", "status", "list", "transition", "gate"}
WorkerRecs == [at : Stages, case : Cases \cup {None}, attempt : Attempts, seen : Statuses]
ReaderRecs == [at : {"idle", "list", "assess"}, seen : Statuses, listed : Results]

(* A worker that is not idle is at work on a case. *)
Held == \A w \in Workers : worker[w].at # "idle" => worker[w].case \in Cases

(* The launch has a case in hand while it queues and enqueues it. *)
InHand == launch.at \in {"queue", "enqueue"} => launch.todo # {}

TInv == TypeOK /\ Held /\ InHand

(* The parts of TypeOK. *)
RowsOK ==
  /\ evaluation \in Statuses
  /\ result \in Results
  /\ gate \in [status : Statuses, results : Results] \cup {None}
ChildrenOK ==
  /\ run \in [Cases -> RunStates]
  /\ attempt \in [Cases -> [Attempts -> AttemptStates]]
JobsOK == job \in [Cases -> [Attempts -> Jobs]]
LaunchOK ==
  /\ launch \in [at : {"save", "create", "queue", "enqueue", "done"}, todo : SUBSET Cases]
  /\ InHand
WorkersOK == worker \in [Workers -> WorkerRecs] /\ Held
ReadersOK == reader \in [Readers -> ReaderRecs]
FateOK == faults \in 0 .. MaxFaults /\ disturbed \in BOOLEAN

LEMMA TInvParts ==
  TInv <=> RowsOK /\ ChildrenOK /\ JobsOK /\ LaunchOK /\ WorkersOK /\ ReadersOK /\ FateOK
BY DEF TInv, TypeOK, RowsOK, ChildrenOK, JobsOK, LaunchOK, WorkersOK, ReadersOK, FateOK,
       RunStates, AttemptStates, Jobs, Stages, WorkerRecs, ReaderRecs

LEMMA TInvPartsNext ==
  TInv' <=> RowsOK' /\ ChildrenOK' /\ JobsOK' /\ LaunchOK' /\ WorkersOK' /\ ReadersOK' /\ FateOK'
BY DEF TInv, TypeOK, RowsOK, ChildrenOK, JobsOK, LaunchOK, WorkersOK, ReadersOK, FateOK,
       RunStates, AttemptStates, Jobs, Stages, WorkerRecs, ReaderRecs, Held, InHand

LEMMA InitTInv == Init => TInv
<1> SUFFICES ASSUME Init PROVE TInv
  OBVIOUS
<1>1. 1 \in Attempts
  BY DEF Attempts
<1>2. LaunchOK /\ FateOK
  <2>1. disturbed \in BOOLEAN
    BY Zenon DEF Init
  <2> QED BY <2>1 DEF Init, LaunchOK, FateOK, InHand
<1>7. ChildrenOK
  BY DEF Init, ChildrenOK, RunStates, AttemptStates
<1>3. JobsOK
  BY DEF Init, JobsOK, NoJob, Jobs
<1>4. WorkersOK
  BY <1>1 DEF Init, WorkersOK, Idle, WorkerRecs, Stages, Held, Statuses
<1>5. [c \in Cases |-> None] \in Results
  BY DEF Results
<1>6. ReadersOK
  BY <1>5 DEF Init, ReadersOK, Away, ReaderRecs, Statuses
<1>8. RowsOK
  BY <1>5 DEF Init, RowsOK, Statuses
<1> QED BY <1>2, <1>3, <1>4, <1>6, <1>7, <1>8, TInvParts

(* A step that changes the parts it changes well. *)
LEMMA SameRows == ASSUME TInv, UNCHANGED <<evaluation, result, gate>> PROVE RowsOK'
BY TInvParts DEF RowsOK
LEMMA SameChildren == ASSUME TInv, UNCHANGED <<run, attempt>> PROVE ChildrenOK'
BY TInvParts DEF ChildrenOK
LEMMA SameJobs == ASSUME TInv, UNCHANGED job PROVE JobsOK'
BY TInvParts DEF JobsOK
LEMMA SameLaunch == ASSUME TInv, UNCHANGED launch PROVE LaunchOK'
BY TInvParts DEF LaunchOK, InHand
LEMMA SameWorkers == ASSUME TInv, UNCHANGED worker PROVE WorkersOK'
BY TInvParts DEF WorkersOK, Held
LEMMA SameReaders == ASSUME TInv, UNCHANGED reader PROVE ReadersOK'
BY TInvParts DEF ReadersOK
LEMMA SameFate == ASSUME TInv, UNCHANGED fate PROVE FateOK'
BY TInvParts DEF FateOK, fate
LEMMA FaultFate == ASSUME TInv, Fault, disturbed' \in BOOLEAN PROVE FateOK'
BY TInvParts DEF FateOK, Fault

(* One job changes. *)
LEMMA OneJob ==
  ASSUME TInv, NEW c \in Cases, NEW n \in Attempts, NEW r \in Jobs,
         job' = [job EXCEPT ![c][n] = r]
  PROVE  JobsOK'
BY TInvParts DEF JobsOK

LEMMA AddJobTyped ==
  ASSUME TInv, NEW c \in Cases, NEW n \in Attempts, job' = AddJob(c, n)
  PROVE  JobsOK'
<1>1. CASE job[c][n].state = "absent"
  <2> DEFINE r == [job[c][n] EXCEPT !.state = "waiting"]
  <2>1. job[c][n] \in Jobs
    BY TInvParts DEF JobsOK
  <2>2. r \in Jobs
    BY <2>1 DEF Jobs
  <2>3. job' = [job EXCEPT ![c][n] = r]
    BY <1>1 DEF AddJob
  <2> HIDE DEF r
  <2> QED BY <2>2, <2>3, OneJob
<1>2. CASE job[c][n].state # "absent"
  BY <1>2, SameJobs DEF AddJob
<1> QED BY <1>1, <1>2

(* One worker changes. *)
LEMMA OneWorker ==
  ASSUME TInv, NEW w \in Workers, NEW r \in WorkerRecs, r.at # "idle" => r.case \in Cases,
         worker' = [worker EXCEPT ![w] = r]
  PROVE  WorkersOK'
<1>1. worker \in [Workers -> WorkerRecs] /\ Held
  BY TInvParts DEF WorkersOK
<1>2. worker' \in [Workers -> WorkerRecs]
  BY <1>1
<1>3. Held'
  BY <1>1 DEF Held
<1> QED BY <1>2, <1>3 DEF WorkersOK

LEMMA IdleTyped == Idle \in WorkerRecs /\ Idle.at = "idle"
BY DEF Idle, WorkerRecs, Stages, Statuses, Attempts

LEMMA GoTyped ==
  ASSUME TInv, NEW w \in Workers, worker[w].at # "idle", NEW at \in Stages, Go(w, at)
  PROVE  WorkersOK' /\ JobsOK'
<1> DEFINE r == [worker[w] EXCEPT !.at = at]
<1>1. worker[w] \in WorkerRecs /\ worker[w].case \in Cases
  BY TInvParts DEF WorkersOK, Held
<1>2. r \in WorkerRecs /\ r.case \in Cases
  BY <1>1 DEF WorkerRecs
<1>3. worker' = [worker EXCEPT ![w] = r] /\ UNCHANGED job
  BY DEF Go
<1> HIDE DEF r
<1> QED BY <1>2, <1>3, OneWorker, SameJobs

LEMMA ReturnTyped ==
  ASSUME TInv, NEW w \in Workers, worker[w].at # "idle", Return(w)
  PROVE  WorkersOK' /\ JobsOK'
<1> DEFINE c == worker[w].case
           n == worker[w].attempt
           r == [job[c][n] EXCEPT !.state = "kept", !.lock = None]
<1>1. c \in Cases /\ n \in Attempts
  BY TInvParts DEF WorkersOK, Held, WorkerRecs
<1>2. WorkersOK'
  BY IdleTyped, OneWorker DEF Return
<1>3. job[c][n] \in Jobs
  BY <1>1, TInvParts DEF JobsOK
<1>4. r \in Jobs
  BY <1>3 DEF Jobs
<1>5. job' = [job EXCEPT ![c][n] = r] \/ UNCHANGED job
  BY DEF Return
<1> HIDE DEF c, n, r
<1>6. JobsOK'
  BY <1>1, <1>4, <1>5, OneJob, SameJobs
<1> QED BY <1>2, <1>6

(* One child Run and one of its attempts change. *)
LEMMA OneChild ==
  ASSUME TInv, NEW c \in Cases, NEW n \in Attempts, NEW r \in RunStates, NEW a \in AttemptStates,
         run' = [run EXCEPT ![c] = r], attempt' = [attempt EXCEPT ![c][n] = a]
  PROVE  ChildrenOK'
BY TInvParts DEF ChildrenOK

LEMMA OneRun ==
  ASSUME TInv, NEW c \in Cases, NEW r \in RunStates, run' = [run EXCEPT ![c] = r],
         UNCHANGED attempt
  PROVE  ChildrenOK'
BY TInvParts DEF ChildrenOK

LEMMA WorkerTyped ==
  ASSUME TInv, NEW w \in Workers
  PROVE  /\ worker[w] \in WorkerRecs
         /\ worker[w].at # "idle" => worker[w].case \in Cases
         /\ worker[w].attempt \in Attempts /\ worker[w].seen \in Statuses
BY TInvParts DEF WorkersOK, Held, WorkerRecs

LEMMA LaunchTyped ==
  ASSUME TInv, Launch \/ LaunchDies
  PROVE  TInv'
<1>0. TypeOK /\ 1 \in Attempts /\ launch.todo \subseteq Cases /\ InHand
  BY DEF TInv, TypeOK, Attempts
<1>n. launch.todo # {} => NextCase \in Cases
  BY <1>0, NextCaseAhead
<1>1. CASE SaveEvaluationRun
  <2>1. RowsOK' /\ LaunchOK'
    BY <1>1, TInvParts DEF SaveEvaluationRun, RowsOK, LaunchOK, InHand, Statuses
  <2> QED BY <1>1, <2>1, SameChildren, SameJobs, SameWorkers, SameReaders, SameFate, TInvPartsNext
          DEF SaveEvaluationRun, children
<1>2. CASE CreateChildRun
  <2>1. ChildrenOK'
    BY <1>0, <1>n, <1>2, OneChild DEF CreateChildRun, RunStates, AttemptStates
  <2>2. LaunchOK'
    BY <1>2, TInvParts DEF CreateChildRun, LaunchOK, InHand
  <2> QED BY <1>2, <2>1, <2>2, SameRows, SameJobs, SameWorkers, SameReaders, SameFate, TInvPartsNext
          DEF CreateChildRun
<1>3. CASE QueueChildRun
  <2>1. ChildrenOK'
    BY <1>0, <1>n, <1>3, OneRun DEF QueueChildRun, RunStates, InHand
  <2>2. LaunchOK'
    BY <1>3, TInvParts DEF QueueChildRun, LaunchOK, InHand
  <2> QED BY <1>3, <2>1, <2>2, SameRows, SameJobs, SameWorkers, SameReaders, SameFate, TInvPartsNext
          DEF QueueChildRun
<1>4. CASE EnqueueChildRun
  <2>1. JobsOK'
    BY <1>0, <1>n, <1>4, AddJobTyped DEF EnqueueChildRun, InHand
  <2>2. LaunchOK'
    BY <1>0, <1>4 DEF EnqueueChildRun, LaunchOK, InHand
  <2> QED BY <1>4, <2>1, <2>2, SameRows, SameChildren, SameWorkers, SameReaders, SameFate, TInvPartsNext
          DEF EnqueueChildRun
<1>5. CASE MarkRunning
  <2>1. RowsOK' /\ LaunchOK'
    BY <1>5, TInvParts DEF MarkRunning, RowsOK, LaunchOK, InHand, Statuses
  <2> QED BY <1>5, <2>1, SameChildren, SameJobs, SameWorkers, SameReaders, SameFate, TInvPartsNext
          DEF MarkRunning, children
<1>6. CASE LaunchDies
  <2>1. LaunchOK' /\ FateOK'
    BY <1>6, TInvParts, FaultFate DEF LaunchDies, LaunchOK, InHand
  <2> QED BY <1>6, <2>1, SameRows, SameChildren, SameJobs, SameWorkers, SameReaders, TInvPartsNext
          DEF LaunchDies, children
<1> QED BY <1>1, <1>2, <1>3, <1>4, <1>5, <1>6 DEF Launch

LEMMA TakeJobTyped ==
  ASSUME TInv, NEW w \in Workers, NEW c \in Cases, NEW n \in Attempts, TakeJob(w, c, n)
  PROVE  TInv'
<1>1. job[c][n] \in Jobs
  BY TInvParts DEF JobsOK
<1>2. ASSUME NEW at \in Stages, Hold(w, c, n, at) PROVE JobsOK' /\ WorkersOK'
  <2> DEFINE r == [job[c][n] EXCEPT !.state = "active", !.lock = w]
             v == [Idle EXCEPT !.at = at, !.case = c, !.attempt = n]
  <2>1. r \in Jobs
    BY <1>1 DEF Jobs
  <2>2. v \in WorkerRecs /\ v.case \in Cases
    BY IdleTyped DEF WorkerRecs, Idle
  <2>3. job' = [job EXCEPT ![c][n] = r] /\ worker' = [worker EXCEPT ![w] = v]
    BY <1>2 DEF Hold
  <2> HIDE DEF r, v
  <2> QED BY <2>1, <2>2, <2>3, OneJob, OneWorker
<1>4. CASE Hold(w, c, n, "acquire") \/ Hold(w, c, n, "find")
  <2>1. JobsOK' /\ WorkersOK'
    BY <1>2, <1>4 DEF Stages
  <2> QED BY <2>1, SameChildren, SameRows, SameLaunch, SameReaders, SameFate, TInvPartsNext
          DEF TakeJob
<1>5. CASE job' = [job EXCEPT ![c][n].state = "kept"] /\ UNCHANGED worker
  <2> DEFINE r == [job[c][n] EXCEPT !.state = "kept"]
  <2>1. r \in Jobs /\ job' = [job EXCEPT ![c][n] = r]
    BY <1>1, <1>5 DEF Jobs
  <2> HIDE DEF r
  <2>2. JobsOK'
    BY <2>1, OneJob
  <2> QED BY <1>5, <2>2, SameChildren, SameRows, SameLaunch, SameWorkers, SameReaders, SameFate,
             TInvPartsNext DEF TakeJob
<1> QED BY <1>4, <1>5 DEF TakeJob

LEMMA StepTyped ==
  ASSUME TInv, NEW w \in Workers, Step(w)
  PROVE  TInv'
<1>0. /\ worker[w] \in WorkerRecs /\ worker[w].attempt \in Attempts
      /\ worker[w].at # "idle" => worker[w].case \in Cases
  BY WorkerTyped
<1>s. /\ "execute" \in Stages
      /\ "find" \in Stages /\ "save" \in Stages /\ "status" \in Stages
      /\ "transition" \in Stages /\ "gate" \in Stages
  BY DEF Stages
<1>1. ASSUME NEW outcome \in AttemptEnded, FinishAttempt(w, outcome) PROVE TInv'
  <2> DEFINE c == worker[w].case
             n == worker[w].attempt
  <2>1. c \in Cases /\ n \in Attempts /\ worker[w].at # "idle"
    BY <1>0, <1>1 DEF FinishAttempt
  <2>2. outcome \in RunStates /\ outcome \in AttemptStates
    BY DEF RunStates, AttemptStates
  <2>3. \/ run' = [run EXCEPT ![c] = outcome] /\ attempt' = [attempt EXCEPT ![c][n] = outcome]
        \/ UNCHANGED <<run, attempt>>
    BY <1>1 DEF FinishAttempt
  <2> HIDE DEF c, n
  <2>4. ChildrenOK'
    BY <2>1, <2>2, <2>3, OneChild, SameChildren
  <2>5. WorkersOK' /\ JobsOK'
    BY <1>1, <1>s, <2>1, GoTyped DEF FinishAttempt
  <2> QED BY <1>1, <2>4, <2>5, SameRows, SameLaunch, SameReaders, SameFate, TInvPartsNext
          DEF FinishAttempt
<1>8. CASE AcquireRunningLease(w)
  <2> DEFINE c == worker[w].case
             n == worker[w].attempt
  <2>1. c \in Cases /\ n \in Attempts /\ worker[w].at # "idle"
    BY <1>0, <1>8 DEF AcquireRunningLease
  <2>2. "RUNNING" \in RunStates /\ "RUNNING" \in AttemptStates
    BY DEF RunStates, AttemptStates
  <2>3. \/ run' = [run EXCEPT ![c] = "RUNNING"] /\ attempt' = [attempt EXCEPT ![c][n] = "RUNNING"]
        \/ UNCHANGED <<run, attempt>>
    BY <1>8 DEF AcquireRunningLease
  <2>5. WorkersOK' /\ JobsOK'
    BY <1>8, <1>s, <2>1, GoTyped, ReturnTyped DEF AcquireRunningLease
  <2> HIDE DEF c, n
  <2>4. ChildrenOK'
    BY <2>1, <2>2, <2>3, OneChild, SameChildren
  <2> QED BY <1>8, <2>4, <2>5, SameRows, SameLaunch, SameReaders, SameFate, TInvPartsNext
          DEF AcquireRunningLease
<1>2. CASE FindCaseResult(w)
  <2>1. WorkersOK' /\ JobsOK'
    BY <1>2, <1>s, GoTyped DEF FindCaseResult
  <2> QED BY <1>2, <2>1, SameRows, SameChildren, SameLaunch, SameReaders, SameFate, TInvPartsNext
          DEF FindCaseResult, rest
<1>3. CASE SaveCaseResult(w)
  <2>1. WorkersOK' /\ JobsOK'
    BY <1>3, <1>s, GoTyped, ReturnTyped DEF SaveCaseResult
  <2>2. ASSUME NEW s PROVE EvaluateTerminalAttempt(s) \subseteq Outcomes
    BY DEF EvaluateTerminalAttempt, Outcomes
  <2>3. result' \in Results
    <3>1. CASE UNCHANGED result
      BY <3>1, TInvParts DEF RowsOK
    <3>2. CASE \E outcome \in Outcomes : result' = [result EXCEPT ![worker[w].case] = outcome]
      BY <3>2, TInvParts DEF RowsOK, Results
    <3> QED BY <1>3, <2>2, <3>1, <3>2 DEF SaveCaseResult
  <2>4. RowsOK'
    BY <1>3, <2>3, TInvParts DEF SaveCaseResult, RowsOK
  <2> QED BY <1>3, <2>1, <2>4, SameChildren, SameLaunch, SameReaders, SameFate, TInvPartsNext
          DEF SaveCaseResult, rest
<1>4. CASE FindEvaluationRun(w)
  <2>1. CASE evaluation \in Terminal
    <3>1. WorkersOK' /\ JobsOK'
      BY <1>4, <2>1, ReturnTyped DEF FindEvaluationRun
    <3> QED BY <1>4, <3>1, SameRows, SameChildren, SameLaunch, SameReaders, SameFate, TInvPartsNext
            DEF FindEvaluationRun, rest
  <2>2. CASE evaluation \notin Terminal
    <3> DEFINE r == [worker[w] EXCEPT !.at = "list", !.seen = evaluation]
    <3>1. evaluation \in Statuses
      BY TInvParts DEF RowsOK
    <3>2. r \in WorkerRecs /\ r.case \in Cases
      BY <1>0, <1>4, <3>1 DEF FindEvaluationRun, WorkerRecs, Stages
    <3>3. worker' = [worker EXCEPT ![w] = r] /\ UNCHANGED job
      BY <1>4, <2>2 DEF FindEvaluationRun
    <3> HIDE DEF r
    <3>4. WorkersOK' /\ JobsOK'
      BY <3>2, <3>3, OneWorker, SameJobs
    <3> QED BY <1>4, <3>4, SameRows, SameChildren, SameLaunch, SameReaders, SameFate, TInvPartsNext
            DEF FindEvaluationRun, rest
  <2> QED BY <2>1, <2>2
<1>5. CASE ListCaseResults(w)
  <2>1. WorkersOK' /\ JobsOK'
    BY <1>5, <1>s, GoTyped, ReturnTyped DEF ListCaseResults
  <2> QED BY <1>5, <2>1, SameRows, SameChildren, SameLaunch, SameReaders, SameFate, TInvPartsNext
          DEF ListCaseResults, rest
<1>6. CASE TransitionEvaluationRun(w)
  <2>1. WorkersOK' /\ JobsOK'
    BY <1>6, <1>s, GoTyped, ReturnTyped DEF TransitionEvaluationRun
  <2>2. RowsOK'
    BY <1>6, TInvParts DEF TransitionEvaluationRun, RowsOK, NextStatus, Statuses, Terminal
  <2> QED BY <1>6, <2>1, <2>2, SameChildren, SameLaunch, SameReaders, SameFate, TInvPartsNext
          DEF TransitionEvaluationRun, rest
<1>7. CASE SaveGateAssessment(w)
  <2>1. WorkersOK' /\ JobsOK'
    BY <1>7, ReturnTyped DEF SaveGateAssessment
  <2>2. RowsOK'
    BY <1>7, TInvParts DEF SaveGateAssessment, RowsOK, Assessed
  <2> QED BY <1>7, <2>1, <2>2, SameChildren, SameLaunch, SameReaders, SameFate, TInvPartsNext
          DEF SaveGateAssessment, rest
<1> QED BY <1>1, <1>2, <1>3, <1>4, <1>5, <1>6, <1>7, <1>8 DEF Step, Reconcile

LEMMA WorkerFaultTyped ==
  ASSUME TInv, NEW w \in Workers, WorkerDies(w) \/ HandlerThrows(w)
  PROVE  TInv'
<1>0. TRUE \in BOOLEAN
  OBVIOUS
<1>1. CASE WorkerDies(w)
  <2>1. WorkersOK' /\ FateOK'
    BY <1>0, <1>1, IdleTyped, OneWorker, FaultFate DEF WorkerDies
  <2> QED BY <1>1, <2>1, SameRows, SameChildren, SameJobs, SameLaunch, SameReaders, TInvPartsNext
          DEF WorkerDies, children
<1>2. CASE HandlerThrows(w)
  <2>1. WorkersOK' /\ JobsOK'
    BY <1>2, ReturnTyped DEF HandlerThrows
  <2>2. FateOK'
    BY <1>0, <1>2, FaultFate DEF HandlerThrows
  <2> QED BY <1>2, <2>1, <2>2, SameRows, SameChildren, SameLaunch, SameReaders, TInvPartsNext
          DEF HandlerThrows
<1> QED BY <1>1, <1>2

LEMMA ChildTyped ==
  ASSUME TInv, NEW c \in Cases, NEW n \in Attempts,
         LeaseExpires(c, n) \/ RecoverRun(c, n) \/ DeliverQueued(c, n) \/ Stall(c, n)
  PROVE  TInv'
<1>0. disturbed \in BOOLEAN /\ job[c][n] \in Jobs
  BY TInvParts DEF FateOK, JobsOK
<1>1. CASE LeaseExpires(c, n)
  <2>1. PICK status \in {"FAILED", "INTERRUPTED"} : run' = [run EXCEPT ![c] = status]
    BY <1>1 DEF LeaseExpires
  <2>2. status \in RunStates /\ "FAILED" \in AttemptStates
    BY DEF RunStates, AttemptStates, AttemptEnded
  <2>3. ChildrenOK'
    BY <1>1, <2>1, <2>2, OneChild DEF LeaseExpires
  <2>4. FateOK'
    BY <1>0, <1>1, FaultFate DEF LeaseExpires
  <2> QED BY <1>1, <2>3, <2>4, SameRows, SameJobs, SameLaunch, SameWorkers, SameReaders, TInvPartsNext
          DEF LeaseExpires
<1>2. CASE RecoverRun(c, n)
  <2>1. "QUEUED" \in RunStates /\ "PENDING" \in AttemptStates
    BY DEF RunStates, AttemptStates
  <2>2. ChildrenOK'
    BY <1>2, <2>1, OneChild DEF RecoverRun
  <2> QED BY <1>2, <2>2, SameRows, SameJobs, SameLaunch, SameWorkers, SameReaders, SameFate,
             TInvPartsNext DEF RecoverRun
<1>3. CASE DeliverQueued(c, n)
  <2>1. JobsOK'
    BY <1>3, AddJobTyped DEF DeliverQueued
  <2> QED BY <1>3, <2>1, SameRows, SameChildren, SameLaunch, SameWorkers, SameReaders, SameFate,
             TInvPartsNext DEF DeliverQueued
<1>4. CASE Stall(c, n)
  <2> DEFINE r == IF MayRedeliver(c, n)
                    THEN [state |-> "waiting", lock |-> None, stalls |-> job[c][n].stalls + 1]
                    ELSE [job[c][n] EXCEPT !.state = "kept", !.lock = None]
  <2>1. r \in Jobs
    <3>1. CASE MayRedeliver(c, n)
      BY <1>0, <3>1 DEF MayRedeliver, Jobs
    <3>2. CASE ~MayRedeliver(c, n)
      BY <1>0, <3>2 DEF Jobs
    <3> QED BY <3>1, <3>2
  <2>2. job' = [job EXCEPT ![c][n] = r]
    BY <1>4 DEF Stall
  <2> HIDE DEF r
  <2>3. JobsOK'
    BY <2>1, <2>2, OneJob
  <2>4. FateOK'
    BY <1>0, <1>4, FaultFate DEF Stall
  <2> QED BY <1>4, <2>3, <2>4, SameRows, SameChildren, SameLaunch, SameWorkers, SameReaders,
             TInvPartsNext DEF Stall
<1> QED BY <1>1, <1>2, <1>3, <1>4

LEMMA ReaderTyped ==
  ASSUME TInv, NEW g \in Readers,
         ReadEvaluationRun(g) \/ ReadCaseResults(g) \/ ResolveQualityGate(g)
  PROVE  TInv'
<1>0. /\ reader \in [Readers -> ReaderRecs] /\ evaluation \in Statuses /\ result \in Results
      /\ gate \in [status : Statuses, results : Results] \cup {None}
  BY TInvParts DEF ReadersOK, RowsOK
<1>1. CASE ReadEvaluationRun(g)
  <2>1. ReadersOK'
    BY <1>0, <1>1 DEF ReadEvaluationRun, ReadersOK, ReaderRecs
  <2> QED BY <1>1, <2>1, SameRows, SameChildren, SameJobs, SameLaunch, SameWorkers, SameFate,
             TInvPartsNext DEF ReadEvaluationRun, children
<1>2. CASE ReadCaseResults(g)
  <2>1. ReadersOK'
    BY <1>0, <1>2 DEF ReadCaseResults, ReadersOK, ReaderRecs
  <2> QED BY <1>2, <2>1, SameRows, SameChildren, SameJobs, SameLaunch, SameWorkers, SameFate,
             TInvPartsNext DEF ReadCaseResults, children
<1>3. CASE ResolveQualityGate(g)
  <2>1. [c \in Cases |-> None] \in Results
    BY DEF Results
  <2>2. Away \in ReaderRecs
    BY <2>1 DEF Away, ReaderRecs, Statuses
  <2>3. ReadersOK'
    BY <1>0, <1>3, <2>2 DEF ResolveQualityGate, ReadersOK
  <2>4. reader[g].seen \in Statuses /\ reader[g].listed \in Results
    BY <1>0 DEF ReaderRecs
  <2>5. RowsOK'
    BY <1>0, <1>3, <2>4 DEF ResolveQualityGate, RowsOK, Assessed
  <2> QED BY <1>3, <2>3, <2>5, SameChildren, SameJobs, SameLaunch, SameWorkers, SameFate,
             TInvPartsNext DEF ResolveQualityGate, children
<1> QED BY <1>1, <1>2, <1>3

LEMMA NextTInv == TInv /\ [Next]_vars => TInv'
<1> SUFFICES ASSUME TInv, [Next]_vars PROVE TInv'
  OBVIOUS
<1>1. CASE UNCHANGED vars
  BY <1>1, SameRows, SameChildren, SameJobs, SameLaunch, SameWorkers, SameReaders, SameFate,
     TInvPartsNext DEF vars, fate
<1>2. CASE Next
  BY <1>2, LaunchTyped, StepTyped, WorkerFaultTyped, ChildTyped, TakeJobTyped, ReaderTyped DEF Next
<1> QED BY <1>1, <1>2

LEMMA TInvHolds == Spec => []TInv
BY InitTInv, NextTInv, PTL DEF Spec

-----------------------------------------------------------------------------
(* Child Runs *)

Live == {"PENDING", "RUNNING"}

(* A child Run is where its attempts are, and has one at a time. *)
ChildOK(c) ==
  /\ run[c] = "absent" => \A n \in Attempts : attempt[c][n] = "absent"
  /\ \A n \in Attempts :
       /\ attempt[c][n] = "PENDING" => run[c] \in {"PENDING", "QUEUED"}
       /\ attempt[c][n] = "RUNNING" => run[c] = "RUNNING"
       /\ attempt[c][n] = "SUCCEEDED" => run[c] = "SUCCEEDED"
  /\ \A n, m \in Attempts : attempt[c][n] \in Live /\ attempt[c][m] \in Live => n = m

(* What the launch has not come to is not there yet. *)
Fresh ==
  /\ launch.at = "save" => evaluation = "absent"
  /\ launch.at \in {"save", "create"} => \A c \in launch.todo : run[c] = "absent"
  /\ launch.at \in {"queue", "enqueue"} =>
       \A c \in launch.todo : c # NextCase => run[c] = "absent"
  /\ launch.at = "queue" => run[NextCase] = "PENDING"

CInv == Fresh /\ \A c \in Cases : ChildOK(c)

(* What no step takes back. *)
ChildrenStable ==
  /\ \A c \in Cases, n \in Attempts :
       /\ attempt[c][n] \in AttemptEnded => attempt'[c][n] = attempt[c][n]
       /\ attempt[c][n] = "RUNNING" => attempt'[c][n] \in {"RUNNING"} \cup AttemptEnded
  /\ \A c \in Cases : run[c] = "SUCCEEDED" => run'[c] = "SUCCEEDED"

LEMMA InitCInv == Init => CInv
<1> SUFFICES ASSUME Init PROVE CInv
  OBVIOUS
<1>1. ASSUME NEW c \in Cases
      PROVE  run[c] = "absent" /\ \A n \in Attempts : attempt[c][n] = "absent"
  BY DEF Init
<1>2. Fresh
  BY <1>1 DEF Init, Fresh
<1>3. ASSUME NEW c \in Cases PROVE ChildOK(c)
  BY <1>1 DEF ChildOK, Live
<1> QED BY <1>2, <1>3 DEF CInv

LEMMA SameCase == ASSUME launch'.todo = launch.todo PROVE NextCase' = NextCase
BY DEF NextCase

(* A step that leaves the launch and what it has yet to do alone. *)
LEMMA FreshKept ==
  ASSUME TInv, Fresh, UNCHANGED launch,
         \A c \in Cases : run[c] \in {"absent", "PENDING"} => run'[c] = run[c],
         launch.at = "save" => UNCHANGED evaluation
  PROVE  Fresh'
<1>1. launch.todo \subseteq Cases /\ TypeOK /\ InHand
  BY DEF TInv, TypeOK
<1>2. NextCase' = NextCase
  BY SameCase
<1>3. launch.at = "queue" => NextCase \in Cases
  BY <1>1, NextCaseAhead DEF InHand
<1> QED BY <1>1, <1>2, <1>3 DEF Fresh

(* A step of one child Run. *)
LEMMA ChildMoves ==
  ASSUME TInv, CInv, NEW c \in Cases,
         \A e \in Cases : e # c => run'[e] = run[e] /\ attempt'[e] = attempt[e],
         ChildOK(c)'
  PROVE  \A e \in Cases : ChildOK(e)'
<1> SUFFICES ASSUME NEW e \in Cases, e # c PROVE ChildOK(e)'
  OBVIOUS
<1> QED BY DEF CInv, ChildOK

LEMMA NoChildMoves ==
  ASSUME TInv, CInv, UNCHANGED <<run, attempt>>
  PROVE  (\A e \in Cases : ChildOK(e)') /\ ChildrenStable
<1>1. ASSUME NEW e \in Cases PROVE ChildOK(e)'
  BY DEF CInv, ChildOK
<1>2. ChildrenStable
  BY DEF ChildrenStable
<1> QED BY <1>1, <1>2

(* A step that is none of the launch and moves no child Run. *)
LEMMA OtherCInv ==
  ASSUME TInv, CInv, UNCHANGED <<launch, run, attempt>>,
         launch.at = "save" => UNCHANGED evaluation
  PROVE  CInv' /\ ChildrenStable
BY FreshKept, NoChildMoves DEF CInv

(* The attempts and the Run of one case after a step. *)
LEMMA OneChildMoved ==
  ASSUME TInv, NEW c \in Cases, NEW n \in Attempts, NEW r, NEW a,
         run' = [run EXCEPT ![c] = r], attempt' = [attempt EXCEPT ![c][n] = a]
  PROVE  /\ run'[c] = r /\ attempt'[c][n] = a
         /\ \A m \in Attempts : m # n => attempt'[c][m] = attempt[c][m]
         /\ \A e \in Cases : e # c => run'[e] = run[e] /\ attempt'[e] = attempt[e]
BY TInvParts DEF ChildrenOK

LEMMA LaunchCInv ==
  ASSUME TInv, CInv, Launch \/ LaunchDies
  PROVE  CInv' /\ ChildrenStable
<1>0. /\ launch \in [at : {"save", "create", "queue", "enqueue", "done"}, todo : SUBSET Cases]
      /\ TypeOK /\ 1 \in Attempts /\ InHand
  BY DEF TInv, TypeOK, Attempts
<1>n. launch.todo # {} => NextCase \in Cases /\ NextCase \in launch.todo
  BY <1>0, NextCaseAhead
<1>1. CASE SaveEvaluationRun \/ MarkRunning \/ LaunchDies
  <2>1. UNCHANGED <<run, attempt>> /\ launch'.todo = launch.todo
        /\ \/ launch.at = "save" /\ launch'.at = "create"
           \/ launch'.at = "done"
    BY <1>0, <1>1 DEF SaveEvaluationRun, MarkRunning, LaunchDies, children
  <2>2. Fresh'
    BY <1>0, <2>1, SameCase DEF CInv, Fresh
  <2> QED BY <2>1, <2>2, NoChildMoves DEF CInv
<1>2. CASE CreateChildRun
  <2>0. PICK c \in Cases : c = NextCase
    BY <1>0, <1>n, <1>2 DEF CreateChildRun
  <2>1. /\ c \in Cases /\ c \in launch.todo /\ launch.at = "create" /\ launch'.at = "queue"
        /\ launch'.todo = launch.todo
        /\ run' = [run EXCEPT ![c] = "PENDING"] /\ attempt' = [attempt EXCEPT ![c][1] = "PENDING"]
    BY <1>0, <1>n, <1>2, <2>0 DEF CreateChildRun
  <2>2. run[c] = "absent" /\ \A n \in Attempts : attempt[c][n] = "absent"
    BY <2>0, <2>1 DEF CInv, Fresh, ChildOK
  <2>3. NextCase' = c
    BY <2>0, <2>1, SameCase
  <2>4. /\ run'[c] = "PENDING" /\ attempt'[c][1] = "PENDING"
        /\ \A m \in Attempts : m # 1 => attempt'[c][m] = attempt[c][m]
        /\ \A e \in Cases : e # c => run'[e] = run[e] /\ attempt'[e] = attempt[e]
    BY <1>0, <2>1, OneChildMoved
  <2>5. ChildOK(c)'
    BY <1>0, <2>2, <2>4 DEF ChildOK, Live
  <2>6. Fresh'
    BY <1>0, <2>0, <2>1, <2>3, <2>4 DEF CInv, Fresh
  <2>7. ChildrenStable
    BY <2>2, <2>4 DEF ChildrenStable, AttemptEnded
  <2> QED BY <2>1, <2>4, <2>5, <2>6, <2>7, ChildMoves DEF CInv
<1>3. CASE QueueChildRun
  <2>0. PICK c \in Cases : c = NextCase
    BY <1>0, <1>n, <1>3 DEF QueueChildRun, InHand
  <2>1. /\ c \in Cases /\ launch.at = "queue" /\ launch'.at = "enqueue"
        /\ launch'.todo = launch.todo
        /\ run' = [run EXCEPT ![c] = "QUEUED"] /\ UNCHANGED attempt
    BY <1>0, <1>n, <1>3, <2>0 DEF QueueChildRun, InHand
  <2>2. run[c] = "PENDING" /\ ChildOK(c)
    BY <2>0, <2>1 DEF CInv, Fresh
  <2>3. NextCase' = c
    BY <2>0, <2>1, SameCase
  <2>4. \A e \in launch.todo : e # c => run[e] = "absent"
    BY <2>0, <2>1 DEF CInv, Fresh
  <2>5. run'[c] = "QUEUED" /\ \A e \in Cases : e # c => run'[e] = run[e] /\ attempt'[e] = attempt[e]
    BY <2>1, TInvParts DEF ChildrenOK
  <2>6. ChildOK(c)'
    BY <2>1, <2>2, <2>5 DEF ChildOK
  <2>7. Fresh'
    BY <1>0, <2>1, <2>3, <2>4, <2>5 DEF Fresh
  <2>8. ChildrenStable
    BY <2>1, <2>2, <2>5 DEF ChildrenStable
  <2> QED BY <2>1, <2>5, <2>6, <2>7, <2>8, ChildMoves DEF CInv
<1>4. CASE EnqueueChildRun
  <2>1. /\ launch.at = "enqueue" /\ launch'.at = "create" /\ launch'.todo = launch.todo \ {NextCase}
        /\ UNCHANGED <<run, attempt>>
    BY <1>4 DEF EnqueueChildRun
  <2>2. Fresh'
    BY <2>1 DEF CInv, Fresh
  <2> QED BY <2>1, <2>2, NoChildMoves DEF CInv
<1> QED BY <1>1, <1>2, <1>3, <1>4 DEF Launch

(* An attempt of a case starts, ends or is added. *)
LEMMA AttemptCInv ==
  ASSUME TInv, CInv, NEW c \in Cases, NEW n \in Attempts, NEW r, NEW a,
         run' = [run EXCEPT ![c] = r], attempt' = [attempt EXCEPT ![c][n] = a],
         UNCHANGED launch, UNCHANGED evaluation,
         \/ /\ attempt[c][n] = "PENDING" /\ run[c] = "QUEUED"
            /\ a = "RUNNING" /\ r = "RUNNING"
         \/ /\ attempt[c][n] = "RUNNING"
            /\ a \in AttemptEnded /\ r \in AttemptEnded \cup {"INTERRUPTED"}
            /\ a = "SUCCEEDED" => r = "SUCCEEDED"
         \/ /\ attempt[c][n] = "absent" /\ run[c] = "INTERRUPTED"
            /\ a = "PENDING" /\ r = "QUEUED"
  PROVE  CInv' /\ ChildrenStable
<1>1. /\ run'[c] = r /\ attempt'[c][n] = a
      /\ \A m \in Attempts : m # n => attempt'[c][m] = attempt[c][m]
      /\ \A e \in Cases : e # c => run'[e] = run[e] /\ attempt'[e] = attempt[e]
  BY OneChildMoved
<1>2. ChildOK(c)
  BY DEF CInv
<1>3. run[c] \in {"QUEUED", "RUNNING", "INTERRUPTED"}
  BY <1>2 DEF ChildOK
<1>4. Fresh'
  BY <1>1, <1>3, FreshKept DEF CInv
<1>5. ChildrenStable
  BY <1>1, <1>3 DEF ChildrenStable, AttemptEnded
<1>6. ChildOK(c)'
  <2>1. CASE attempt[c][n] = "PENDING"
    BY <1>1, <1>2, <2>1 DEF ChildOK, Live, AttemptEnded
  <2>2. CASE attempt[c][n] = "RUNNING"
    BY <1>1, <1>2, <2>2 DEF ChildOK, Live, AttemptEnded
  <2>3. CASE attempt[c][n] = "absent"
    BY <1>1, <1>2, <2>3 DEF ChildOK, Live, AttemptEnded
  <2> QED BY <2>1, <2>2, <2>3
<1> QED BY <1>1, <1>4, <1>5, <1>6, ChildMoves DEF CInv

LEMMA NextCInv ==
  ASSUME TInv, CInv, [Next]_vars
  PROVE  CInv' /\ ChildrenStable
<1>1. CASE UNCHANGED vars
  BY <1>1, OtherCInv DEF vars
<1>2. CASE Launch \/ LaunchDies
  BY <1>2, LaunchCInv
<1>3. ASSUME NEW w \in Workers, NEW outcome \in AttemptEnded, FinishAttempt(w, outcome)
      PROVE  CInv' /\ ChildrenStable
  <2> DEFINE c == worker[w].case
             n == worker[w].attempt
  <2>1. c \in Cases /\ n \in Attempts /\ UNCHANGED launch /\ UNCHANGED evaluation
    BY <1>3, WorkerTyped DEF FinishAttempt
  <2>2. \/ /\ attempt[c][n] = "RUNNING"
           /\ run' = [run EXCEPT ![c] = outcome] /\ attempt' = [attempt EXCEPT ![c][n] = outcome]
        \/ UNCHANGED <<run, attempt>>
    BY <1>3 DEF FinishAttempt
  <2> HIDE DEF c, n
  <2>3. CASE UNCHANGED <<run, attempt>>
    BY <2>1, <2>3, OtherCInv
  <2>4. CASE /\ attempt[c][n] = "RUNNING"
             /\ run' = [run EXCEPT ![c] = outcome]
             /\ attempt' = [attempt EXCEPT ![c][n] = outcome]
    BY <2>1, <2>4, AttemptCInv
  <2> QED BY <2>2, <2>3, <2>4
<1>4. ASSUME NEW w \in Workers, Reconcile(w) PROVE CInv' /\ ChildrenStable
  <2>1. UNCHANGED <<launch, run, attempt>>
    BY <1>4 DEF Reconcile, FindCaseResult, SaveCaseResult, FindEvaluationRun, ListCaseResults,
                TransitionEvaluationRun, SaveGateAssessment, rest
  <2>2. launch.at = "save" => UNCHANGED evaluation
    BY <1>4 DEF Reconcile, FindCaseResult, SaveCaseResult, FindEvaluationRun, ListCaseResults,
                TransitionEvaluationRun, SaveGateAssessment, MayTransition, IsLegalTransition,
                CInv, Fresh
  <2> QED BY <2>1, <2>2, OtherCInv
<1>5. ASSUME NEW w \in Workers, WorkerDies(w) \/ HandlerThrows(w) PROVE CInv' /\ ChildrenStable
  BY <1>5, OtherCInv DEF WorkerDies, HandlerThrows, children
<1>6. ASSUME NEW c \in Cases, NEW n \in Attempts, DeliverQueued(c, n) \/ Stall(c, n)
      PROVE  CInv' /\ ChildrenStable
  BY <1>6, OtherCInv DEF DeliverQueued, Stall
<1>7. ASSUME NEW c \in Cases, NEW n \in Attempts, LeaseExpires(c, n)
      PROVE  CInv' /\ ChildrenStable
  <2>1. PICK status \in {"FAILED", "INTERRUPTED"} : run' = [run EXCEPT ![c] = status]
    BY <1>7 DEF LeaseExpires
  <2> QED BY <1>7, <2>1, AttemptCInv DEF LeaseExpires, AttemptEnded
<1>8. ASSUME NEW c \in Cases, NEW n \in Attempts, RecoverRun(c, n)
      PROVE  CInv' /\ ChildrenStable
  BY <1>8, AttemptCInv DEF RecoverRun
<1>9. ASSUME NEW w \in Workers, NEW c \in Cases, NEW n \in Attempts, TakeJob(w, c, n)
      PROVE  CInv' /\ ChildrenStable
  BY <1>9, OtherCInv DEF TakeJob
<1>10. ASSUME NEW g \in Readers,
              ReadEvaluationRun(g) \/ ReadCaseResults(g) \/ ResolveQualityGate(g)
       PROVE  CInv' /\ ChildrenStable
  BY <1>10, OtherCInv DEF ReadEvaluationRun, ReadCaseResults, ResolveQualityGate, children
<1>11. ASSUME NEW w \in Workers, AcquireRunningLease(w) PROVE CInv' /\ ChildrenStable
  <2> DEFINE c == worker[w].case
             n == worker[w].attempt
  <2>1. c \in Cases /\ n \in Attempts /\ UNCHANGED launch /\ UNCHANGED evaluation
    BY <1>11, WorkerTyped DEF AcquireRunningLease
  <2>2. \/ /\ attempt[c][n] = "PENDING" /\ run[c] = "QUEUED"
           /\ run' = [run EXCEPT ![c] = "RUNNING"]
           /\ attempt' = [attempt EXCEPT ![c][n] = "RUNNING"]
        \/ UNCHANGED <<run, attempt>>
    BY <1>11 DEF AcquireRunningLease, IsStartable
  <2> HIDE DEF c, n
  <2>3. CASE UNCHANGED <<run, attempt>>
    BY <2>1, <2>3, OtherCInv
  <2>4. CASE /\ attempt[c][n] = "PENDING" /\ run[c] = "QUEUED"
             /\ run' = [run EXCEPT ![c] = "RUNNING"]
             /\ attempt' = [attempt EXCEPT ![c][n] = "RUNNING"]
    BY <2>1, <2>4, AttemptCInv
  <2> QED BY <2>2, <2>3, <2>4
<1> QED BY <1>1, <1>2, <1>3, <1>4, <1>5, <1>6, <1>7, <1>8, <1>9, <1>10, <1>11 DEF Next, Step

-----------------------------------------------------------------------------
(* The batch *)

(* Results are never replaced, and a verdict is for good. *)
RowsStable ==
  /\ evaluation \in Terminal => evaluation' = evaluation
  /\ \A c \in Cases : result[c] # None => result'[c] = result[c]

LEMMA NextRowsStable ==
  ASSUME TInv, CInv, [Next]_vars
  PROVE  RowsStable
<1>1. CASE UNCHANGED <<evaluation, result>>
  BY <1>1 DEF RowsStable
<1>2. CASE SaveEvaluationRun
  BY <1>2 DEF SaveEvaluationRun, RowsStable, CInv, Fresh, Terminal
<1>3. CASE MarkRunning
  BY <1>3 DEF MarkRunning, MayTransition, RowsStable, Terminal
<1>4. ASSUME NEW w \in Workers, SaveCaseResult(w) PROVE RowsStable
  <2>1. worker[w].case \in Cases /\ result \in Results
    BY <1>4, WorkerTyped, TInvParts DEF SaveCaseResult, RowsOK
  <2>2. UNCHANGED evaluation
    BY <1>4 DEF SaveCaseResult
  <2>3. CASE result[worker[w].case] = None
    <3>1. PICK outcome : result' = [result EXCEPT ![worker[w].case] = outcome]
      BY <1>4, <2>3 DEF SaveCaseResult
    <3> QED BY <2>1, <2>2, <2>3, <3>1 DEF RowsStable, Results
  <2>4. CASE result[worker[w].case] # None
    BY <1>4, <2>4 DEF SaveCaseResult, RowsStable
  <2> QED BY <2>3, <2>4
<1>5. ASSUME NEW w \in Workers, TransitionEvaluationRun(w) PROVE RowsStable
  BY <1>5 DEF TransitionEvaluationRun, MayTransition, IsLegalTransition, RowsStable, Terminal
<1>6. ASSUME NEW w \in Workers,
             \/ FindCaseResult(w) \/ FindEvaluationRun(w) \/ ListCaseResults(w)
             \/ SaveGateAssessment(w) \/ WorkerDies(w) \/ HandlerThrows(w)
             \/ AcquireRunningLease(w)
             \/ \E outcome \in AttemptEnded : FinishAttempt(w, outcome)
      PROVE  UNCHANGED <<evaluation, result>>
  BY <1>6 DEF FindCaseResult, FindEvaluationRun, ListCaseResults, SaveGateAssessment, WorkerDies,
              HandlerThrows, AcquireRunningLease, FinishAttempt
<1>7. ASSUME NEW c \in Cases, NEW n \in Attempts,
             \/ LeaseExpires(c, n) \/ RecoverRun(c, n) \/ DeliverQueued(c, n) \/ Stall(c, n)
             \/ \E w \in Workers : TakeJob(w, c, n)
      PROVE  UNCHANGED <<evaluation, result>>
  BY <1>7 DEF LeaseExpires, RecoverRun, DeliverQueued, Stall, TakeJob
<1>8. ASSUME NEW g \in Readers,
             ReadEvaluationRun(g) \/ ReadCaseResults(g) \/ ResolveQualityGate(g)
      PROVE  UNCHANGED <<evaluation, result>>
  BY <1>8 DEF ReadEvaluationRun, ReadCaseResults, ResolveQualityGate
<1>9. CASE CreateChildRun \/ QueueChildRun \/ EnqueueChildRun \/ LaunchDies \/ UNCHANGED vars
  BY <1>1, <1>9 DEF CreateChildRun, QueueChildRun, EnqueueChildRun, LaunchDies, vars
<1> QED BY <1>1, <1>2, <1>3, <1>4, <1>5, <1>6, <1>7, <1>8, <1>9 DEF Next, Launch, Step, Reconcile

(* What a worker relies on at each stage of the reconciliation. *)
WorkerOK(w) ==
  LET a == attempt[worker[w].case][worker[w].attempt]
  IN /\ worker[w].at = "execute" => a \in {"RUNNING"} \cup AttemptEnded
     /\ worker[w].at \in {"find", "save"} => a \in AttemptEnded
     /\ worker[w].at = "transition" => Reported = Cases
     /\ worker[w].at = "gate" => evaluation \in Terminal

(* What a client has read is what it will be. *)
ReaderOK(g) ==
  /\ reader[g].at # "idle" => evaluation \in Terminal /\ reader[g].seen = evaluation
  /\ reader[g].at = "assess" => reader[g].listed = result

GateOK == gate # None => evaluation \in Terminal

BInv ==
  /\ \A w \in Workers : WorkerOK(w)
  /\ \A g \in Readers : ReaderOK(g)
  /\ GateOK /\ GateIsFinal
  /\ VerdictMatchesResults
  /\ OutcomesAreEarned

LEMMA InitBInv == Init => BInv
<1> SUFFICES ASSUME Init PROVE BInv
  OBVIOUS
<1>1. ASSUME NEW w \in Workers PROVE WorkerOK(w)
  BY DEF Init, Idle, WorkerOK
<1>2. ASSUME NEW g \in Readers PROVE ReaderOK(g)
  BY DEF Init, Away, ReaderOK
<1>3. VerdictMatchesResults /\ GateOK /\ GateIsFinal
  BY DEF Init, VerdictMatchesResults, GateOK, GateIsFinal, Terminal
<1>4. \A c \in Cases : result[c] = None
  BY DEF Init
<1>5. OutcomesAreEarned
  BY <1>4 DEF OutcomesAreEarned, Outcomes
<1> QED BY <1>1, <1>2, <1>3, <1>5 DEF BInv

(* A step after which the results and verdicts there were are still there. *)
Kept == TInv /\ TInv' /\ CInv' /\ BInv /\ ChildrenStable /\ RowsStable

(* Once all results are there they stay as they are. *)
LEMMA FullStays ==
  ASSUME Kept, Reported = Cases
  PROVE  result' = result /\ Reported' = Cases /\ NextStatus' = NextStatus
<1>1. result \in Results /\ result' \in Results
  BY TInvParts, TInvPartsNext DEF Kept, RowsOK
<1>2. \A c \in Cases : result[c] # None
  BY DEF Reported
<1>3. \A c \in Cases : result'[c] = result[c]
  BY <1>2 DEF Kept, RowsStable
<1>4. result' = result
  <2>1. result = [c \in Cases |-> result[c]] /\ result' = [c \in Cases |-> result'[c]]
    BY <1>1 DEF Results
  <2>2. [c \in Cases |-> result[c]] = [c \in Cases |-> result'[c]]
    BY <1>3
  <2> QED BY <2>1, <2>2
<1>5. Reported' = Reported
  BY <1>4 DEF Reported
<1>6. NextStatus' = NextStatus
  BY <1>4 DEF NextStatus
<1> QED BY <1>4, <1>5, <1>6

LEMMA EndedStays ==
  ASSUME Kept, evaluation \in Terminal
  PROVE  evaluation' = evaluation /\ result' = result /\ Reported' = Cases /\ NextStatus' = NextStatus
         /\ evaluation' = NextStatus'
BY FullStays DEF Kept, BInv, VerdictMatchesResults, RowsStable

LEMMA WorkerKept ==
  ASSUME Kept, NEW w \in Workers, worker'[w] = worker[w]
  PROVE  WorkerOK(w)'
<1> DEFINE c == worker[w].case
           n == worker[w].attempt
<1>1. /\ worker[w].at # "idle" => c \in Cases
      /\ n \in Attempts
      /\ WorkerOK(w)
  BY WorkerTyped DEF Kept, BInv
<1>2. worker[w].at = "execute" => attempt'[c][n] \in {"RUNNING"} \cup AttemptEnded
  BY <1>1 DEF Kept, ChildrenStable, WorkerOK
<1>3. worker[w].at \in {"find", "save"} => attempt'[c][n] \in AttemptEnded
  BY <1>1 DEF Kept, ChildrenStable, WorkerOK
<1>4. worker[w].at = "transition" => Reported' = Cases
  BY <1>1, FullStays DEF WorkerOK
<1>5. worker[w].at = "gate" => evaluation' \in Terminal
  BY <1>1, EndedStays DEF WorkerOK
<1> QED BY <1>2, <1>3, <1>4, <1>5 DEF WorkerOK

(* One worker moves. *)
LEMMA WorkerMoves ==
  ASSUME Kept, NEW w \in Workers, \A v \in Workers : v # w => worker'[v] = worker[v],
         WorkerOK(w)'
  PROVE  \A v \in Workers : WorkerOK(v)'
BY WorkerKept

LEMMA WorkersKept == ASSUME Kept, UNCHANGED worker PROVE \A w \in Workers : WorkerOK(w)'
BY WorkerKept

LEMMA ReaderKept ==
  ASSUME Kept, NEW g \in Readers, reader'[g] = reader[g]
  PROVE  ReaderOK(g)'
<1>1. ReaderOK(g)
  BY DEF Kept, BInv
<1> QED BY <1>1, EndedStays DEF ReaderOK

LEMMA ReadersKept == ASSUME Kept, UNCHANGED reader PROVE \A g \in Readers : ReaderOK(g)'
BY ReaderKept

LEMMA GateKept == ASSUME Kept, UNCHANGED gate PROVE GateOK' /\ GateIsFinal'
<1>1. GateOK /\ GateIsFinal
  BY DEF Kept, BInv
<1> QED BY <1>1, EndedStays DEF GateOK, GateIsFinal

LEMMA VerdictKept ==
  ASSUME Kept, evaluation' = evaluation \/ evaluation' \notin Terminal
  PROVE  VerdictMatchesResults'
BY EndedStays DEF VerdictMatchesResults

LEMMA OutcomesKept == ASSUME Kept, UNCHANGED result PROVE OutcomesAreEarned'
<1> SUFFICES ASSUME NEW c \in Cases
             PROVE  /\ result[c] = "SCORED" => run'[c] = "SUCCEEDED"
                    /\ result[c] # None => \E n \in Attempts : attempt'[c][n] \in AttemptEnded
  BY DEF OutcomesAreEarned
<1> QED BY DEF Kept, BInv, OutcomesAreEarned, ChildrenStable

(* A worker that has returned relies on nothing. *)
LEMMA ReturnOK ==
  ASSUME Kept, NEW w \in Workers, worker' = [worker EXCEPT ![w] = Idle]
  PROVE  \A v \in Workers : WorkerOK(v)'
<1>1. worker \in [Workers -> WorkerRecs]
  BY TInvParts DEF Kept, WorkersOK
<1>2. worker'[w].at = "idle" /\ \A v \in Workers : v # w => worker'[v] = worker[v]
  BY <1>1 DEF Idle
<1>3. WorkerOK(w)'
  BY <1>2 DEF WorkerOK
<1> QED BY <1>2, <1>3, WorkerMoves

LEMMA GoneTo ==
  ASSUME TInv, NEW w \in Workers, NEW at, worker' = [worker EXCEPT ![w].at = at]
  PROVE  /\ worker'[w].at = at /\ worker'[w].case = worker[w].case
         /\ worker'[w].attempt = worker[w].attempt
         /\ \A v \in Workers : v # w => worker'[v] = worker[v]
<1>1. worker \in [Workers -> WorkerRecs] /\ worker[w] \in WorkerRecs
  BY TInvParts DEF WorkersOK
<1> QED BY <1>1 DEF WorkerRecs

(* A step of one worker that leaves the rows alone. *)
LEMMA WorkerOnly ==
  ASSUME Kept, UNCHANGED <<evaluation, result, gate, reader>>,
         \A w \in Workers : WorkerOK(w)'
  PROVE  BInv'
BY ReadersKept, GateKept, VerdictKept, OutcomesKept DEF BInv

LEMMA AcquireB ==
  ASSUME Kept, NEW w \in Workers, AcquireRunningLease(w)
  PROVE  BInv'
<1> DEFINE c == worker[w].case
           n == worker[w].attempt
<1>1. c \in Cases /\ n \in Attempts /\ TInv
  BY WorkerTyped DEF Kept, AcquireRunningLease
<1>2. CASE attempt' = [attempt EXCEPT ![c][n] = "RUNNING"] /\ Go(w, "execute")
  <2>1. /\ worker'[w].at = "execute" /\ worker'[w].case = c /\ worker'[w].attempt = n
        /\ \A v \in Workers : v # w => worker'[v] = worker[v]
    BY <1>1, <1>2, GoneTo DEF Go
  <2>2. attempt \in [Cases -> [Attempts -> AttemptStates]]
    BY <1>1, TInvParts DEF ChildrenOK
  <2>3. attempt'[c][n] = "RUNNING"
    <3> HIDE DEF c, n
    <3> QED BY <1>1, <1>2, <2>2
  <2>4. WorkerOK(w)'
    BY <2>1, <2>3 DEF WorkerOK
  <2>5. \A v \in Workers : WorkerOK(v)'
    BY <2>1, <2>4, WorkerMoves
  <2> QED BY <2>5, WorkerOnly DEF AcquireRunningLease
<1>3. CASE attempt[c][n] \in AttemptEnded /\ Go(w, "find") /\ UNCHANGED attempt
  <2>1. /\ worker'[w].at = "find" /\ worker'[w].case = c /\ worker'[w].attempt = n
        /\ \A v \in Workers : v # w => worker'[v] = worker[v]
    BY <1>1, <1>3, GoneTo DEF Go
  <2>2. WorkerOK(w)'
    BY <1>3, <2>1 DEF WorkerOK
  <2>3. \A v \in Workers : WorkerOK(v)'
    BY <2>1, <2>2, WorkerMoves
  <2> QED BY <2>3, WorkerOnly DEF AcquireRunningLease
<1>4. CASE Return(w)
  BY <1>4, ReturnOK, WorkerOnly DEF AcquireRunningLease, Return
<1> QED BY <1>2, <1>3, <1>4 DEF AcquireRunningLease

LEMMA FinishB ==
  ASSUME Kept, NEW w \in Workers, NEW outcome \in AttemptEnded, FinishAttempt(w, outcome)
  PROVE  BInv'
<1> DEFINE c == worker[w].case
           n == worker[w].attempt
<1>1. c \in Cases /\ n \in Attempts /\ TInv
  BY WorkerTyped DEF Kept, FinishAttempt
<1>2. /\ worker'[w].at = "find" /\ worker'[w].case = c /\ worker'[w].attempt = n
      /\ \A v \in Workers : v # w => worker'[v] = worker[v]
  BY <1>1, GoneTo DEF FinishAttempt, Go
<1>3. attempt[c][n] \in {"RUNNING"} \cup AttemptEnded
  BY DEF Kept, BInv, WorkerOK, FinishAttempt
<1>4. attempt'[c][n] \in AttemptEnded
  <2>1. CASE attempt[c][n] = "RUNNING"
    <3>1. attempt' = [attempt EXCEPT ![c][n] = outcome]
      BY <2>1 DEF FinishAttempt
    <3>2. attempt \in [Cases -> [Attempts -> AttemptStates]]
      BY <1>1, TInvParts DEF ChildrenOK
    <3> HIDE DEF c, n
    <3> QED BY <1>1, <3>1, <3>2
  <2>2. CASE attempt[c][n] # "RUNNING"
    BY <1>1, <1>3, <2>2 DEF Kept, ChildrenStable
  <2> QED BY <2>1, <2>2
<1>5. WorkerOK(w)'
  BY <1>2, <1>4 DEF WorkerOK
<1>6. \A v \in Workers : WorkerOK(v)'
  BY <1>2, <1>5, WorkerMoves
<1> QED BY <1>6, WorkerOnly DEF FinishAttempt

LEMMA FindCaseB ==
  ASSUME Kept, NEW w \in Workers, FindCaseResult(w)
  PROVE  BInv'
<1> DEFINE c == worker[w].case
           n == worker[w].attempt
<1>1. c \in Cases /\ n \in Attempts /\ TInv
  BY WorkerTyped DEF Kept, FindCaseResult
<1>2. PICK at \in {"save", "status"} : Go(w, at)
  BY DEF FindCaseResult
<1>3. /\ worker'[w].at = at /\ worker'[w].case = c /\ worker'[w].attempt = n
      /\ \A v \in Workers : v # w => worker'[v] = worker[v]
  BY <1>1, <1>2, GoneTo DEF Go
<1>4. attempt'[c][n] \in AttemptEnded
  BY <1>1 DEF Kept, BInv, WorkerOK, FindCaseResult, ChildrenStable
<1>5. WorkerOK(w)'
  BY <1>2, <1>3, <1>4 DEF WorkerOK
<1>6. \A v \in Workers : WorkerOK(v)'
  BY <1>3, <1>5, WorkerMoves
<1> QED BY <1>6, WorkerOnly DEF FindCaseResult, rest

LEMMA SaveCaseB ==
  ASSUME Kept, NEW w \in Workers, SaveCaseResult(w)
  PROVE  BInv'
<1> DEFINE n == worker[w].attempt
<1>0. PICK c \in Cases : c = worker[w].case
  BY WorkerTyped DEF Kept, SaveCaseResult
<1>1. n \in Attempts /\ TInv /\ result \in Results /\ UNCHANGED <<evaluation, gate, reader, run, attempt>>
  BY WorkerTyped, TInvParts DEF Kept, SaveCaseResult, RowsOK, rest
<1>2. CASE result[c] # None
  <2>1. Return(w) /\ UNCHANGED result
    BY <1>0, <1>2 DEF SaveCaseResult
  <2> QED BY <1>1, <2>1, ReturnOK, WorkerOnly DEF Return
<1>3. CASE result[c] = None
  <2>1. PICK outcome \in EvaluateTerminalAttempt(attempt[c][n]) :
          result' = [result EXCEPT ![c] = outcome]
    BY <1>0, <1>3 DEF SaveCaseResult
  <2>2. worker' = [worker EXCEPT ![w].at = "status"]
    BY <1>0, <1>3 DEF SaveCaseResult, Go
  <2>3. worker'[w].at = "status" /\ \A v \in Workers : v # w => worker'[v] = worker[v]
    BY <1>1, <2>2, GoneTo
  <2>4. WorkerOK(w)'
    BY <2>3 DEF WorkerOK
  <2>5. \A v \in Workers : WorkerOK(v)'
    BY <2>3, <2>4, WorkerMoves
  <2>6. attempt'[c][n] = attempt[c][n] /\ attempt[c][n] \in AttemptEnded
    BY <1>0, <1>1 DEF Kept, BInv, WorkerOK, SaveCaseResult
  <2>7. outcome = "SCORED" => attempt'[c][n] = "SUCCEEDED"
    BY <2>1, <2>6 DEF EvaluateTerminalAttempt
  <2>8. attempt'[c][n] = "SUCCEEDED" => run'[c] = "SUCCEEDED"
    BY <1>1 DEF Kept, CInv, ChildOK
  <2>9. result'[c] = outcome /\ \A e \in Cases : e # c => result'[e] = result[e]
    BY <1>1, <2>1 DEF Results
  <2>10. ASSUME NEW e \in Cases
         PROVE  /\ result'[e] = "SCORED" => run'[e] = "SUCCEEDED"
                /\ result'[e] # None => \E m \in Attempts : attempt'[e][m] \in AttemptEnded
    <3>1. CASE e = c
      BY <1>1, <2>6, <2>7, <2>8, <2>9, <3>1
    <3>2. CASE e # c
      BY <1>1, <2>9, <3>2 DEF Kept, BInv, OutcomesAreEarned
    <3> QED BY <3>1, <3>2
  <2>11. OutcomesAreEarned'
    BY <2>10 DEF OutcomesAreEarned
  <2> QED BY <1>1, <2>5, <2>11, ReadersKept, GateKept, VerdictKept DEF BInv
<1> QED BY <1>2, <1>3

LEMMA FindEvaluationB ==
  ASSUME Kept, NEW w \in Workers, FindEvaluationRun(w)
  PROVE  BInv'
<1>1. CASE evaluation \in Terminal
  BY <1>1, ReturnOK, WorkerOnly DEF FindEvaluationRun, Return, rest
<1>2. CASE evaluation \notin Terminal
  <2>1. worker \in [Workers -> WorkerRecs] /\ worker[w] \in WorkerRecs
    BY TInvParts DEF Kept, WorkersOK
  <2>2. worker'[w].at = "list" /\ \A v \in Workers : v # w => worker'[v] = worker[v]
    BY <1>2, <2>1 DEF FindEvaluationRun, WorkerRecs
  <2>3. WorkerOK(w)'
    BY <2>2 DEF WorkerOK
  <2>4. \A v \in Workers : WorkerOK(v)'
    BY <2>2, <2>3, WorkerMoves
  <2> QED BY <2>4, WorkerOnly DEF FindEvaluationRun, rest
<1> QED BY <1>1, <1>2

LEMMA ListB ==
  ASSUME Kept, NEW w \in Workers, ListCaseResults(w)
  PROVE  BInv'
<1>1. CASE ~IsComplete
  BY <1>1, ReturnOK, WorkerOnly DEF ListCaseResults, Return, rest
<1>2. CASE IsComplete
  <2>1. Reported' = Cases
    BY <1>2, CompleteIsAll, FullStays
  <2>2. worker'[w].at = "transition" /\ \A v \in Workers : v # w => worker'[v] = worker[v]
    BY <1>2, GoneTo DEF Kept, ListCaseResults, Go
  <2>3. WorkerOK(w)'
    BY <2>1, <2>2 DEF WorkerOK
  <2>4. \A v \in Workers : WorkerOK(v)'
    BY <2>2, <2>3, WorkerMoves
  <2> QED BY <2>4, WorkerOnly DEF ListCaseResults, rest
<1> QED BY <1>1, <1>2

LEMMA TransitionB ==
  ASSUME Kept, NEW w \in Workers, TransitionEvaluationRun(w)
  PROVE  BInv'
<1>0. UNCHANGED <<result, gate, reader>> /\ Reported = Cases
  BY DEF TransitionEvaluationRun, rest, Kept, BInv, WorkerOK
<1>1. CASE ~MayTransition(worker[w].seen, NextStatus)
  BY <1>0, <1>1, ReturnOK, WorkerOnly DEF TransitionEvaluationRun, Return
<1>2. CASE MayTransition(worker[w].seen, NextStatus)
  <2>1. evaluation' = NextStatus /\ worker' = [worker EXCEPT ![w].at = "gate"]
    BY <1>2 DEF TransitionEvaluationRun, Go
  <2>2. Reported' = Cases /\ evaluation' = NextStatus' /\ evaluation' \in Terminal
    BY <1>0, <2>1, FullStays DEF NextStatus, Terminal
  <2>3. worker'[w].at = "gate" /\ \A v \in Workers : v # w => worker'[v] = worker[v]
    BY <2>1, GoneTo DEF Kept
  <2>4. WorkerOK(w)'
    BY <2>2, <2>3 DEF WorkerOK
  <2>5. \A v \in Workers : WorkerOK(v)'
    BY <2>3, <2>4, WorkerMoves
  <2>6. VerdictMatchesResults'
    BY <2>2 DEF VerdictMatchesResults
  <2> QED BY <1>0, <2>5, <2>6, ReadersKept, GateKept, OutcomesKept DEF BInv
<1> QED BY <1>1, <1>2

(* An assessment of the verdict and of all results. *)
LEMMA AssessedOK ==
  ASSUME Kept, evaluation \in Terminal, gate' = Assessed(evaluation, result)
  PROVE  GateOK' /\ GateIsFinal'
<1>1. evaluation' = evaluation /\ result' = result
  BY EndedStays
<1>2. CASE gate = None
  BY <1>1, <1>2 DEF Assessed, GateOK, GateIsFinal
<1>3. CASE gate # None
  BY <1>3, GateKept DEF Assessed
<1> QED BY <1>2, <1>3

LEMMA SaveGateB ==
  ASSUME Kept, NEW w \in Workers, SaveGateAssessment(w)
  PROVE  BInv'
<1>1. evaluation \in Terminal /\ UNCHANGED <<evaluation, result, reader>>
  BY DEF SaveGateAssessment, rest, Kept, BInv, WorkerOK
<1>2. GateOK' /\ GateIsFinal'
  BY <1>1, AssessedOK DEF SaveGateAssessment
<1>3. \A v \in Workers : WorkerOK(v)'
  BY ReturnOK DEF SaveGateAssessment, Return
<1> QED BY <1>1, <1>2, <1>3, ReadersKept, VerdictKept, OutcomesKept DEF BInv

LEMMA TakeJobB ==
  ASSUME Kept, NEW w \in Workers, NEW c \in Cases, NEW n \in Attempts, TakeJob(w, c, n)
  PROVE  BInv'
<1>0. /\ worker \in [Workers -> WorkerRecs]
      /\ attempt \in [Cases -> [Attempts -> AttemptStates]]
  BY TInvParts DEF Kept, WorkersOK, ChildrenOK
<1>1. ASSUME NEW at \in {"acquire", "find"}, Hold(w, c, n, at)
      PROVE  /\ worker'[w].at = at /\ worker'[w].case = c /\ worker'[w].attempt = n
             /\ \A v \in Workers : v # w => worker'[v] = worker[v]
  BY <1>0, <1>1 DEF Hold, Idle
<1>2. CASE Hold(w, c, n, "acquire")
  <2>2. WorkerOK(w)'
    BY <1>1, <1>2 DEF WorkerOK
  <2>3. \A v \in Workers : WorkerOK(v)'
    BY <1>1, <1>2, <2>2, WorkerMoves
  <2> QED BY <2>3, WorkerOnly DEF TakeJob
<1>3. CASE IsAlreadyTerminal(c, n) /\ Hold(w, c, n, "find")
  <2>1. attempt'[c][n] \in AttemptEnded
    BY <1>3 DEF IsAlreadyTerminal, TakeJob
  <2>2. WorkerOK(w)'
    BY <1>1, <1>3, <2>1 DEF WorkerOK
  <2>3. \A v \in Workers : WorkerOK(v)'
    BY <1>1, <1>3, <2>2, WorkerMoves
  <2> QED BY <2>3, WorkerOnly DEF TakeJob
<1>4. CASE UNCHANGED worker
  BY <1>4, WorkersKept, WorkerOnly DEF TakeJob
<1> QED BY <1>2, <1>3, <1>4 DEF TakeJob

LEMMA ReaderB ==
  ASSUME Kept, NEW g \in Readers,
         ReadEvaluationRun(g) \/ ReadCaseResults(g) \/ ResolveQualityGate(g)
  PROVE  BInv'
<1>0. /\ reader \in [Readers -> ReaderRecs] /\ reader[g] \in ReaderRecs
      /\ UNCHANGED <<evaluation, result, worker>> /\ ReaderOK(g)
  BY TInvParts DEF Kept, BInv, ReadersOK, ReadEvaluationRun, ReadCaseResults, ResolveQualityGate
<1>1. \A h \in Readers : h # g => reader'[h] = reader[h]
  BY <1>0 DEF ReadEvaluationRun, ReadCaseResults, ResolveQualityGate
<1>2. ReaderOK(g)'
  <2>1. CASE ReadEvaluationRun(g)
    BY <1>0, <2>1 DEF ReadEvaluationRun, IsFinal, ReaderOK, ReaderRecs
  <2>2. CASE ReadCaseResults(g)
    BY <1>0, <2>2 DEF ReadCaseResults, ReaderOK, ReaderRecs
  <2>3. CASE ResolveQualityGate(g)
    BY <1>0, <2>3 DEF ResolveQualityGate, ReaderOK, Away
  <2> QED BY <2>1, <2>2, <2>3
<1>3. \A h \in Readers : ReaderOK(h)'
  BY <1>1, <1>2, ReaderKept
<1>4. GateOK' /\ GateIsFinal'
  <2>1. CASE UNCHANGED gate
    BY <2>1, GateKept
  <2>2. CASE ResolveQualityGate(g)
    BY <1>0, <2>2, AssessedOK DEF ResolveQualityGate, ReaderOK
  <2> QED BY <2>1, <2>2 DEF ReadEvaluationRun, ReadCaseResults
<1> QED BY <1>0, <1>3, <1>4, WorkersKept, VerdictKept, OutcomesKept DEF BInv

LEMMA NextBInv ==
  ASSUME TInv, CInv, BInv, [Next]_vars
  PROVE  BInv'
<1>0. Kept
  BY NextTInv, NextCInv, NextRowsStable DEF Kept
<1>1. CASE UNCHANGED vars
  BY <1>0, <1>1, WorkersKept, WorkerOnly DEF vars
<1>2. CASE Launch \/ LaunchDies
  <2>1. UNCHANGED <<result, gate, worker, reader>>
    BY <1>2 DEF Launch, LaunchDies, SaveEvaluationRun, CreateChildRun, QueueChildRun,
                EnqueueChildRun, MarkRunning
  <2>2. evaluation' = evaluation \/ evaluation' \notin Terminal
    BY <1>2 DEF Launch, LaunchDies, SaveEvaluationRun, CreateChildRun, QueueChildRun,
                EnqueueChildRun, MarkRunning, Terminal
  <2> QED BY <1>0, <2>1, <2>2, WorkersKept, ReadersKept, GateKept, VerdictKept, OutcomesKept
          DEF BInv
<1>3. ASSUME NEW w \in Workers, Step(w) PROVE BInv'
  BY <1>0, <1>3, AcquireB, FinishB, FindCaseB, SaveCaseB, FindEvaluationB, ListB, TransitionB, SaveGateB
     DEF Step, Reconcile
<1>4. ASSUME NEW w \in Workers, WorkerDies(w) \/ HandlerThrows(w) PROVE BInv'
  BY <1>0, <1>4, ReturnOK, WorkerOnly DEF WorkerDies, HandlerThrows, Return
<1>5. ASSUME NEW c \in Cases, NEW n \in Attempts,
             LeaseExpires(c, n) \/ RecoverRun(c, n) \/ DeliverQueued(c, n) \/ Stall(c, n)
      PROVE  BInv'
  BY <1>0, <1>5, WorkersKept, WorkerOnly DEF LeaseExpires, RecoverRun, DeliverQueued, Stall
<1>6. ASSUME NEW w \in Workers, NEW c \in Cases, NEW n \in Attempts, TakeJob(w, c, n) PROVE BInv'
  BY <1>0, <1>6, TakeJobB
<1>7. ASSUME NEW g \in Readers,
             ReadEvaluationRun(g) \/ ReadCaseResults(g) \/ ResolveQualityGate(g)
      PROVE  BInv'
  BY <1>0, <1>7, ReaderB
<1> QED BY <1>1, <1>2, <1>3, <1>4, <1>5, <1>6, <1>7 DEF Next

-----------------------------------------------------------------------------
IInv == TInv /\ CInv /\ BInv

(* The inductive invariant holds of every behaviour of the launch, the     *)
(* workers, the recovery ticker and the clients.                           *)
THEOREM IInvHolds == Spec => []IInv
<1>1. Init => IInv
  BY InitTInv, InitCInv, InitBInv DEF IInv
<1>2. IInv /\ [Next]_vars => IInv'
  BY NextTInv, NextCInv, NextBInv DEF IInv
<1> QED BY <1>1, <1>2, PTL DEF Spec

(* The rows, the jobs, the workers and the clients keep the shapes that    *)
(* the schema and the code give them.                                      *)
THEOREM TypeOKHolds == Spec => []TypeOK
<1>1. IInv => TypeOK
  BY DEF IInv, TInv
<1> QED BY <1>1, IInvHolds, PTL

(* An EvaluationRun that reconcileEvaluationRunStatus has ended has all    *)
(* its results, and its status is the one they call for.                   *)
THEOREM VerdictMatchesResultsHolds == Spec => []VerdictMatchesResults
<1>1. IInv => VerdictMatchesResults
  BY DEF IInv, BInv
<1> QED BY <1>1, IInvHolds, PTL

(* A case that was scored has a child Run that succeeded, and none has a   *)
(* result before an attempt of its child Run has ended.                    *)
THEOREM OutcomesAreEarnedHolds == Spec => []OutcomesAreEarned
<1>1. IInv => OutcomesAreEarned
  BY DEF IInv, BInv
<1> QED BY <1>1, IInvHolds, PTL

(* The assessment that is stored, by a worker or by a client's look, is    *)
(* that of the final status and results.                                   *)
THEOREM GateIsFinalHolds == Spec => []GateIsFinal
<1>1. IInv => GateIsFinal
  BY DEF IInv, BInv
<1> QED BY <1>1, IInvHolds, PTL
=============================================================================
