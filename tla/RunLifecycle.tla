----------------------------- MODULE RunLifecycle -----------------------------
(***************************************************************************)
(* The durable execution path of a Run: CreateRun persists and enqueues    *)
(* it, workers execute its RunAttempts under a PostgreSQL lease, and the   *)
(* recovery ticker and the manual resume endpoint deal with attempts whose *)
(* worker is gone.                                                         *)
(*                                                                         *)
(* An action is one database transaction, one statement of a transaction   *)
(* that takes no lock, one queue call or one local decision between two    *)
(* awaits, so that every interleaving of processes the code allows between *)
(* them is a behaviour.  Time is abstracted to what the SQL predicates     *)
(* distinguish: lease_expires_at > now() is "live", <= now() is "expired". *)
(* The execution generation is left out: the code sets it to 1 on acquire  *)
(* and never changes it, so comparing it never decides anything.           *)
(***************************************************************************)
EXTENDS Integers, FiniteSets

CONSTANTS
  Runs,                \* Run ids
  Attempts,            \* RunAttempt ids (random UUIDs in the code)
  Workers,             \* worker processes, each with one execution slot
  Recoverers,          \* recovery tickers and resume requests
  None,                \* SQL NULL / undefined
  CheckpointedRuns,    \* Runs whose agent sets checkpointingEnabled
  AutoRecoveredRuns,   \* Runs whose agent sets automaticRecoveryEnabled
  MaxRecoveryAttempts, \* DEFAULT_MAX_RECOVERY_ATTEMPTS
  MaxFaults            \* bound on crashes, stalls and failing calls

ASSUME RunLifecycleAssumption ==
  /\ None \notin Runs /\ None \notin Attempts /\ None \notin Workers
  /\ None \notin {"SUCCEEDED", "FAILED", "live", "expired"}
  /\ CheckpointedRuns \subseteq Runs
  /\ AutoRecoveredRuns \subseteq Runs
  /\ MaxRecoveryAttempts \in Nat
  /\ MaxFaults \in Nat

VARIABLES
  runStatus,       \* runs.status
  recovery,        \* runs.recovery_metadata, or None
  attemptStatus,   \* run_attempts.status
  runId,           \* run_attempts.run_id, None while the row is absent
  sequence,        \* run_attempts.sequence
  executionOwner,  \* run_attempts.execution_owner
  lease,           \* run_attempts.lease_expires_at against now()
  hasCheckpoint,   \* whether run_checkpoints has a row of the Run
  job,             \* BullMQ job of the attempt: state, and lock holder
  creator,         \* progress of the CreateRun call of the Run
  worker,          \* local state of the job handler of the worker
  recoverer,       \* local state of the recovery call of the recoverer
  faults           \* failures so far

runVars     == <<runStatus, recovery>>
attemptVars == <<attemptStatus, runId, sequence, executionOwner, lease>>
vars == <<runStatus, recovery, attemptStatus, runId, sequence, executionOwner,
          lease, hasCheckpoint, job, creator, worker, recoverer, faults>>

RSM == INSTANCE RunStateMachine

-----------------------------------------------------------------------------
(* Rows, and what the SQL predicates say of them. *)

AttemptsOf(r) == {a \in Attempts : runId[a] = r}

IsActive(a) == attemptStatus[a] \in {"PENDING", "RUNNING"}

IsLatest(a) ==
  \A b \in Attempts : runId[b] = runId[a] => sequence[b] <= sequence[a]

(* Mutant: createSubsequent accepts any predecessor. *)
AnyPredecessorStates == RSM!AttemptStates

RetryableAttemptStates == {"FAILED", "TIMED_OUT", "CANCELLED"}

(* Mutant: the successor reuses its predecessor's number. *)
SameSequence(previous) == sequence[previous]

NextSequence(previous) == sequence[previous] + 1

(* Mutant: the terminal write is not fenced by the lease's expiry. *)
OwnsRunningAttempt(w, a) ==
  attemptStatus[a] = "RUNNING" /\ executionOwner[a] = w

(* The fence of a write by the owner of a RUNNING attempt. *)
HoldsLease(w, a) ==
  /\ attemptStatus[a] = "RUNNING"
  /\ executionOwner[a] = w
  /\ lease[a] = "live"

(* Mutant: a RUNNING row is taken over whatever its lease says. *)
LeaseUnchecked(a) == executionOwner[a] # None

(* The predicate under which the ticker may take the attempt over. *)
LeaseExpired(a) ==
  /\ attemptStatus[a] = "RUNNING"
  /\ executionOwner[a] # None
  /\ lease[a] = "expired"

RecoveryMetadata == [count : Nat, automatic : BOOLEAN, blocked : BOOLEAN]

InterruptionMetadata(r) ==
  [count |-> 0, automatic |-> r \in AutoRecoveredRuns, blocked |-> FALSE]

(* Inserting a fresh PENDING attempt row. *)
InsertAttempt(a, r, n) ==
  /\ attemptStatus' = [attemptStatus EXCEPT ![a] = "PENDING"]
  /\ runId' = [runId EXCEPT ![a] = r]
  /\ sequence' = [sequence EXCEPT ![a] = n]
  /\ UNCHANGED <<executionOwner, lease>>

(* A failure of the environment: crash, stall, or a call that throws. *)
Fault == faults < MaxFaults /\ faults' = faults + 1

-----------------------------------------------------------------------------
(* The queue, external: a job key per attempt id that is never removed. *)

JobStates == {"absent", "waiting", "active", "completed", "failed"}

Jobs == [state : JobStates, lock : Workers \cup {None}, stalled : BOOLEAN]

NoJob == [state |-> "absent", lock |-> None, stalled |-> FALSE]

Enqueue(a) ==
  job' = IF job[a].state = "absent"
           THEN [job EXCEPT ![a] = [NoJob EXCEPT !.state = "waiting"]]
           ELSE job

(* The handler of w returned or threw: BullMQ settles the job only for the *)
(* process that still holds its lock.                                      *)
SettleJob(w, a, outcome) ==
  job' = IF job[a].lock = w
           THEN [job EXCEPT ![a] = [@ EXCEPT !.state = outcome, !.lock = None]]
           ELSE job

(* A job whose lock was not renewed goes back to waiting the first time    *)
(* (BullMQ's default maxStalledCount of 1) and to failed the second.       *)
StallJob(a) ==
  job' = [job EXCEPT ![a] =
            [state |-> IF job[a].stalled THEN "failed" ELSE "waiting",
             lock |-> None, stalled |-> TRUE]]

(* Either the process holding the lock died ... *)
AbandonedJobStalls(a) ==
  /\ job[a].state = "active"
  /\ worker[job[a].lock].attempt # a
  /\ StallJob(a)
  /\ UNCHANGED <<runVars, attemptVars, hasCheckpoint, creator, worker,
                 recoverer, faults>>

(* ... or it is alive, but too busy to renew, and goes on. *)
LiveJobStalls(a) ==
  /\ job[a].state = "active"
  /\ worker[job[a].lock].attempt = a
  /\ StallJob(a)
  /\ Fault
  /\ UNCHANGED <<runVars, attemptVars, hasCheckpoint, creator, worker,
                 recoverer>>

-----------------------------------------------------------------------------
(* CreateRun: persist PENDING, move to QUEUED, enqueue. *)

CreateRunWithInitialAttempt(r, a) ==
  /\ runStatus[r] = RSM!Absent
  /\ runId[a] = None
  /\ runStatus' = [runStatus EXCEPT ![r] = "PENDING"]
  /\ InsertAttempt(a, r, 1)
  /\ creator' = [creator EXCEPT ![r] = "persisted"]
  /\ UNCHANGED <<recovery, hasCheckpoint, job, worker, recoverer, faults>>

CreateRunTransition(r) ==
  /\ creator[r] = "persisted"
  /\ runStatus[r] = "PENDING"
  /\ runStatus' = [runStatus EXCEPT ![r] = "QUEUED"]
  /\ creator' = [creator EXCEPT ![r] = "queued"]
  /\ UNCHANGED <<recovery, attemptVars, hasCheckpoint, job, worker, recoverer,
                 faults>>

CreateRunEnqueue(r) ==
  /\ creator[r] = "queued"
  /\ \E a \in AttemptsOf(r) : sequence[a] = 1 /\ Enqueue(a)
  /\ creator' = [creator EXCEPT ![r] = "done"]
  /\ UNCHANGED <<runVars, attemptVars, hasCheckpoint, worker, recoverer, faults>>

(* The creating process dies, or enqueue throws EnqueueFailedError. *)
CreateRunFails(r) ==
  /\ creator[r] \in {"persisted", "queued"}
  /\ creator' = [creator EXCEPT ![r] = "done"]
  /\ Fault
  /\ UNCHANGED <<runVars, attemptVars, hasCheckpoint, job, worker, recoverer>>

-----------------------------------------------------------------------------
(* ExecuteRunAttempt, as the BullMQ handler of worker w. *)

IdleWorker == [pc |-> "idle", attempt |-> None, seen |-> None,
               lost |-> FALSE, result |-> None]

(* The handler ends and the job is settled with the outcome. *)
HandlerEnds(w, outcome) ==
  /\ SettleJob(w, worker[w].attempt, outcome)
  /\ worker' = [worker EXCEPT ![w] = IdleWorker]

GoTo(w, pc) == worker' = [worker EXCEPT ![w] = [@ EXCEPT !.pc = pc]]

(* runtime.execute returned or threw, or failed on the caller's behalf. *)
Returned(w, outcome) ==
  worker' = [worker EXCEPT ![w] = [@ EXCEPT !.pc = "returned", !.result = outcome]]

Deliver(w, a) ==
  /\ worker[w].pc = "idle"
  /\ job[a].state = "waiting"
  /\ job' = [job EXCEPT ![a] = [@ EXCEPT !.state = "active", !.lock = w]]
  /\ worker' = [worker EXCEPT ![w] = [IdleWorker EXCEPT !.pc = "loadAttempt",
                                                        !.attempt = a]]
  /\ UNCHANGED <<runVars, attemptVars, hasCheckpoint, creator, recoverer, faults>>

LoadAttempt(w) ==
  /\ worker[w].pc = "loadAttempt"
  /\ worker' = [worker EXCEPT ![w] =
       [@ EXCEPT !.pc = "loadRun", !.seen = attemptStatus[worker[w].attempt]]]
  /\ UNCHANGED <<runVars, attemptVars, hasCheckpoint, job, creator, recoverer,
                 faults>>

(* The status pair decides; an unexpected pair throws                      *)
(* InvalidPersistedStateError and fails the job.                           *)
LoadRun(w) ==
  /\ worker[w].pc = "loadRun"
  /\ LET seen == worker[w].seen
         status == runStatus[runId[worker[w].attempt]]
     IN  \/ /\ seen \in RSM!TerminalAttemptStates \cup {"RUNNING"}
            /\ HandlerEnds(w, IF status = seen THEN "completed" ELSE "failed")
         \/ /\ seen = "PENDING" /\ status = "QUEUED"
            /\ GoTo(w, "acquire")
            /\ UNCHANGED job
         \/ /\ seen = "PENDING" /\ status # "QUEUED"
            /\ HandlerEnds(w, "failed")
  /\ UNCHANGED <<runVars, attemptVars, hasCheckpoint, creator, recoverer, faults>>

(* Mutant: the compare-and-set accepts an attempt that is RUNNING already. *)
MayAcquireRunning(a) == attemptStatus[a] \in {"PENDING", "RUNNING"}

MayAcquire(a) == attemptStatus[a] = "PENDING" /\ runStatus[runId[a]] = "QUEUED"

(* transitionRunAndAttempt PENDING/QUEUED -> RUNNING/RUNNING, one transaction. *)
AcquireRunningLease(w) ==
  /\ worker[w].pc = "acquire"
  /\ LET a == worker[w].attempt
         r == runId[a]
     IN  IF MayAcquire(a)
           THEN /\ attemptStatus' = [attemptStatus EXCEPT ![a] = "RUNNING"]
                /\ runStatus' = [runStatus EXCEPT ![r] = "RUNNING"]
                /\ executionOwner' = [executionOwner EXCEPT ![a] = w]
                /\ lease' = [lease EXCEPT ![a] = "live"]
                /\ GoTo(w, "bind")
           ELSE /\ GoTo(w, "conflict")
                /\ UNCHANGED <<attemptStatus, runStatus, executionOwner, lease>>
  /\ UNCHANGED <<recovery, runId, sequence, hasCheckpoint, job, creator,
                 recoverer, faults>>

(* The LifecycleConflictError branch re-reads the attempt. *)
AcquireConflict(w) ==
  /\ worker[w].pc = "conflict"
  /\ HandlerEnds(w, IF attemptStatus[worker[w].attempt] = "PENDING"
                      THEN "failed" ELSE "completed")
  /\ UNCHANGED <<runVars, attemptVars, hasCheckpoint, creator, recoverer, faults>>

(* buildCheckpointBinding succeeded; the runtime and the heartbeat start. *)
StartRuntime(w) ==
  /\ worker[w].pc = "bind"
  /\ GoTo(w, "executing")
  /\ UNCHANGED <<runVars, attemptVars, hasCheckpoint, job, creator, recoverer,
                 faults>>

(* renewExecutionLease: a renewed lease stays live; a refused renewal sets *)
(* ownershipLost once and for all.                                         *)
Heartbeat(w) ==
  /\ worker[w].pc \in {"executing", "committing"}
  /\ ~worker[w].lost
  /\ ~HoldsLease(w, worker[w].attempt)
  /\ worker' = [worker EXCEPT ![w] = [@ EXCEPT !.lost = TRUE]]
  /\ UNCHANGED <<runVars, attemptVars, hasCheckpoint, job, creator, recoverer,
                 faults>>

(* buildCheckpointBinding gives a port to checkpointing agents only. *)
HasCheckpointPort(r) == r \in CheckpointedRuns

(* Checkpoint commit, first statement: the fence is a plain SELECT of the  *)
(* attempt's status and owner.  A stale caller's runtime fails.            *)
CheckpointFence(w) ==
  LET a == worker[w].attempt IN
  /\ worker[w].pc = "executing"
  /\ HasCheckpointPort(runId[a])
  /\ IF attemptStatus[a] = "RUNNING" /\ executionOwner[a] = w
       THEN GoTo(w, "committing")
       ELSE Returned(w, "FAILED")
  /\ UNCHANGED <<runVars, attemptVars, hasCheckpoint, job, creator, recoverer,
                 faults>>

(* Mutant: pruning after a second commit deletes the new row too. *)
CheckpointInsertPruned(w) ==
  /\ worker[w].pc = "committing"
  /\ hasCheckpoint' = [hasCheckpoint EXCEPT ![runId[worker[w].attempt]] = ~@]
  /\ GoTo(w, "executing")
  /\ UNCHANGED <<runVars, attemptVars, job, creator, recoverer, faults>>

CheckpointInsert(w) ==
  /\ worker[w].pc = "committing"
  /\ hasCheckpoint' = [hasCheckpoint EXCEPT ![runId[worker[w].attempt]] = TRUE]
  /\ GoTo(w, "executing")
  /\ UNCHANGED <<runVars, attemptVars, job, creator, recoverer, faults>>

(* Mutant: a runtime deadline is persisted as an outcome of its own. *)
OutcomesWithTimeout == {"SUCCEEDED", "FAILED", "TIMED_OUT"}

RuntimeOutcomes == {"SUCCEEDED", "FAILED"}

RuntimeReturns(w) ==
  /\ worker[w].pc = "executing"
  /\ \E outcome \in RuntimeOutcomes : Returned(w, outcome)
  /\ UNCHANGED <<runVars, attemptVars, hasCheckpoint, job, creator, recoverer,
                 faults>>

(* The heartbeat is stopped and ownershipLost tested before the outcome is *)
(* prepared for persisting.                                                *)
CheckOwnership(w) ==
  /\ worker[w].pc = "returned"
  /\ IF worker[w].lost
       THEN HandlerEnds(w, "completed")
       ELSE GoTo(w, "persist") /\ UNCHANGED job
  /\ UNCHANGED <<runVars, attemptVars, hasCheckpoint, creator, recoverer, faults>>

(* transitionRunAndAttempt RUNNING -> result under the lease fence.  A     *)
(* conflict on either row rolls back and ends as ownership-lost.           *)
PersistTerminal(w) ==
  /\ worker[w].pc = "persist"
  /\ LET a == worker[w].attempt
         r == runId[a]
     IN  IF HoldsLease(w, a) /\ runStatus[r] = "RUNNING"
           THEN /\ attemptStatus' = [attemptStatus EXCEPT ![a] = worker[w].result]
                /\ runStatus' = [runStatus EXCEPT ![r] = worker[w].result]
                /\ lease' = [lease EXCEPT ![a] = None]
           ELSE UNCHANGED <<attemptStatus, runStatus, lease>>
  /\ HandlerEnds(w, "completed")
  /\ UNCHANGED <<recovery, runId, sequence, executionOwner, hasCheckpoint,
                 creator, recoverer, faults>>

(* A read, the lease acquisition, the checkpoint binding or the final      *)
(* write throws (database down, AgentVersion missing, incompatible         *)
(* checkpoint): the job fails and the rows stay as they are.               *)
HandlerThrows(w) ==
  /\ worker[w].pc \in {"loadAttempt", "loadRun", "acquire", "bind", "persist"}
  /\ HandlerEnds(w, "failed")
  /\ Fault
  /\ UNCHANGED <<runVars, attemptVars, hasCheckpoint, creator, recoverer>>

(* The process dies; the job stays active until it is found stalled.  The  *)
(* restarted process has a new owner identity, which no row names.         *)
WorkerCrash(w) ==
  /\ worker[w].pc # "idle"
  /\ worker' = [worker EXCEPT ![w] = IdleWorker]
  /\ Fault
  /\ UNCHANGED <<runVars, attemptVars, hasCheckpoint, job, creator, recoverer>>

ExpireLease(a) ==
  /\ lease[a] = "live"
  /\ lease' = [lease EXCEPT ![a] = "expired"]
  /\ UNCHANGED <<runVars, attemptStatus, runId, sequence, executionOwner,
                 hasCheckpoint, job, creator, worker, recoverer, faults>>

-----------------------------------------------------------------------------
(* ExecutionRecoveryTick and RecoverInterruptedRun. *)

IdleRecoverer == [pc |-> "idle", target |-> None, checkpoint |-> FALSE,
                  metadata |-> None]

RecovererDone(p) == recoverer' = [recoverer EXCEPT ![p] = IdleRecoverer]

(* listExpiredLeasedRunningAttempts, then the latest checkpoint. *)
ListExpiredAttempt(p, a) ==
  /\ recoverer[p].pc = "idle"
  /\ LeaseExpired(a)
  /\ recoverer' = [recoverer EXCEPT ![p] =
       [pc |-> "settle", target |-> a, checkpoint |-> hasCheckpoint[runId[a]],
        metadata |-> None]]
  /\ UNCHANGED <<runVars, attemptVars, hasCheckpoint, job, creator, worker, faults>>

FailAttempt(a) ==
  /\ attemptStatus' = [attemptStatus EXCEPT ![a] = "FAILED"]
  /\ lease' = [lease EXCEPT ![a] = None]
  /\ UNCHANGED <<runId, sequence, executionOwner>>

(* Mutant: the Run is left RUNNING when its attempt is failed. *)
InterruptAttemptOnly(a) ==
  IF LeaseExpired(a) THEN FailAttempt(a) /\ UNCHANGED runVars
                     ELSE UNCHANGED <<runVars, attemptVars>>

(* interruptExpiredLeasedAttemptForRecovery: both rows or neither. *)
InterruptExpired(a) ==
  IF LeaseExpired(a) /\ runStatus[runId[a]] = "RUNNING"
    THEN /\ FailAttempt(a)
         /\ runStatus' = [runStatus EXCEPT ![runId[a]] = "INTERRUPTED"]
         /\ recovery' = [recovery EXCEPT ![runId[a]] =
                           InterruptionMetadata(runId[a])]
    ELSE UNCHANGED <<runVars, attemptVars>>

(* Mutant: a RUNNING Run counts as a conflict and rolls the write back. *)
FailExpiredOfTerminalRun(a) ==
  IF LeaseExpired(a) /\ runStatus[runId[a]] \in RSM!TerminalRunStates
    THEN FailAttempt(a) /\ UNCHANGED runVars
    ELSE UNCHANGED <<runVars, attemptVars>>

(* failExpiredLeasedAttempt: a Run that is terminal already is left alone. *)
FailExpired(a) ==
  LET status == runStatus[runId[a]] IN
  IF LeaseExpired(a) /\ status \in {"RUNNING"} \cup RSM!TerminalRunStates
    THEN /\ FailAttempt(a)
         /\ runStatus' = IF status = "RUNNING"
                           THEN [runStatus EXCEPT ![runId[a]] = "FAILED"]
                           ELSE runStatus
         /\ UNCHANGED recovery
    ELSE UNCHANGED <<runVars, attemptVars>>

SettleExpiredAttempt(p) ==
  /\ recoverer[p].pc = "settle"
  /\ IF recoverer[p].checkpoint
       THEN InterruptExpired(recoverer[p].target)
       ELSE FailExpired(recoverer[p].target)
  /\ RecovererDone(p)
  /\ UNCHANGED <<hasCheckpoint, job, creator, worker, faults>>

(* Mutant: off by one at the recovery limit. *)
BelowLimitMinusOne(count) == count + 1 < MaxRecoveryAttempts

BelowLimit(count) == count < MaxRecoveryAttempts

(* dispatchInterruptedRecoveries only takes Runs its metadata allows; the  *)
(* resume endpoint takes any.                                              *)
MayDispatch(r, automatic) ==
  /\ runStatus[r] # RSM!Absent
  /\ automatic => /\ runStatus[r] = "INTERRUPTED"
                  /\ recovery[r] # None
                  /\ recovery[r].automatic
                  /\ BelowLimit(recovery[r].count)
                  /\ ~recovery[r].blocked

(* assessRunRecoveryEligibility.  Whether the operation journal blocks the *)
(* replay is decided by the journal, which this module does not hold: both *)
(* answers are possible.                                                   *)
Assessment(r, journalSafe) ==
  IF recovery[r] # None
     /\ (recovery[r].blocked \/ ~BelowLimit(recovery[r].count))
    THEN "block"
    ELSE IF runStatus[r] # "INTERRUPTED" \/ \E a \in AttemptsOf(r) : IsActive(a)
           THEN "ineligible"
           ELSE IF hasCheckpoint[r] /\ journalSafe THEN "schedule" ELSE "block"

(* The supply of attempt ids bounds the model, not the code. *)
AttemptIdLeft == \E a \in Attempts : runId[a] = None

AssessRecovery(p, r, automatic) ==
  /\ recoverer[p].pc = "idle"
  /\ AttemptIdLeft
  /\ MayDispatch(r, automatic)
  /\ \E journalSafe \in BOOLEAN :
       LET verdict == Assessment(r, journalSafe) IN
       /\ verdict # "ineligible"
       /\ verdict = "block" => recovery[r] # None
       /\ recoverer' = [recoverer EXCEPT ![p] =
            [pc |-> verdict, target |-> r, checkpoint |-> FALSE,
             metadata |-> recovery[r]]]
  /\ UNCHANGED <<runVars, attemptVars, hasCheckpoint, job, creator, worker, faults>>

(* updateInterruptedRunRecoveryMetadata with the metadata read earlier. *)
BlockRecovery(p) ==
  LET r == recoverer[p].target IN
  /\ recoverer[p].pc = "block"
  /\ recovery' = IF runStatus[r] = "INTERRUPTED"
                   THEN [recovery EXCEPT ![r] =
                           [recoverer[p].metadata EXCEPT !.blocked = TRUE]]
                   ELSE recovery
  /\ RecovererDone(p)
  /\ UNCHANGED <<runStatus, attemptVars, hasCheckpoint, job, creator, worker,
                 faults>>

(* scheduleRecoveryRunAttempt: the SELECTs take no lock, so each is a step. *)
ScheduleSelectRun(p) ==
  /\ recoverer[p].pc = "schedule"
  /\ IF runStatus[recoverer[p].target] = "INTERRUPTED"
       THEN recoverer' = [recoverer EXCEPT ![p] = [@ EXCEPT !.pc = "checkActive"]]
       ELSE RecovererDone(p)
  /\ UNCHANGED <<runVars, attemptVars, hasCheckpoint, job, creator, worker, faults>>

ScheduleCheckActive(p) ==
  /\ recoverer[p].pc = "checkActive"
  /\ IF \E a \in AttemptsOf(recoverer[p].target) : IsActive(a)
       THEN RecovererDone(p)
       ELSE recoverer' = [recoverer EXCEPT ![p] = [@ EXCEPT !.pc = "insert"]]
  /\ UNCHANGED <<runVars, attemptVars, hasCheckpoint, job, creator, worker, faults>>

NextMetadata(r, metadata) ==
  IF metadata = None
    THEN [count |-> 1, automatic |-> FALSE, blocked |-> FALSE]
    ELSE [count |-> metadata.count + 1, automatic |-> metadata.automatic,
          blocked |-> FALSE]

(* The successor is inserted with the next sequence, which the unique      *)
(* constraint on (run_id, sequence) protects; then the Run is moved if it  *)
(* is still INTERRUPTED.  If it is not, the transaction still commits.  A  *)
(* tie on the number throws and rolls back (RecovererFails).               *)
ScheduleInsert(p, a) ==
  LET r == recoverer[p].target IN
  /\ recoverer[p].pc = "insert"
  /\ runId[a] = None
  /\ \E previous \in AttemptsOf(r) :
       /\ IsLatest(previous)
       /\ attemptStatus[previous] \in RetryableAttemptStates
       /\ InsertAttempt(a, r, NextSequence(previous))
  /\ IF runStatus[r] = "INTERRUPTED"
       THEN /\ runStatus' = [runStatus EXCEPT ![r] = "QUEUED"]
            /\ recovery' = [recovery EXCEPT ![r] =
                              NextMetadata(r, recoverer[p].metadata)]
            /\ recoverer' = [recoverer EXCEPT ![p] =
                               [@ EXCEPT !.pc = "enqueue", !.target = a]]
       ELSE UNCHANGED runVars /\ RecovererDone(p)
  /\ UNCHANGED <<hasCheckpoint, job, creator, worker, faults>>

(* createSubsequent throws when the latest attempt is not retryable. *)
ScheduleRefused(p) ==
  /\ recoverer[p].pc = "insert"
  /\ \E previous \in AttemptsOf(recoverer[p].target) :
       /\ IsLatest(previous)
       /\ attemptStatus[previous] \notin RetryableAttemptStates
  /\ RecovererDone(p)
  /\ UNCHANGED <<runVars, attemptVars, hasCheckpoint, job, creator, worker, faults>>

RecoverEnqueue(p) ==
  /\ recoverer[p].pc = "enqueue"
  /\ Enqueue(recoverer[p].target)
  /\ RecovererDone(p)
  /\ UNCHANGED <<runVars, attemptVars, hasCheckpoint, creator, worker, faults>>

(* Mutant: only the first attempt of a Run is looked for. *)
IsQueuedFirstDelivery(a) ==
  attemptStatus[a] = "PENDING" /\ runStatus[runId[a]] = "QUEUED" /\ sequence[a] = 1

IsQueuedPendingDelivery(a) ==
  attemptStatus[a] = "PENDING" /\ runStatus[runId[a]] = "QUEUED"

(* repairQueuedDeliveries, for one listed pair. *)
RepairQueuedDelivery(p, a) ==
  /\ recoverer[p].pc = "idle"
  /\ IsQueuedPendingDelivery(a)
  /\ job[a].state = "absent"
  /\ Enqueue(a)
  /\ UNCHANGED <<runVars, attemptVars, hasCheckpoint, creator, worker, recoverer,
                 faults>>

(* The recovering process dies, or the call it is about to make throws. *)
RecovererFails(p) ==
  /\ recoverer[p].pc # "idle"
  /\ RecovererDone(p)
  /\ Fault
  /\ UNCHANGED <<runVars, attemptVars, hasCheckpoint, job, creator, worker>>

-----------------------------------------------------------------------------
Init ==
  /\ runStatus = [r \in Runs |-> RSM!Absent]
  /\ recovery = [r \in Runs |-> None]
  /\ attemptStatus = [a \in Attempts |-> RSM!Absent]
  /\ runId = [a \in Attempts |-> None]
  /\ sequence = [a \in Attempts |-> 0]
  /\ executionOwner = [a \in Attempts |-> None]
  /\ lease = [a \in Attempts |-> None]
  /\ hasCheckpoint = [r \in Runs |-> FALSE]
  /\ job = [a \in Attempts |-> NoJob]
  /\ creator = [r \in Runs |-> "none"]
  /\ worker = [w \in Workers |-> IdleWorker]
  /\ recoverer = [p \in Recoverers |-> IdleRecoverer]
  /\ faults = 0

CreateRun(r) ==
  \/ \E a \in Attempts : CreateRunWithInitialAttempt(r, a)
  \/ CreateRunTransition(r)
  \/ CreateRunEnqueue(r)
  \/ CreateRunFails(r)

HandlerStep(w) ==
  \/ LoadAttempt(w)
  \/ LoadRun(w)
  \/ AcquireRunningLease(w)
  \/ AcquireConflict(w)
  \/ StartRuntime(w)
  \/ CheckpointInsert(w)
  \/ CheckOwnership(w)
  \/ PersistTerminal(w)

ExecuteRunAttempt(w) ==
  \/ \E a \in Attempts : Deliver(w, a)
  \/ HandlerStep(w)
  \/ Heartbeat(w)
  \/ CheckpointFence(w)
  \/ RuntimeReturns(w)
  \/ HandlerThrows(w)
  \/ WorkerCrash(w)

RecoveryStep(p) ==
  \/ SettleExpiredAttempt(p)
  \/ BlockRecovery(p)
  \/ ScheduleSelectRun(p)
  \/ ScheduleCheckActive(p)
  \/ \E a \in Attempts : ScheduleInsert(p, a)
  \/ ScheduleRefused(p)
  \/ RecoverEnqueue(p)

Recover(p) ==
  \/ RecoveryStep(p)
  \/ \E a \in Attempts : ListExpiredAttempt(p, a) \/ RepairQueuedDelivery(p, a)
  \/ \E r \in Runs, automatic \in BOOLEAN : AssessRecovery(p, r, automatic)
  \/ RecovererFails(p)

Next ==
  \/ \E r \in Runs : CreateRun(r)
  \/ \E w \in Workers : ExecuteRunAttempt(w)
  \/ \E a \in Attempts : AbandonedJobStalls(a) \/ LiveJobStalls(a) \/ ExpireLease(a)
  \/ \E p \in Recoverers : Recover(p)

Spec == Init /\ [][Next]_vars

-----------------------------------------------------------------------------
(* Safety. *)

HandlerPCs == {"idle", "loadAttempt", "loadRun", "acquire", "conflict", "bind",
               "executing", "committing", "returned", "persist"}

RecovererPCs == {"idle", "settle", "block", "schedule", "checkActive", "insert",
                 "enqueue"}

Handlers ==
  [pc : HandlerPCs, attempt : Attempts \cup {None},
   seen : RSM!AttemptStates \cup {None, RSM!Absent}, lost : BOOLEAN,
   result : {None, "SUCCEEDED", "FAILED"}]

RecoveryCalls ==
  [pc : RecovererPCs, target : Runs \cup Attempts \cup {None},
   checkpoint : BOOLEAN, metadata : RecoveryMetadata \cup {None}]

(* The rows have column types, and local variables of handlers and         *)
(* recovery calls hold what the code can put there at each await.          *)
TypeOK ==
  /\ runStatus \in [Runs -> RSM!RunStates \cup {RSM!Absent}]
  /\ recovery \in [Runs -> RecoveryMetadata \cup {None}]
  /\ attemptStatus \in [Attempts -> RSM!AttemptStates \cup {RSM!Absent}]
  /\ runId \in [Attempts -> Runs \cup {None}]
  /\ sequence \in [Attempts -> Nat]
  /\ executionOwner \in [Attempts -> Workers \cup {None}]
  /\ lease \in [Attempts -> {None, "live", "expired"}]
  /\ hasCheckpoint \in [Runs -> BOOLEAN]
  /\ job \in [Attempts -> Jobs]
  /\ creator \in [Runs -> {"none", "persisted", "queued", "done"}]
  /\ worker \in [Workers -> Handlers]
  /\ recoverer \in [Recoverers -> RecoveryCalls]
  /\ faults \in 0..MaxFaults

(* A Run never has two attempts that are PENDING or RUNNING, whatever      *)
(* redeliveries, resume requests and tickers race on it.                   *)
OneActiveAttempt ==
  \A a, b \in Attempts :
    runId[a] # None /\ runId[a] = runId[b] /\ IsActive(a) /\ IsActive(b)
      => a = b

(* The status of a Run agrees with the status of its latest attempt after  *)
(* every transaction: RUNNING exactly while that attempt is RUNNING under  *)
(* an owner, INTERRUPTED only when nothing is left to run, SUCCEEDED only  *)
(* with a SUCCEEDED attempt.                                               *)
RunMatchesLatestAttempt ==
  \A a \in Attempts : runId[a] # None /\ IsLatest(a) =>
    LET status == runStatus[runId[a]] IN
    /\ status \in {"PENDING", "QUEUED"} => attemptStatus[a] = "PENDING"
    /\ status = "RUNNING" <=> attemptStatus[a] = "RUNNING"
    /\ status = "INTERRUPTED" => attemptStatus[a] = "FAILED"
    /\ status = "SUCCEEDED" <=> attemptStatus[a] = "SUCCEEDED"

(* Attempts of a Run are numbered without ties, and every attempt but the  *)
(* latest has FAILED: a successor never follows work that may still end    *)
(* some other way.                                                         *)
SuccessorsFollowFailures ==
  \A a, b \in Attempts : runId[a] # None /\ runId[a] = runId[b] /\ a # b =>
    /\ sequence[a] # sequence[b]
    /\ sequence[a] < sequence[b] => attemptStatus[a] = "FAILED"

(* Only a Run with a durable checkpoint of a checkpointing agent ever gets *)
(* a second attempt (docs/operations/EXECUTION_RECOVERY.md, Legacy runs).  *)
SuccessorNeedsCheckpoint ==
  \A a \in Attempts : sequence[a] > 1 =>
    runId[a] \in CheckpointedRuns /\ hasCheckpoint[runId[a]]

ExecutingPCs == {"bind", "executing", "committing", "returned", "persist"}

(* No two handlers are ever inside the runtime for the same attempt, even  *)
(* when its job stalls and is redelivered while the first handler lives.   *)
AttemptExecutedByOneHandler ==
  \A v, w \in Workers :
    /\ worker[v].pc \in ExecutingPCs /\ worker[w].pc \in ExecutingPCs
    /\ worker[v].attempt = worker[w].attempt
    => v = w

LeaseArbitration ==
  \A a \in Attempts :
    attemptStatus[a] = "RUNNING" /\ attemptStatus'[a] # "RUNNING" =>
      /\ runStatus'[runId[a]] # "RUNNING"
      /\ lease[a] = "live" =>
           LET w == executionOwner[a] IN
           /\ worker[w].pc = "persist" /\ worker[w].attempt = a
           /\ ~worker[w].lost
           /\ attemptStatus'[a] = worker[w].result
      /\ lease[a] = "expired" => attemptStatus'[a] = "FAILED"

(* The lease arbitrates who may end a RUNNING attempt: while it is live    *)
(* only the outcome its owner's handler returned, once it has expired only *)
(* the ticker's FAILED, and the Run moves in the same step.                *)
LeaseArbitrates == [][LeaseArbitration]_vars

(* Status columns only move along the tables of the domain layer. *)
FollowsStateMachines == RSM!RSMSpec

-----------------------------------------------------------------------------
(* Liveness.  Every worker process runs the ticker in a loop that survives *)
(* failing ticks; each tick goes through its three phases in order, so     *)
(* none is starved by another (strong fairness).  BullMQ delivers while a  *)
(* worker is free and finds the jobs of dead ones; a handler's own steps   *)
(* follow one another.  Nothing is assumed of runtimes, of leases running  *)
(* out, or of clients: a resume request need never come.                   *)
Fairness ==
  /\ \A p \in Recoverers :
       /\ WF_vars(RecoveryStep(p))
       /\ \A a \in Attempts : /\ SF_vars(ListExpiredAttempt(p, a))
                              /\ SF_vars(RepairQueuedDelivery(p, a))
       /\ \A r \in Runs : SF_vars(AssessRecovery(p, r, TRUE))
  /\ \A w \in Workers : /\ WF_vars(HandlerStep(w))
                         /\ WF_vars(\E a \in Attempts : Deliver(w, a))
  /\ \A a \in Attempts : WF_vars(AbandonedJobStalls(a))

FairSpec == Spec /\ Fairness

(* An attempt whose lease ran out does not stay RUNNING: some ticker fails *)
(* it, even when tickers crash between reading and writing.                *)
ExpiredLeaseSettled ==
  \A a \in Attempts :
    attemptStatus[a] = "RUNNING" /\ lease[a] = "expired"
      ~> attemptStatus[a] # "RUNNING"

(* A queued attempt whose enqueue was lost, for the first attempt as for a *)
(* successor, gets a job in the end.                                       *)
LostDeliveryRepaired ==
  \A a \in Attempts :
    attemptStatus[a] = "PENDING" /\ runId[a] # None
      /\ runStatus[runId[a]] = "QUEUED" /\ job[a].state = "absent"
      ~> job[a].state # "absent"

(* An interrupted Run with automatic recovery does not wait for ever: it   *)
(* is scheduled again or explicitly blocked.                               *)
InterruptedRunDispatched ==
  \A r \in Runs :
    runStatus[r] = "INTERRUPTED" /\ recovery[r].automatic /\ AttemptIdLeft
      ~> runStatus[r] # "INTERRUPTED" \/ recovery[r].blocked
=============================================================================
