-------------------------- MODULE RunLifecycleProofs --------------------------
(* Proofs about RunLifecycle for every number of Runs, attempts, workers    *)
(* and recoverers.                                                          *)
EXTENDS RunLifecycle, TLAPS

-----------------------------------------------------------------------------
(* Type correctness.  TypeOK alone is not inductive: what a handler or a    *)
(* recovery call writes comes from its local variables, which hold a value  *)
(* of the right kind only at the points of the code that use them.          *)

HandlerLocals ==
  { h \in Handlers :
      /\ h.pc # "idle" => h.attempt \in Attempts
      /\ h.pc \in {"returned", "persist"} => h.result # None }

RecoveryLocals ==
  { c \in RecoveryCalls :
      /\ c.pc \in {"settle", "enqueue"} => c.target \in Attempts
      /\ c.pc \in {"block", "schedule", "checkActive", "insert"} =>
           c.target \in Runs
      /\ c.pc = "block" => c.metadata # None }

LocalsOK ==
  /\ worker \in [Workers -> HandlerLocals]
  /\ recoverer \in [Recoverers -> RecoveryLocals]

(* An attempt row that exists names its Run.                                *)
RowsOK == \A a \in Attempts : attemptStatus[a] # RSM!Absent => runId[a] \in Runs

TypeInv == TypeOK /\ LocalsOK /\ RowsOK

USE RunLifecycleAssumption

LEMMA IdleIsTyped ==
  IdleWorker \in HandlerLocals /\ IdleRecoverer \in RecoveryLocals
  BY DEF IdleWorker, IdleRecoverer, HandlerLocals, RecoveryLocals, Handlers,
         RecoveryCalls, HandlerPCs, RecovererPCs

LEMMA LocalsAreTyped ==
  HandlerLocals \subseteq Handlers /\ RecoveryLocals \subseteq RecoveryCalls
  BY DEF HandlerLocals, RecoveryLocals

LEMMA TypeInit == Init => TypeInv
<1> SUFFICES ASSUME Init PROVE TypeInv
  OBVIOUS
<1>1. NoJob \in Jobs
  BY DEF NoJob, Jobs, JobStates
<1> QED BY <1>1, IdleIsTyped, LocalsAreTyped
        DEF Init, TypeInv, TypeOK, LocalsOK, RowsOK, RowsOK, RSM!Absent

LEMMA EnqueueType ==
  ASSUME job \in [Attempts -> Jobs], NEW a \in Attempts, Enqueue(a)
  PROVE  job' \in [Attempts -> Jobs]
<1>1. [NoJob EXCEPT !.state = "waiting"] \in Jobs
  BY DEF Jobs, JobStates, NoJob
<1> QED BY <1>1 DEF Enqueue

LEMMA JobMoves ==
  ASSUME NEW j \in Jobs, NEW s \in JobStates, NEW k \in Workers \cup {None}
  PROVE  [j EXCEPT !.state = s, !.lock = k] \in Jobs
  BY DEF Jobs

LEMMA HandlerEndsType ==
  ASSUME TypeInv, NEW w \in Workers, NEW o \in {"completed", "failed"},
         worker[w].pc # "idle", HandlerEnds(w, o)
  PROVE  job' \in [Attempts -> Jobs] /\ worker' \in [Workers -> HandlerLocals]
<1>1. worker[w].attempt \in Attempts
  BY DEF TypeInv, LocalsOK, HandlerLocals
<1>2. [job[worker[w].attempt] EXCEPT !.state = o, !.lock = None] \in Jobs
  BY <1>1, JobMoves DEF TypeInv, TypeOK, JobStates
<1> QED BY <1>2, IdleIsTyped DEF HandlerEnds, SettleJob, TypeInv, TypeOK, LocalsOK

(* Moving a handler that has an attempt, and a result where one is needed.  *)
LEMMA GoToType ==
  ASSUME TypeInv, NEW w \in Workers, worker[w].pc # "idle",
         NEW l \in HandlerPCs \ {"returned"}, GoTo(w, l),
         l = "persist" => worker[w].result # None
  PROVE  worker' \in [Workers -> HandlerLocals]
<1>1. [worker[w] EXCEPT !.pc = l] \in HandlerLocals
  BY DEF TypeInv, LocalsOK, HandlerLocals, Handlers
<1> QED BY <1>1 DEF GoTo, TypeInv, LocalsOK

LEMMA ReturnedType ==
  ASSUME TypeInv, NEW w \in Workers, worker[w].pc # "idle",
         NEW o \in {"SUCCEEDED", "FAILED"}, Returned(w, o)
  PROVE  worker' \in [Workers -> HandlerLocals]
<1>1. o # None
  OBVIOUS
<1>2. [worker[w] EXCEPT !.pc = "returned", !.result = o] \in HandlerLocals
  BY <1>1 DEF TypeInv, LocalsOK, HandlerLocals, Handlers, HandlerPCs
<1> QED BY <1>2 DEF Returned, TypeInv, LocalsOK

LEMMA TypeCreateRun ==
  ASSUME TypeInv, NEW r \in Runs, CreateRun(r)
  PROVE  TypeInv'
<1>1. ASSUME NEW a \in Attempts, CreateRunWithInitialAttempt(r, a)
      PROVE  TypeInv'
  BY <1>1 DEF TypeInv, TypeOK, LocalsOK, RowsOK, CreateRunWithInitialAttempt,
              InsertAttempt, RSM!RunStates, RSM!AttemptStates, RSM!Absent
<1>2. CASE CreateRunTransition(r)
  BY <1>2 DEF TypeInv, TypeOK, LocalsOK, RowsOK, CreateRunTransition, attemptVars,
              RSM!RunStates
<1>3. CASE CreateRunEnqueue(r)
  <2>1. PICK a \in Attempts : Enqueue(a)
    BY <1>3 DEF CreateRunEnqueue, AttemptsOf
  <2>2. job' \in [Attempts -> Jobs]
    BY <2>1, EnqueueType DEF TypeInv, TypeOK
  <2> QED BY <1>3, <2>2 DEF TypeInv, TypeOK, LocalsOK, RowsOK, CreateRunEnqueue,
                            runVars, attemptVars
<1>4. CASE CreateRunFails(r)
  BY <1>4 DEF TypeInv, TypeOK, LocalsOK, RowsOK, CreateRunFails, Fault, runVars,
              attemptVars
<1> QED BY <1>1, <1>2, <1>3, <1>4 DEF CreateRun

LEMMA TypeHandler ==
  ASSUME TypeInv, NEW w \in Workers, ExecuteRunAttempt(w)
  PROVE  TypeInv'
<1> USE DEF TypeInv
<1> USE LocalsAreTyped
<1>1. ASSUME NEW a \in Attempts, Deliver(w, a)
      PROVE  TypeInv'
  <2>1. [IdleWorker EXCEPT !.pc = "loadAttempt", !.attempt = a] \in HandlerLocals
    BY DEF IdleWorker, HandlerLocals, Handlers, HandlerPCs
  <2>2. [job[a] EXCEPT !.state = "active", !.lock = w] \in Jobs
    BY JobMoves DEF TypeOK, JobStates
  <2> QED BY <1>1, <2>1, <2>2 DEF TypeOK, LocalsOK, RowsOK, Deliver, runVars, attemptVars
<1>2. CASE LoadAttempt(w)
  <2>1. [worker[w] EXCEPT !.pc = "loadRun",
                          !.seen = attemptStatus[worker[w].attempt]]
          \in HandlerLocals
    BY <1>2 DEF TypeOK, LocalsOK, RowsOK, HandlerLocals, LoadAttempt, Handlers, HandlerPCs
  <2> QED BY <1>2, <2>1 DEF TypeOK, LocalsOK, RowsOK, LoadAttempt, runVars, attemptVars
<1>3. CASE LoadRun(w)
  <2>1. ASSUME NEW o \in {"completed", "failed"}, HandlerEnds(w, o)
        PROVE  TypeInv'
    BY <1>3, <2>1, HandlerEndsType DEF TypeOK, LocalsOK, RowsOK, LoadRun, runVars,
                                       attemptVars
  <2>2. ASSUME GoTo(w, "acquire"), UNCHANGED job
        PROVE  TypeInv'
    BY <1>3, <2>2, GoToType DEF TypeOK, LocalsOK, RowsOK, LoadRun, HandlerPCs, runVars,
                                attemptVars
  <2> QED BY <1>3, <2>1, <2>2 DEF LoadRun
<1>4. CASE AcquireRunningLease(w)
  <2>1. worker' \in [Workers -> HandlerLocals]
    BY <1>4, GoToType DEF AcquireRunningLease, HandlerPCs
  <2>2. RowsOK'
    BY <1>4 DEF TypeOK, RowsOK, AcquireRunningLease, MayAcquire, RSM!Absent
  <2> QED BY <1>4, <2>1, <2>2 DEF TypeOK, LocalsOK, AcquireRunningLease,
                                  RSM!RunStates, RSM!AttemptStates
<1>5. CASE AcquireConflict(w)
  <2>1. PICK o \in {"completed", "failed"} : HandlerEnds(w, o)
    BY <1>5 DEF AcquireConflict
  <2> QED BY <1>5, <2>1, HandlerEndsType DEF TypeOK, LocalsOK, RowsOK, AcquireConflict,
                                         runVars, attemptVars
<1>6. CASE StartRuntime(w)
  BY <1>6, GoToType DEF TypeOK, LocalsOK, RowsOK, StartRuntime, HandlerPCs, runVars,
                        attemptVars
<1>7. CASE Heartbeat(w)
  <2>1. [worker[w] EXCEPT !.lost = TRUE] \in HandlerLocals
    BY DEF LocalsOK, HandlerLocals, Handlers
  <2> QED BY <1>7, <2>1 DEF TypeOK, LocalsOK, RowsOK, Heartbeat, runVars, attemptVars
<1>8. CASE CheckpointFence(w)
  <2>1. worker' \in [Workers -> HandlerLocals]
    BY <1>8, GoToType, ReturnedType DEF CheckpointFence, HandlerPCs
  <2> QED BY <1>8, <2>1 DEF TypeOK, LocalsOK, RowsOK, CheckpointFence, runVars,
                            attemptVars
<1>9. CASE CheckpointInsert(w)
  <2>1. worker' \in [Workers -> HandlerLocals]
    BY <1>9, GoToType DEF CheckpointInsert, HandlerPCs
  <2> QED BY <1>9, <2>1 DEF TypeOK, LocalsOK, RowsOK, CheckpointInsert, runVars,
                            attemptVars
<1>10. CASE RuntimeReturns(w)
  BY <1>10, ReturnedType DEF TypeOK, LocalsOK, RowsOK, RuntimeReturns, RuntimeOutcomes,
                             runVars, attemptVars
<1>11. CASE CheckOwnership(w)
  <2>1. CASE worker[w].lost
    BY <1>11, <2>1, HandlerEndsType DEF TypeOK, LocalsOK, RowsOK, CheckOwnership,
                                        runVars, attemptVars
  <2>2. CASE ~worker[w].lost
    <3>1. worker[w].result # None
      BY <1>11 DEF CheckOwnership, LocalsOK, HandlerLocals
    <3> QED BY <1>11, <2>2, <3>1, GoToType DEF TypeOK, LocalsOK, RowsOK, CheckOwnership,
                                       HandlerPCs, runVars, attemptVars
  <2> QED BY <2>1, <2>2
<1>12. CASE PersistTerminal(w)
  <2>1. worker[w].result \in {"SUCCEEDED", "FAILED"}
    BY <1>12 DEF PersistTerminal, LocalsOK, HandlerLocals, Handlers
  <2>2. RowsOK'
    BY <1>12 DEF TypeOK, RowsOK, PersistTerminal, HoldsLease, RSM!Absent
  <2> QED BY <1>12, <2>1, <2>2, HandlerEndsType
          DEF TypeOK, LocalsOK, PersistTerminal, RSM!RunStates,
              RSM!TerminalRunStates, RSM!AttemptStates, RSM!TerminalAttemptStates
<1>13. CASE HandlerThrows(w)
  BY <1>13, HandlerEndsType DEF TypeOK, LocalsOK, RowsOK, HandlerThrows, Fault, runVars,
                                attemptVars
<1>14. CASE WorkerCrash(w)
  BY <1>14, IdleIsTyped DEF TypeOK, LocalsOK, RowsOK, WorkerCrash, Fault, runVars,
                            attemptVars
<1> QED BY <1>1, <1>2, <1>3, <1>4, <1>5, <1>6, <1>7, <1>8, <1>9, <1>10, <1>11,
           <1>12, <1>13, <1>14 DEF ExecuteRunAttempt, HandlerStep

LEMMA TypeEnvironment ==
  ASSUME TypeInv, NEW a \in Attempts,
         AbandonedJobStalls(a) \/ LiveJobStalls(a) \/ ExpireLease(a)
  PROVE  TypeInv'
<1>1. ASSUME StallJob(a) PROVE job' \in [Attempts -> Jobs]
  BY <1>1 DEF StallJob, TypeInv, TypeOK, Jobs, JobStates
<1>2. CASE AbandonedJobStalls(a)
  BY <1>1, <1>2 DEF AbandonedJobStalls, TypeInv, TypeOK, LocalsOK, RowsOK, runVars,
                    attemptVars
<1>3. CASE LiveJobStalls(a)
  BY <1>1, <1>3 DEF LiveJobStalls, Fault, TypeInv, TypeOK, LocalsOK, RowsOK, runVars,
                    attemptVars
<1>4. CASE ExpireLease(a)
  BY <1>4 DEF ExpireLease, TypeInv, TypeOK, LocalsOK, RowsOK, runVars
<1> QED BY <1>2, <1>3, <1>4

LEMMA TypeRecovery ==
  ASSUME TypeInv, NEW p \in Recoverers, Recover(p)
  PROVE  TypeInv'
<1> USE DEF TypeInv
<1> USE LocalsAreTyped, IdleIsTyped
<1>1. ASSUME NEW a \in Attempts, ListExpiredAttempt(p, a)
      PROVE  TypeInv'
  <2>1. hasCheckpoint[runId[a]] \in BOOLEAN
    BY <1>1 DEF TypeOK, RowsOK, ListExpiredAttempt, LeaseExpired, RSM!Absent
  <2> QED BY <1>1, <2>1 DEF TypeOK, LocalsOK, RowsOK, ListExpiredAttempt, RecoveryLocals,
                      RecoveryCalls, RecovererPCs, runVars, attemptVars
<1>2. ASSUME NEW a \in Attempts, RepairQueuedDelivery(p, a)
      PROVE  TypeInv'
  BY <1>2, EnqueueType DEF TypeOK, LocalsOK, RowsOK, RepairQueuedDelivery, runVars,
                           attemptVars
<1>3. ASSUME NEW r \in Runs, NEW automatic \in BOOLEAN,
             AssessRecovery(p, r, automatic)
      PROVE  TypeInv'
  BY <1>3 DEF TypeOK, LocalsOK, RowsOK, AssessRecovery, Assessment, RecoveryLocals,
              RecoveryCalls, RecovererPCs, runVars, attemptVars
<1>4. CASE RecovererFails(p)
  BY <1>4 DEF TypeOK, LocalsOK, RowsOK, RecovererFails, RecovererDone, Fault, runVars,
              attemptVars
<1>5. CASE SettleExpiredAttempt(p)
  <2> DEFINE a == recoverer[p].target
  <2>1. a \in Attempts
    BY <1>5 DEF SettleExpiredAttempt, LocalsOK, RecoveryLocals
  <2>2. ASSUME LeaseExpired(a) PROVE runId[a] \in Runs
    BY <2>1, <2>2 DEF RowsOK, LeaseExpired, RSM!Absent
  <2>3. ASSUME FailAttempt(a)
        PROVE  /\ attemptStatus' \in [Attempts -> RSM!AttemptStates \cup {RSM!Absent}]
               /\ lease' \in [Attempts -> {None, "live", "expired"}]
               /\ UNCHANGED <<runId, sequence, executionOwner>>
    BY <2>1, <2>3 DEF FailAttempt, TypeOK, RSM!AttemptStates,
                      RSM!TerminalAttemptStates
  <2>4. ASSUME FailAttempt(a), LeaseExpired(a) PROVE RowsOK'
    BY <2>1, <2>2, <2>4 DEF FailAttempt, TypeOK, RowsOK
  <2>5. recoverer' \in [Recoverers -> RecoveryLocals]
    BY <1>5 DEF SettleExpiredAttempt, RecovererDone, LocalsOK
  <2>6. CASE InterruptExpired(a)
    <3>1. InterruptionMetadata(runId[a]) \in RecoveryMetadata
      BY DEF InterruptionMetadata, RecoveryMetadata
    <3>2. runStatus' \in [Runs -> RSM!RunStates \cup {RSM!Absent}]
      BY <2>2, <2>6 DEF InterruptExpired, TypeOK, RSM!RunStates, runVars
    <3>3. recovery' \in [Runs -> RecoveryMetadata \cup {None}]
      BY <2>2, <2>6, <3>1 DEF InterruptExpired, TypeOK, runVars
    <3> QED BY <1>5, <2>3, <2>4, <2>5, <2>6, <3>2, <3>3
            DEF SettleExpiredAttempt, InterruptExpired, TypeOK, LocalsOK, RowsOK,
                runVars, attemptVars
  <2>7. CASE FailExpired(a)
    <3>1. runStatus' \in [Runs -> RSM!RunStates \cup {RSM!Absent}]
      BY <2>2, <2>7 DEF FailExpired, TypeOK, RSM!RunStates,
                        RSM!TerminalRunStates, runVars
    <3>2. UNCHANGED recovery
      BY <2>7 DEF FailExpired, runVars
    <3> QED BY <1>5, <2>3, <2>4, <2>5, <2>7, <3>1, <3>2
            DEF SettleExpiredAttempt, FailExpired, TypeOK, LocalsOK, RowsOK,
                attemptVars
  <2> QED BY <1>5, <2>6, <2>7 DEF SettleExpiredAttempt
<1>6. CASE BlockRecovery(p)
  <2>1. recoverer[p].target \in Runs /\ recoverer[p].metadata \in RecoveryMetadata
    BY <1>6 DEF BlockRecovery, LocalsOK, RecoveryLocals, RecoveryCalls
  <2>2. [recoverer[p].metadata EXCEPT !.blocked = TRUE] \in RecoveryMetadata
    BY <2>1 DEF RecoveryMetadata
  <2> QED BY <1>6, <2>1, <2>2 DEF TypeOK, LocalsOK, RowsOK, BlockRecovery,
                                  RecovererDone, attemptVars
<1>7. CASE ScheduleSelectRun(p)
  <2>1. [recoverer[p] EXCEPT !.pc = "checkActive"] \in RecoveryLocals
    BY <1>7 DEF ScheduleSelectRun, LocalsOK, RecoveryLocals, RecoveryCalls,
                RecovererPCs
  <2> QED BY <1>7, <2>1 DEF TypeOK, LocalsOK, RowsOK, ScheduleSelectRun,
                            RecovererDone, runVars, attemptVars
<1>8. CASE ScheduleCheckActive(p)
  <2>1. [recoverer[p] EXCEPT !.pc = "insert"] \in RecoveryLocals
    BY <1>8 DEF ScheduleCheckActive, LocalsOK, RecoveryLocals, RecoveryCalls,
                RecovererPCs
  <2> QED BY <1>8, <2>1 DEF TypeOK, LocalsOK, RowsOK, ScheduleCheckActive,
                            RecovererDone, runVars, attemptVars
<1>9. ASSUME NEW a \in Attempts, ScheduleInsert(p, a)
      PROVE  TypeInv'
  <2> DEFINE r == recoverer[p].target
  <2>1. r \in Runs /\ recoverer[p].metadata \in RecoveryMetadata \cup {None}
    BY <1>9 DEF ScheduleInsert, LocalsOK, RecoveryLocals, RecoveryCalls
  <2>2. PICK n \in Nat : InsertAttempt(a, r, n)
    BY <1>9 DEF ScheduleInsert, NextSequence, AttemptsOf, TypeOK
  <2>3. NextMetadata(r, recoverer[p].metadata) \in RecoveryMetadata
    BY <2>1 DEF NextMetadata, RecoveryMetadata
  <2>4. [recoverer[p] EXCEPT !.pc = "enqueue", !.target = a] \in RecoveryLocals
    BY DEF LocalsOK, RecoveryLocals, RecoveryCalls, RecovererPCs
  <2>5. recoverer' \in [Recoverers -> RecoveryLocals]
    BY <1>9, <2>4 DEF ScheduleInsert, RecovererDone, LocalsOK
  <2>6. /\ runStatus' \in [Runs -> RSM!RunStates \cup {RSM!Absent}]
        /\ recovery' \in [Runs -> RecoveryMetadata \cup {None}]
    BY <1>9, <2>1, <2>3 DEF ScheduleInsert, TypeOK, RSM!RunStates, runVars
  <2>7. /\ attemptStatus' \in [Attempts -> RSM!AttemptStates \cup {RSM!Absent}]
        /\ runId' \in [Attempts -> Runs \cup {None}]
        /\ sequence' \in [Attempts -> Nat]
        /\ UNCHANGED <<executionOwner, lease>>
        /\ RowsOK'
    BY <2>1, <2>2 DEF InsertAttempt, TypeOK, RowsOK, RSM!AttemptStates
  <2> QED BY <1>9, <2>5, <2>6, <2>7 DEF ScheduleInsert, TypeOK, LocalsOK
<1>10. CASE ScheduleRefused(p)
  BY <1>10 DEF TypeOK, LocalsOK, RowsOK, ScheduleRefused, RecovererDone, runVars,
               attemptVars
<1>11. CASE RecoverEnqueue(p)
  <2>1. recoverer[p].target \in Attempts
    BY <1>11 DEF RecoverEnqueue, LocalsOK, RecoveryLocals
  <2> QED BY <1>11, <2>1, EnqueueType DEF TypeOK, LocalsOK, RowsOK, RecoverEnqueue,
                                  RecovererDone, runVars, attemptVars
<1> QED BY <1>1, <1>2, <1>3, <1>4, <1>5, <1>6, <1>7, <1>8, <1>9, <1>10, <1>11
        DEF Recover, RecoveryStep

(* Every step, stuttering included, preserves TypeInv.                      *)
LEMMA TypeNext == TypeInv /\ [Next]_vars => TypeInv'
<1> SUFFICES ASSUME TypeInv, [Next]_vars PROVE TypeInv'
  OBVIOUS
<1>1. CASE UNCHANGED vars
  BY <1>1 DEF vars, TypeInv, TypeOK, LocalsOK, RowsOK
<1>2. CASE Next
  BY <1>2, TypeCreateRun, TypeHandler, TypeEnvironment, TypeRecovery DEF Next
<1> QED BY <1>1, <1>2

(* Rows and locals keep their types in every reachable state.               *)
THEOREM TypeCorrect == Spec => []TypeOK
<1>1. Spec => []TypeInv
  BY TypeInit, TypeNext, PTL DEF Spec
<1>2. TypeInv => TypeOK
  BY DEF TypeInv
<1> QED BY <1>1, <1>2, PTL

-----------------------------------------------------------------------------
(* The inductive invariant.  RunMatchesLatestAttempt and                    *)
(* SuccessorsFollowFailures hold each other up: an attempt that has not     *)
(* FAILED is the latest of its Run, so moving it moves the attempt the      *)
(* Run's status speaks about.                                               *)

RowInv ==
  \A a \in Attempts :
    /\ runId[a] = None => attemptStatus[a] = RSM!Absent /\ sequence[a] = 0
    /\ runId[a] # None => runStatus[runId[a]] # RSM!Absent
    /\ attemptStatus[a] \in {RSM!Absent, "PENDING", "RUNNING", "SUCCEEDED", "FAILED"}

RowsAgree == RowInv /\ SuccessorsFollowFailures /\ RunMatchesLatestAttempt

(* A handler inside the runtime owns its attempt, and for ever: no row      *)
(* that has left PENDING is acquired again.                                 *)
HandlerInv ==
  \A w \in Workers :
    /\ worker[w].pc \in ExecutingPCs =>
         /\ executionOwner[worker[w].attempt] = w
         /\ attemptStatus[worker[w].attempt] \notin {RSM!Absent, "PENDING"}
    /\ worker[w].pc = "persist" => ~worker[w].lost

(* The eligibility answer a recovery call acts on stays true: checkpoints   *)
(* are never deleted.                                                       *)
CheckpointInv ==
  /\ \A r \in Runs : hasCheckpoint[r] => r \in CheckpointedRuns
  /\ \A w \in Workers : worker[w].pc = "committing" =>
       runId[worker[w].attempt] \in CheckpointedRuns
  /\ \A p \in Recoverers :
       recoverer[p].pc \in {"schedule", "checkActive", "insert"} =>
         hasCheckpoint[recoverer[p].target]
  /\ SuccessorNeedsCheckpoint

IInv == TypeInv /\ RowsAgree /\ HandlerInv /\ CheckpointInv

(* An attempt that has not FAILED is the latest of its Run.                 *)
LEMMA ActiveIsLatest ==
  ASSUME TypeInv, RowsAgree, NEW a \in Attempts,
         attemptStatus[a] \in {"PENDING", "RUNNING", "SUCCEEDED"}
  PROVE  runId[a] \in Runs /\ IsLatest(a)
<1>1. runId[a] \in Runs
  BY DEF TypeInv, RowsOK, RSM!Absent
<1>2. ASSUME NEW b \in Attempts, runId[b] = runId[a]
      PROVE  sequence[b] <= sequence[a]
  <2>1. sequence[a] \in Nat /\ sequence[b] \in Nat
    BY DEF TypeInv, TypeOK
  <2>2. CASE a # b
    BY <1>1, <1>2, <2>1, <2>2 DEF RowsAgree, SuccessorsFollowFailures
  <2> QED BY <2>1, <2>2
<1> QED BY <1>1, <1>2 DEF IsLatest

LEMMA LatestIsUnique ==
  ASSUME TypeInv, RowsAgree, NEW a \in Attempts, NEW b \in Attempts,
         runId[a] \in Runs, runId[b] = runId[a], IsLatest(a), IsLatest(b)
  PROVE  a = b
<1>1. sequence[a] \in Nat /\ sequence[b] \in Nat
  BY DEF TypeInv, TypeOK
<1> QED BY <1>1 DEF RowsAgree, SuccessorsFollowFailures, IsLatest

LEMMA RowsSame ==
  ASSUME RowsAgree, UNCHANGED <<runStatus, attemptStatus, runId, sequence>>
  PROVE  RowsAgree'
  BY DEF RowsAgree, RowInv, SuccessorsFollowFailures, RunMatchesLatestAttempt,
         IsLatest

(* A new attempt, numbered above the FAILED attempts its Run had.           *)
LEMMA RowsInsert ==
  ASSUME TypeInv, RowsAgree, NEW a \in Attempts, NEW r \in Runs, NEW n \in Nat,
         runId[a] = None, InsertAttempt(a, r, n),
         \A b \in AttemptsOf(r) : attemptStatus[b] = "FAILED" /\ sequence[b] < n,
         NEW s \in {"PENDING", "QUEUED", "FAILED", "TIMED_OUT", "CANCELLED"},
         runStatus' = [runStatus EXCEPT ![r] = s]
  PROVE  RowsAgree'
<1> USE DEF TypeInv, TypeOK, RSM!Absent
<1>1. /\ attemptStatus' = [attemptStatus EXCEPT ![a] = "PENDING"]
      /\ runId' = [runId EXCEPT ![a] = r]
      /\ sequence' = [sequence EXCEPT ![a] = n]
  BY DEF InsertAttempt
<1>2. RowInv'
  BY <1>1 DEF RowsAgree, RowInv
<1>3. SuccessorsFollowFailures'
  BY <1>1 DEF RowsAgree, SuccessorsFollowFailures, AttemptsOf
<1>4. RunMatchesLatestAttempt'
  <2> SUFFICES ASSUME NEW b \in Attempts, (runId[b] # None)', IsLatest(b)'
               PROVE  LET status == runStatus'[runId'[b]] IN
                      /\ status \in {"PENDING", "QUEUED"} =>
                           attemptStatus'[b] = "PENDING"
                      /\ status = "RUNNING" <=> attemptStatus'[b] = "RUNNING"
                      /\ status = "INTERRUPTED" => attemptStatus'[b] = "FAILED"
                      /\ status = "SUCCEEDED" <=> attemptStatus'[b] = "SUCCEEDED"
    BY DEF RunMatchesLatestAttempt
  <2>1. CASE b = a
    BY <1>1, <2>1
  <2>2. CASE b # a /\ runId[b] = r
    <3>1. sequence'[a] = n /\ sequence'[b] = sequence[b] /\ runId'[a] = runId'[b]
      BY <1>1, <2>2
    <3>2. n <= sequence[b]
      BY <3>1 DEF IsLatest
    <3>3. sequence[b] < n /\ sequence[b] \in Nat
      BY <2>2 DEF AttemptsOf
    <3> QED BY <3>2, <3>3
  <2>3. CASE b # a /\ runId[b] # r
    <3>1. runId'[b] = runId[b] /\ attemptStatus'[b] = attemptStatus[b]
          /\ runId[b] \in Runs /\ runStatus'[runId[b]] = runStatus[runId[b]]
      BY <1>1, <2>3
    <3>2. IsLatest(b)
      BY <1>1, <2>3 DEF IsLatest
    <3> QED BY <3>1, <3>2 DEF RowsAgree, RunMatchesLatestAttempt
  <2> QED BY <2>1, <2>2, <2>3
<1> QED BY <1>2, <1>3, <1>4 DEF RowsAgree

(* An active attempt and its Run move together.                             *)
LEMMA RowsMove ==
  ASSUME TypeInv, RowsAgree, NEW a \in Attempts, IsActive(a), NEW s, NEW t,
         \/ s = "RUNNING" /\ t = "RUNNING"
         \/ s = "SUCCEEDED" /\ t = "SUCCEEDED"
         \/ s = "FAILED" /\ t \in {"FAILED", "INTERRUPTED"},
         attemptStatus' = [attemptStatus EXCEPT ![a] = s],
         runStatus' = [runStatus EXCEPT ![runId[a]] = t],
         UNCHANGED <<runId, sequence>>
  PROVE  RowsAgree'
<1> USE DEF TypeInv, TypeOK, RSM!Absent
<1>1. runId[a] \in Runs /\ IsLatest(a)
  BY ActiveIsLatest DEF IsActive
<1>2. RowInv'
  BY <1>1 DEF RowsAgree, RowInv
<1>3. SuccessorsFollowFailures'
  <2>1. \A b \in Attempts : runId[b] = runId[a] => ~(sequence[a] < sequence[b])
    BY <1>1 DEF IsLatest
  <2> QED BY <1>1, <2>1 DEF RowsAgree, SuccessorsFollowFailures
<1>4. RunMatchesLatestAttempt'
  <2> SUFFICES ASSUME NEW b \in Attempts, runId[b] # None, IsLatest(b)
               PROVE  LET status == runStatus'[runId[b]] IN
                      /\ status \in {"PENDING", "QUEUED"} =>
                           attemptStatus'[b] = "PENDING"
                      /\ status = "RUNNING" <=> attemptStatus'[b] = "RUNNING"
                      /\ status = "INTERRUPTED" => attemptStatus'[b] = "FAILED"
                      /\ status = "SUCCEEDED" <=> attemptStatus'[b] = "SUCCEEDED"
    BY DEF RunMatchesLatestAttempt, IsLatest
  <2>1. CASE runId[b] = runId[a]
    <3>1. b = a
      BY <1>1, <2>1, LatestIsUnique
    <3> QED BY <1>1, <3>1
  <2>2. CASE runId[b] # runId[a]
    BY <1>1, <2>2 DEF RowsAgree, RunMatchesLatestAttempt
  <2> QED BY <2>1, <2>2
<1> QED BY <1>2, <1>3, <1>4 DEF RowsAgree

LEMMA RowsCreateRun ==
  ASSUME IInv, NEW r \in Runs, CreateRun(r)
  PROVE  RowsAgree'
<1> USE DEF IInv
<1>1. ASSUME NEW a \in Attempts, CreateRunWithInitialAttempt(r, a)
      PROVE  RowsAgree'
  <2>1. AttemptsOf(r) = {}
    BY <1>1 DEF CreateRunWithInitialAttempt, AttemptsOf, RowsAgree, RowInv,
                RSM!Absent
  <2> QED BY <1>1, <2>1, RowsInsert DEF CreateRunWithInitialAttempt
<1>2. CASE CreateRunTransition(r)
  <2>1. /\ runStatus[r] = "PENDING" /\ runStatus' = [runStatus EXCEPT ![r] = "QUEUED"]
        /\ UNCHANGED <<attemptStatus, runId, sequence>>
    BY <1>2 DEF CreateRunTransition, attemptVars
  <2>2. RowInv' /\ SuccessorsFollowFailures'
    BY <2>1 DEF RowsAgree, RowInv, SuccessorsFollowFailures, TypeInv, TypeOK,
                RSM!Absent
  <2>3. RunMatchesLatestAttempt'
    BY <2>1 DEF RowsAgree, RunMatchesLatestAttempt, IsLatest, TypeInv, TypeOK
  <2> QED BY <2>2, <2>3 DEF RowsAgree
<1>3. CASE CreateRunEnqueue(r) \/ CreateRunFails(r)
  BY <1>3, RowsSame DEF CreateRunEnqueue, CreateRunFails, runVars, attemptVars
<1> QED BY <1>1, <1>2, <1>3 DEF CreateRun

LEMMA RowsHandler ==
  ASSUME IInv, NEW w \in Workers, ExecuteRunAttempt(w)
  PROVE  RowsAgree'
<1> USE DEF IInv
<1> DEFINE a == worker[w].attempt
<1>1. CASE AcquireRunningLease(w)
  <2>1. a \in Attempts
    BY <1>1 DEF AcquireRunningLease, TypeInv, LocalsOK, HandlerLocals
  <2>2. CASE MayAcquire(a)
    <3>1. IsActive(a)
      BY <2>2 DEF MayAcquire, IsActive
    <3> QED BY <1>1, <2>1, <2>2, <3>1, RowsMove DEF AcquireRunningLease
  <2>3. CASE ~MayAcquire(a)
    BY <1>1, <2>3, RowsSame DEF AcquireRunningLease
  <2> QED BY <2>2, <2>3
<1>2. CASE PersistTerminal(w)
  <2>1. a \in Attempts /\ worker[w].result \in {"SUCCEEDED", "FAILED"}
    BY <1>2 DEF PersistTerminal, TypeInv, LocalsOK, HandlerLocals, Handlers
  <2>2. CASE HoldsLease(w, a) /\ runStatus[runId[a]] = "RUNNING"
    <3>1. IsActive(a)
      BY <2>2 DEF HoldsLease, IsActive
    <3> QED BY <1>2, <2>1, <2>2, <3>1, RowsMove DEF PersistTerminal
  <2>3. CASE ~(HoldsLease(w, a) /\ runStatus[runId[a]] = "RUNNING")
    BY <1>2, <2>3, RowsSame DEF PersistTerminal
  <2> QED BY <2>2, <2>3
<1>3. CASE UNCHANGED <<runVars, attemptVars>>
  BY <1>3, RowsSame DEF runVars, attemptVars
<1> QED BY <1>1, <1>2, <1>3
        DEF ExecuteRunAttempt, HandlerStep, Deliver, LoadAttempt, LoadRun,
            AcquireConflict, StartRuntime, Heartbeat, CheckpointFence,
            CheckpointInsert, RuntimeReturns, CheckOwnership, HandlerThrows,
            WorkerCrash

LEMMA RowsEnvironment ==
  ASSUME IInv, NEW a \in Attempts,
         AbandonedJobStalls(a) \/ LiveJobStalls(a) \/ ExpireLease(a)
  PROVE  RowsAgree'
  BY RowsSame DEF IInv, AbandonedJobStalls, LiveJobStalls, ExpireLease, runVars,
                  attemptVars

LEMMA RowsRecovery ==
  ASSUME IInv, NEW p \in Recoverers, Recover(p)
  PROVE  RowsAgree'
<1> USE DEF IInv
<1>1. CASE SettleExpiredAttempt(p)
  <2> DEFINE a == recoverer[p].target
  <2>1. a \in Attempts
    BY <1>1 DEF SettleExpiredAttempt, TypeInv, LocalsOK, RecoveryLocals
  <2>2. CASE UNCHANGED <<runVars, attemptVars>>
    BY <2>2, RowsSame DEF runVars, attemptVars
  <2>3. ASSUME LeaseExpired(a)
        PROVE  IsActive(a) /\ runStatus[runId[a]] = "RUNNING"
    <3>1. attemptStatus[a] = "RUNNING" /\ IsActive(a)
      BY <2>3 DEF LeaseExpired, IsActive
    <3>2. runId[a] \in Runs /\ IsLatest(a)
      BY <2>1, <3>1, ActiveIsLatest
    <3> QED BY <2>1, <3>1, <3>2 DEF RowsAgree, RunMatchesLatestAttempt
  <2>4. CASE InterruptExpired(a)
    BY <2>1, <2>2, <2>3, <2>4, RowsMove DEF InterruptExpired, FailAttempt
  <2>5. CASE FailExpired(a)
    BY <2>1, <2>2, <2>3, <2>5, RowsMove DEF FailExpired, FailAttempt
  <2> QED BY <1>1, <2>4, <2>5 DEF SettleExpiredAttempt
<1>2. ASSUME NEW a \in Attempts, ScheduleInsert(p, a)
      PROVE  RowsAgree'
  <2> DEFINE r == recoverer[p].target
  <2>1. r \in Runs /\ runId[a] = None
    BY <1>2 DEF ScheduleInsert, TypeInv, LocalsOK, RecoveryLocals
  <2>2. PICK previous \in AttemptsOf(r) :
               /\ IsLatest(previous)
               /\ attemptStatus[previous] \in RetryableAttemptStates
               /\ InsertAttempt(a, r, NextSequence(previous))
    BY <1>2 DEF ScheduleInsert
  <2>3. previous \in Attempts /\ runId[previous] = r
    BY DEF AttemptsOf
  <2>4. attemptStatus[previous] = "FAILED"
    BY <2>2, <2>3 DEF RowsAgree, RowInv, RetryableAttemptStates, RSM!Absent
  <2>5. NextSequence(previous) \in Nat
    BY <2>3 DEF NextSequence, TypeInv, TypeOK
  <2>6. \A b \in AttemptsOf(r) :
          attemptStatus[b] = "FAILED" /\ sequence[b] < NextSequence(previous)
    <3> SUFFICES ASSUME NEW b \in AttemptsOf(r)
                 PROVE  attemptStatus[b] = "FAILED" /\
                        sequence[b] < NextSequence(previous)
      OBVIOUS
    <3>1. b \in Attempts /\ runId[b] = r
      BY DEF AttemptsOf
    <3>2. sequence[b] \in Nat /\ sequence[previous] \in Nat
      BY <2>3, <3>1 DEF TypeInv, TypeOK
    <3>3. sequence[b] <= sequence[previous]
      BY <2>2, <2>3, <3>1 DEF IsLatest
    <3>4. CASE b # previous
      BY <2>1, <2>3, <3>1, <3>2, <3>3, <3>4 DEF RowsAgree,
         SuccessorsFollowFailures, NextSequence
    <3> QED BY <2>4, <3>2, <3>3, <3>4 DEF NextSequence
  <2>7. CASE runStatus[r] = "INTERRUPTED"
    BY <1>2, <2>1, <2>2, <2>5, <2>6, <2>7, RowsInsert DEF ScheduleInsert
  <2>8. CASE runStatus[r] # "INTERRUPTED"
    <3>1. runStatus[r] \in {"FAILED", "TIMED_OUT", "CANCELLED"}
      <4>1. /\ runStatus[r] \notin {"PENDING", "QUEUED", "RUNNING", "SUCCEEDED"}
            /\ runStatus[r] # RSM!Absent
        BY <2>1, <2>2, <2>3, <2>4 DEF RowsAgree, RunMatchesLatestAttempt, RowInv
      <4> QED BY <2>1, <2>8, <4>1 DEF TypeInv, TypeOK, RSM!RunStates,
                                      RSM!TerminalRunStates
    <3>2. runStatus' = [runStatus EXCEPT ![r] = runStatus[r]]
      BY <1>2, <2>8 DEF ScheduleInsert, runVars, TypeInv, TypeOK
    <3> QED BY <2>1, <2>2, <2>5, <2>6, <3>1, <3>2, RowsInsert
  <2> QED BY <2>7, <2>8
<1>3. CASE UNCHANGED <<runStatus, attemptVars>>
  BY <1>3, RowsSame DEF attemptVars
<1> QED BY <1>1, <1>2, <1>3
        DEF Recover, RecoveryStep, ListExpiredAttempt, RepairQueuedDelivery,
            AssessRecovery, RecovererFails, BlockRecovery, ScheduleSelectRun,
            ScheduleCheckActive, ScheduleRefused, RecoverEnqueue, runVars

LEMMA RowsNext == IInv /\ Next => RowsAgree'
  BY RowsCreateRun, RowsHandler, RowsEnvironment, RowsRecovery DEF Next

-----------------------------------------------------------------------------
(* Ownership: an attempt is acquired once.                                  *)

Acquired(a) == attemptStatus[a] \notin {RSM!Absent, "PENDING"}

StaysAcquired ==
  \A a \in Attempts :
    Acquired(a) => Acquired(a)' /\ executionOwner'[a] = executionOwner[a]

LEMMA AcquiredOnce == IInv /\ Next => StaysAcquired
<1> SUFFICES ASSUME IInv, Next PROVE StaysAcquired
  OBVIOUS
<1> USE DEF IInv, TypeInv, TypeOK, Acquired, StaysAcquired, RSM!Absent
<1>1. CASE UNCHANGED <<attemptStatus, executionOwner>>
  BY <1>1
<1>2. ASSUME NEW a \in Attempts, NEW r, NEW n, runId[a] = None,
             InsertAttempt(a, r, n)
      PROVE  StaysAcquired
  BY <1>2 DEF InsertAttempt, RowsAgree, RowInv
<1>3. ASSUME NEW r \in Runs, CreateRun(r) PROVE StaysAcquired
  BY <1>1, <1>2, <1>3 DEF CreateRun, CreateRunWithInitialAttempt,
     CreateRunTransition, CreateRunEnqueue, CreateRunFails, attemptVars
<1>4. ASSUME NEW w \in Workers, ExecuteRunAttempt(w) PROVE StaysAcquired
  <2>1. CASE AcquireRunningLease(w)
    BY <2>1 DEF AcquireRunningLease, MayAcquire, LocalsOK, HandlerLocals
  <2>2. CASE PersistTerminal(w)
    <3>1. worker[w].result \in {"SUCCEEDED", "FAILED"}
      BY <2>2 DEF PersistTerminal, LocalsOK, HandlerLocals, Handlers
    <3> QED BY <2>2, <3>1 DEF PersistTerminal
  <2>3. CASE UNCHANGED attemptVars
    BY <1>1, <2>3 DEF attemptVars
  <2> QED BY <1>4, <2>1, <2>2, <2>3
          DEF ExecuteRunAttempt, HandlerStep, Deliver, LoadAttempt, LoadRun,
              AcquireConflict, StartRuntime, Heartbeat, CheckpointFence,
              CheckpointInsert, RuntimeReturns, CheckOwnership, HandlerThrows,
              WorkerCrash
<1>5. ASSUME NEW a \in Attempts,
             AbandonedJobStalls(a) \/ LiveJobStalls(a) \/ ExpireLease(a)
      PROVE  StaysAcquired
  BY <1>1, <1>5 DEF AbandonedJobStalls, LiveJobStalls, ExpireLease, attemptVars
<1>6. ASSUME NEW p \in Recoverers, Recover(p) PROVE StaysAcquired
  <2>1. CASE SettleExpiredAttempt(p)
    BY <2>1 DEF SettleExpiredAttempt, InterruptExpired, FailExpired, FailAttempt,
                attemptVars
  <2>2. ASSUME NEW a \in Attempts, ScheduleInsert(p, a) PROVE StaysAcquired
    BY <1>2, <2>2 DEF ScheduleInsert
  <2>3. CASE UNCHANGED attemptVars
    BY <1>1, <2>3 DEF attemptVars
  <2> QED BY <1>6, <2>1, <2>2, <2>3
          DEF Recover, RecoveryStep, ListExpiredAttempt, RepairQueuedDelivery,
              AssessRecovery, RecovererFails, BlockRecovery, ScheduleSelectRun,
              ScheduleCheckActive, ScheduleRefused, RecoverEnqueue
<1> QED BY <1>3, <1>4, <1>5, <1>6 DEF Next

(* What HandlerInv says of one handler.                                     *)
OwnsItsAttempt(w) ==
  /\ worker[w].pc \in ExecutingPCs =>
       executionOwner[worker[w].attempt] = w /\ Acquired(worker[w].attempt)
  /\ worker[w].pc = "persist" => ~worker[w].lost

LEMMA OtherHandlers ==
  ASSUME IInv, Next, NEW v \in Workers, worker'[v] = worker[v]
  PROVE  OwnsItsAttempt(v)'
<1>1. worker[v].pc \in ExecutingPCs => worker[v].attempt \in Attempts
  BY DEF IInv, TypeInv, LocalsOK, HandlerLocals, ExecutingPCs
<1>2. OwnsItsAttempt(v)
  BY DEF IInv, HandlerInv, OwnsItsAttempt, Acquired
<1> QED BY <1>1, <1>2, AcquiredOnce DEF StaysAcquired, OwnsItsAttempt, Acquired

(* A handler changes its own local state only.                              *)
LEMMA HandlerFrame ==
  ASSUME IInv, NEW w \in Workers, ExecuteRunAttempt(w),
         NEW v \in Workers, v # w
  PROVE  worker'[v] = worker[v]
<1>1. worker \in [Workers -> Handlers]
  BY DEF IInv, TypeInv, TypeOK
<1>2. ASSUME NEW h, worker' = [worker EXCEPT ![w] = h]
      PROVE  worker'[v] = worker[v]
  BY <1>1, <1>2
<1>3. CASE \E a \in Attempts : Deliver(w, a)
  BY <1>2, <1>3 DEF Deliver
<1>4. CASE LoadAttempt(w) \/ StartRuntime(w) \/ Heartbeat(w)
  BY <1>2, <1>4 DEF LoadAttempt, StartRuntime, Heartbeat, GoTo
<1>5. CASE LoadRun(w) \/ AcquireRunningLease(w) \/ CheckOwnership(w)
  BY <1>2, <1>5 DEF LoadRun, AcquireRunningLease, CheckOwnership, GoTo,
                    HandlerEnds
<1>6. CASE AcquireConflict(w) \/ PersistTerminal(w) \/ HandlerThrows(w)
           \/ WorkerCrash(w)
  BY <1>2, <1>6 DEF AcquireConflict, PersistTerminal, HandlerThrows,
                    WorkerCrash, HandlerEnds
<1>7. CASE CheckpointFence(w) \/ CheckpointInsert(w) \/ RuntimeReturns(w)
  BY <1>2, <1>7 DEF CheckpointFence, CheckpointInsert, RuntimeReturns, GoTo,
                    Returned
<1> QED BY <1>3, <1>4, <1>5, <1>6, <1>7 DEF ExecuteRunAttempt, HandlerStep

(* A handler whose next local state is h keeps or gives up its attempt.     *)
LEMMA HandlerKeepsAttempt ==
  ASSUME IInv, Next, NEW w \in Workers, NEW h \in HandlerLocals,
         worker' = [worker EXCEPT ![w] = h],
         \/ h.pc \notin ExecutingPCs
         \/ worker[w].pc \in ExecutingPCs /\ h.attempt = worker[w].attempt,
         h.pc = "persist" => ~h.lost
  PROVE  OwnsItsAttempt(w)'
<1>1. worker'[w] = h
  BY DEF IInv, TypeInv, TypeOK
<1>2. worker[w].pc \in ExecutingPCs =>
        /\ worker[w].attempt \in Attempts
        /\ executionOwner[worker[w].attempt] = w /\ Acquired(worker[w].attempt)
  BY DEF IInv, HandlerInv, Acquired, TypeInv, LocalsOK, HandlerLocals, ExecutingPCs
<1>3. "persist" \in ExecutingPCs
  BY DEF ExecutingPCs
<1> QED BY <1>1, <1>2, <1>3, AcquiredOnce DEF StaysAcquired, OwnsItsAttempt, Acquired

LEMMA OwnHandler ==
  ASSUME IInv, Next, NEW w \in Workers, ExecuteRunAttempt(w)
  PROVE  OwnsItsAttempt(w)'
<1> DEFINE h == worker[w]
<1>1. h \in HandlerLocals /\ h \in Handlers
  BY DEF IInv, TypeInv, TypeOK, LocalsOK
<1>2. worker' \in [Workers -> HandlerLocals]
  BY TypeHandler DEF IInv, TypeInv, LocalsOK
<1>3. ASSUME worker' = [worker EXCEPT ![w] = IdleWorker]
      PROVE  OwnsItsAttempt(w)'
  BY <1>3, HandlerKeepsAttempt, IdleIsTyped DEF IdleWorker, ExecutingPCs
<1>4. ASSUME NEW l, GoTo(w, l), l \notin ExecutingPCs
      PROVE  OwnsItsAttempt(w)'
  <2>1. worker'[w].pc = l
    BY <1>1, <1>4 DEF GoTo, IInv, TypeInv, TypeOK, Handlers
  <2> QED BY <1>4, <2>1 DEF OwnsItsAttempt, ExecutingPCs
<1>5. ASSUME NEW l, GoTo(w, l), h.pc \in ExecutingPCs,
             l = "persist" => ~h.lost
      PROVE  OwnsItsAttempt(w)'
  <2> DEFINE g == [h EXCEPT !.pc = l]
  <2>1. worker' = [worker EXCEPT ![w] = g] /\ worker'[w] = g
    BY <1>5 DEF GoTo, IInv, TypeInv, TypeOK
  <2>2. g.pc = l /\ g.attempt = h.attempt /\ g.lost = h.lost
    BY <1>1 DEF Handlers
  <2> HIDE DEF g
  <2>3. g \in HandlerLocals
    BY <1>2, <2>1
  <2> QED BY <1>5, <2>1, <2>2, <2>3, HandlerKeepsAttempt
<1>6. ASSUME NEW o, Returned(w, o), h.pc \in ExecutingPCs
      PROVE  OwnsItsAttempt(w)'
  <2> DEFINE g == [h EXCEPT !.pc = "returned", !.result = o]
  <2>1. worker' = [worker EXCEPT ![w] = g] /\ worker'[w] = g
    BY <1>6 DEF Returned, IInv, TypeInv, TypeOK
  <2>2. g.pc = "returned" /\ g.attempt = h.attempt
    BY <1>1 DEF Handlers
  <2> HIDE DEF g
  <2>3. g \in HandlerLocals
    BY <1>2, <2>1
  <2> QED BY <1>6, <2>1, <2>2, <2>3, HandlerKeepsAttempt
<1>7. ASSUME NEW a \in Attempts, Deliver(w, a) PROVE OwnsItsAttempt(w)'
  <2>1. worker'[w].pc = "loadAttempt"
    BY <1>7 DEF Deliver, IdleWorker, IInv, TypeInv, TypeOK
  <2> QED BY <2>1 DEF OwnsItsAttempt, ExecutingPCs
<1>8. CASE LoadAttempt(w)
  <2>1. worker'[w].pc = "loadRun"
    BY <1>1, <1>8 DEF LoadAttempt, IInv, TypeInv, TypeOK, Handlers
  <2> QED BY <2>1 DEF OwnsItsAttempt, ExecutingPCs
<1>9. CASE LoadRun(w)
  BY <1>3, <1>4, <1>9 DEF LoadRun, HandlerEnds, ExecutingPCs
<1>10. CASE AcquireRunningLease(w)
  <2> DEFINE a == h.attempt
  <2>1. a \in Attempts
    BY <1>1, <1>10 DEF AcquireRunningLease, HandlerLocals
  <2>2. CASE MayAcquire(a)
    <3>1. executionOwner'[a] = w /\ attemptStatus'[a] = "RUNNING"
      BY <1>10, <2>1, <2>2 DEF AcquireRunningLease, IInv, TypeInv, TypeOK
    <3>2. worker'[w].pc = "bind" /\ worker'[w].attempt = a
      BY <1>1, <1>10, <2>2 DEF AcquireRunningLease, GoTo, IInv, TypeInv, TypeOK,
                               Handlers
    <3> QED BY <3>1, <3>2 DEF OwnsItsAttempt, Acquired, RSM!Absent
  <2>3. CASE ~MayAcquire(a)
    BY <1>4, <1>10, <2>3 DEF AcquireRunningLease, ExecutingPCs
  <2> QED BY <2>2, <2>3
<1>11. CASE AcquireConflict(w) \/ PersistTerminal(w) \/ HandlerThrows(w)
            \/ WorkerCrash(w)
  BY <1>3, <1>11 DEF AcquireConflict, PersistTerminal, HandlerThrows,
                     WorkerCrash, HandlerEnds
<1>12. CASE StartRuntime(w)
  BY <1>5, <1>12 DEF StartRuntime, ExecutingPCs
<1>13. CASE Heartbeat(w)
  <2> DEFINE g == [h EXCEPT !.lost = TRUE]
  <2>1. worker' = [worker EXCEPT ![w] = g] /\ worker'[w] = g
    BY <1>13 DEF Heartbeat, IInv, TypeInv, TypeOK
  <2>2. g.pc = h.pc /\ g.attempt = h.attempt
    BY <1>1 DEF Handlers
  <2>3. h.pc \in ExecutingPCs /\ h.pc # "persist"
    BY <1>13 DEF Heartbeat, ExecutingPCs
  <2> HIDE DEF g
  <2>4. g \in HandlerLocals
    BY <1>2, <2>1
  <2> QED BY <2>1, <2>2, <2>3, <2>4, HandlerKeepsAttempt
<1>14. CASE CheckpointFence(w) \/ CheckpointInsert(w) \/ RuntimeReturns(w)
  BY <1>5, <1>6, <1>14 DEF CheckpointFence, CheckpointInsert, RuntimeReturns,
                           ExecutingPCs
<1>15. CASE CheckOwnership(w)
  BY <1>3, <1>5, <1>15 DEF CheckOwnership, HandlerEnds, ExecutingPCs
<1> QED BY <1>7, <1>8, <1>9, <1>10, <1>11, <1>12, <1>13, <1>14, <1>15
        DEF ExecuteRunAttempt, HandlerStep

LEMMA HandlerNext == IInv /\ Next => HandlerInv'
<1> SUFFICES ASSUME IInv, Next, NEW v \in Workers PROVE OwnsItsAttempt(v)'
  BY DEF HandlerInv, OwnsItsAttempt, Acquired
<1>1. ASSUME NEW w \in Workers, ExecuteRunAttempt(w)
      PROVE  OwnsItsAttempt(v)'
  BY <1>1, OwnHandler, OtherHandlers, HandlerFrame
<1>2. CASE UNCHANGED worker
  BY <1>2, OtherHandlers
<1> QED BY <1>1, <1>2
        DEF Next, CreateRun, CreateRunWithInitialAttempt, CreateRunTransition,
            CreateRunEnqueue, CreateRunFails, AbandonedJobStalls, LiveJobStalls,
            ExpireLease, Recover, RecoveryStep, ListExpiredAttempt,
            RepairQueuedDelivery, AssessRecovery, RecovererFails,
            SettleExpiredAttempt, BlockRecovery, ScheduleSelectRun,
            ScheduleCheckActive, ScheduleInsert, ScheduleRefused, RecoverEnqueue

-----------------------------------------------------------------------------
(* Checkpoints and successors.                                              *)

(* Actions other than the checkpoint insert leave run_checkpoints alone.    *)
LEMMA CheckpointFrame ==
  ASSUME Next, ~(\E w \in Workers : CheckpointInsert(w))
  PROVE  UNCHANGED hasCheckpoint
<1>1. ASSUME NEW r \in Runs, CreateRun(r) PROVE UNCHANGED hasCheckpoint
  BY <1>1 DEF CreateRun, CreateRunWithInitialAttempt, CreateRunTransition,
              CreateRunEnqueue, CreateRunFails
<1>2. ASSUME NEW w \in Workers, ExecuteRunAttempt(w) PROVE UNCHANGED hasCheckpoint
  BY <1>2 DEF ExecuteRunAttempt, HandlerStep, Deliver, LoadAttempt, LoadRun,
              AcquireRunningLease, AcquireConflict, StartRuntime, Heartbeat,
              CheckpointFence, RuntimeReturns, CheckOwnership, PersistTerminal,
              HandlerThrows, WorkerCrash
<1>3. ASSUME NEW a \in Attempts,
             AbandonedJobStalls(a) \/ LiveJobStalls(a) \/ ExpireLease(a)
      PROVE  UNCHANGED hasCheckpoint
  BY <1>3 DEF AbandonedJobStalls, LiveJobStalls, ExpireLease
<1>4. ASSUME NEW p \in Recoverers, Recover(p) PROVE UNCHANGED hasCheckpoint
  BY <1>4 DEF Recover, RecoveryStep, ListExpiredAttempt, RepairQueuedDelivery,
              AssessRecovery, RecovererFails, SettleExpiredAttempt,
              BlockRecovery, ScheduleSelectRun, ScheduleCheckActive,
              ScheduleInsert, ScheduleRefused, RecoverEnqueue
<1> QED BY <1>1, <1>2, <1>3, <1>4 DEF Next

LEMMA CheckpointsGrow ==
  ASSUME IInv, Next, NEW r \in Runs
  PROVE  /\ hasCheckpoint[r] => hasCheckpoint'[r]
         /\ hasCheckpoint'[r] => r \in CheckpointedRuns
<1>1. ASSUME NEW w \in Workers, CheckpointInsert(w)
      PROVE  /\ hasCheckpoint[r] => hasCheckpoint'[r]
             /\ hasCheckpoint'[r] => r \in CheckpointedRuns
  BY <1>1 DEF CheckpointInsert, IInv, CheckpointInv, TypeInv, TypeOK
<1> QED BY <1>1, CheckpointFrame DEF IInv, CheckpointInv

(* Rows are written once: only fresh ids get a Run and a number, the number *)
(* 1 by CreateRun and any other by a recovery call that saw a checkpoint.   *)
LEMMA RowIdentity ==
  ASSUME IInv, Next, NEW a \in Attempts
  PROVE  \/ runId'[a] = runId[a] /\ sequence'[a] = sequence[a]
         \/ runId[a] = None /\ sequence'[a] = 1
         \/ runId[a] = None /\ runId'[a] \in Runs /\ hasCheckpoint[runId'[a]]
<1> DEFINE Goal == \/ runId'[a] = runId[a] /\ sequence'[a] = sequence[a]
                   \/ runId[a] = None /\ sequence'[a] = 1
                   \/ runId[a] = None /\ runId'[a] \in Runs
                      /\ hasCheckpoint[runId'[a]]
<1>1. CASE UNCHANGED <<runId, sequence>>
  BY <1>1
<1> USE DEF IInv, TypeInv, TypeOK
<1>2. ASSUME NEW r \in Runs, CreateRun(r) PROVE Goal
  BY <1>2 DEF CreateRun, CreateRunWithInitialAttempt, InsertAttempt,
     CreateRunTransition, CreateRunEnqueue, CreateRunFails, attemptVars
<1>3. ASSUME NEW w \in Workers, ExecuteRunAttempt(w) PROVE Goal
  BY <1>1, <1>3 DEF ExecuteRunAttempt, HandlerStep, Deliver, LoadAttempt, LoadRun,
     AcquireRunningLease, AcquireConflict, StartRuntime, Heartbeat,
     CheckpointFence, CheckpointInsert, RuntimeReturns, CheckOwnership,
     PersistTerminal, HandlerThrows, WorkerCrash, attemptVars
<1>4. ASSUME NEW b \in Attempts,
             AbandonedJobStalls(b) \/ LiveJobStalls(b) \/ ExpireLease(b)
      PROVE  Goal
  BY <1>1, <1>4 DEF AbandonedJobStalls, LiveJobStalls, ExpireLease, attemptVars
<1>5. ASSUME NEW p \in Recoverers, Recover(p) PROVE Goal
  <2>1. ASSUME NEW b \in Attempts, ScheduleInsert(p, b) PROVE Goal
    <3>1. recoverer[p].target \in Runs /\ hasCheckpoint[recoverer[p].target]
      BY <2>1 DEF ScheduleInsert, CheckpointInv, LocalsOK, RecoveryLocals
    <3>2. PICK n : InsertAttempt(b, recoverer[p].target, n)
      BY <2>1 DEF ScheduleInsert
    <3>3. runId[b] = None
      BY <2>1 DEF ScheduleInsert
    <3>4. CASE a = b
      BY <3>1, <3>2, <3>3, <3>4 DEF InsertAttempt
    <3>5. CASE a # b
      BY <3>2, <3>5 DEF InsertAttempt
    <3> QED BY <3>4, <3>5
  <2>2. CASE SettleExpiredAttempt(p)
    BY <1>1, <2>2 DEF SettleExpiredAttempt, InterruptExpired, FailExpired,
                      FailAttempt, attemptVars
  <2>3. CASE UNCHANGED attemptVars
    BY <1>1, <2>3 DEF attemptVars
  <2> QED BY <1>5, <2>1, <2>2, <2>3
          DEF Recover, RecoveryStep, ListExpiredAttempt, RepairQueuedDelivery,
              AssessRecovery, RecovererFails, BlockRecovery, ScheduleSelectRun,
              ScheduleCheckActive, ScheduleRefused, RecoverEnqueue
<1> QED BY <1>2, <1>3, <1>4, <1>5 DEF Next

(* A handler starts to commit only through the fence, for a port of its Run. *)
LEMMA CommittingNext ==
  ASSUME IInv, Next, NEW w \in Workers, worker'[w].pc = "committing"
  PROVE  runId'[worker'[w].attempt] \in CheckpointedRuns
<1> USE DEF IInv, TypeInv, TypeOK
<1> DEFINE a == worker[w].attempt
<1>1. ASSUME worker'[w].attempt = a, worker[w].pc # "idle",
             runId[a] \in CheckpointedRuns
      PROVE  runId'[worker'[w].attempt] \in CheckpointedRuns
  <2>1. a \in Attempts /\ runId[a] # None
    BY <1>1 DEF LocalsOK, HandlerLocals
  <2> QED BY <1>1, <2>1, RowIdentity
<1>2. CASE worker'[w] = worker[w]
  BY <1>1, <1>2 DEF CheckpointInv
<1>3. CASE ExecuteRunAttempt(w)
  <2>1. worker[w] \in Handlers
    OBVIOUS
  <2>2. ASSUME NEW l, GoTo(w, l)
        PROVE  worker'[w].pc = l /\ worker'[w].attempt = a
    BY <2>1, <2>2 DEF GoTo, Handlers
  <2>3. ASSUME NEW o, HandlerEnds(w, o) PROVE FALSE
    BY <2>3 DEF HandlerEnds, IdleWorker
  <2>4. ASSUME NEW o, Returned(w, o) PROVE FALSE
    BY <2>1, <2>4 DEF Returned, Handlers
  <2>5. ~(\E b \in Attempts : Deliver(w, b)) /\ ~WorkerCrash(w)
    <3>1. ASSUME NEW b \in Attempts, Deliver(w, b)
          PROVE  worker'[w].pc = "loadAttempt"
      BY <3>1 DEF Deliver, IdleWorker
    <3>2. ASSUME WorkerCrash(w) PROVE worker'[w].pc = "idle"
      BY <3>2 DEF WorkerCrash, IdleWorker
    <3> QED BY <3>1, <3>2
  <2>6. ~LoadAttempt(w)
    <3>1. ASSUME LoadAttempt(w) PROVE worker'[w].pc = "loadRun"
      BY <2>1, <3>1 DEF LoadAttempt, Handlers
    <3> QED BY <3>1
  <2>7. ~LoadRun(w) /\ ~AcquireRunningLease(w) /\ ~CheckOwnership(w)
    BY <2>2, <2>3 DEF LoadRun, AcquireRunningLease, CheckOwnership
  <2>8. ~AcquireConflict(w) /\ ~PersistTerminal(w) /\ ~HandlerThrows(w)
    BY <2>3 DEF AcquireConflict, PersistTerminal, HandlerThrows
  <2>9. ~StartRuntime(w) /\ ~CheckpointInsert(w) /\ ~RuntimeReturns(w)
    BY <2>2, <2>4 DEF StartRuntime, CheckpointInsert, RuntimeReturns
  <2>10. CASE Heartbeat(w)
    <3>1. worker'[w].pc = worker[w].pc /\ worker'[w].attempt = a
      BY <2>1, <2>10 DEF Heartbeat, Handlers
    <3> QED BY <1>1, <3>1 DEF CheckpointInv
  <2>11. CASE CheckpointFence(w)
    BY <1>1, <2>2, <2>4, <2>11 DEF CheckpointFence, HasCheckpointPort
  <2> QED BY <1>3, <2>5, <2>6, <2>7, <2>8, <2>9, <2>10, <2>11
          DEF ExecuteRunAttempt, HandlerStep
<1>4. CASE UNCHANGED worker
  BY <1>2, <1>4
<1>5. ASSUME NEW v \in Workers, ExecuteRunAttempt(v), v # w
      PROVE  worker'[w] = worker[w]
  BY <1>5, HandlerFrame
<1> QED BY <1>2, <1>3, <1>4, <1>5
        DEF Next, CreateRun, CreateRunWithInitialAttempt, CreateRunTransition,
            CreateRunEnqueue, CreateRunFails, AbandonedJobStalls, LiveJobStalls,
            ExpireLease, Recover, RecoveryStep, ListExpiredAttempt,
            RepairQueuedDelivery, AssessRecovery, RecovererFails,
            SettleExpiredAttempt, BlockRecovery, ScheduleSelectRun,
            ScheduleCheckActive, ScheduleInsert, ScheduleRefused, RecoverEnqueue

(* A recovery call that may schedule has seen a checkpoint of its Run.      *)
LEMMA SchedulingNext ==
  ASSUME IInv, Next, NEW p \in Recoverers,
         recoverer'[p].pc \in {"schedule", "checkActive", "insert"}
  PROVE  hasCheckpoint'[recoverer'[p].target]
<1> USE DEF IInv, TypeInv, TypeOK
<1> DEFINE Saw == recoverer'[p].target \in Runs /\ hasCheckpoint[recoverer'[p].target]
<1>1. ASSUME recoverer'[p].target = recoverer[p].target,
             recoverer[p].pc \in {"schedule", "checkActive", "insert"}
      PROVE  Saw
  BY <1>1 DEF CheckpointInv, LocalsOK, RecoveryLocals
<1>2. ASSUME recoverer'[p] = recoverer[p] PROVE Saw
  BY <1>1, <1>2
<1>3. ASSUME Recover(p) PROVE Saw
  <2>1. recoverer[p] \in RecoveryCalls
    OBVIOUS
  <2>2. ASSUME RecovererDone(p) PROVE FALSE
    BY <2>2 DEF RecovererDone, IdleRecoverer
  <2>3. ~SettleExpiredAttempt(p) /\ ~BlockRecovery(p) /\ ~ScheduleRefused(p)
        /\ ~RecoverEnqueue(p) /\ ~RecovererFails(p)
    BY <2>2 DEF SettleExpiredAttempt, BlockRecovery, ScheduleRefused,
                RecoverEnqueue, RecovererFails
  <2>4. ASSUME NEW a \in Attempts, ListExpiredAttempt(p, a) PROVE FALSE
    <3>1. recoverer'[p].pc = "settle"
      BY <2>4 DEF ListExpiredAttempt
    <3> QED BY <3>1
  <2>5. ASSUME NEW a \in Attempts, RepairQueuedDelivery(p, a) PROVE Saw
    BY <1>2, <2>5 DEF RepairQueuedDelivery
  <2>6. ASSUME NEW a \in Attempts, ScheduleInsert(p, a) PROVE FALSE
    <3>1. ASSUME recoverer' = [recoverer EXCEPT ![p] =
                                 [@ EXCEPT !.pc = "enqueue", !.target = a]]
          PROVE  recoverer'[p].pc = "enqueue"
      BY <2>1, <3>1 DEF RecoveryCalls
    <3> QED BY <2>2, <2>6, <3>1 DEF ScheduleInsert
  <2>7. ASSUME NEW l, recoverer' = [recoverer EXCEPT ![p] = [@ EXCEPT !.pc = l]]
        PROVE  recoverer'[p].target = recoverer[p].target
    BY <2>1, <2>7 DEF RecoveryCalls
  <2>8. CASE ScheduleSelectRun(p) \/ ScheduleCheckActive(p)
    BY <1>1, <2>2, <2>7, <2>8 DEF ScheduleSelectRun, ScheduleCheckActive
  <2>9. ASSUME NEW r \in Runs, NEW automatic \in BOOLEAN,
               AssessRecovery(p, r, automatic)
        PROVE  Saw
    <3>1. PICK safe \in BOOLEAN :
            recoverer' = [recoverer EXCEPT ![p] =
              [pc |-> Assessment(r, safe), target |-> r, checkpoint |-> FALSE,
               metadata |-> recovery[r]]]
      BY <2>9 DEF AssessRecovery
    <3>2. recoverer'[p].pc = Assessment(r, safe) /\ recoverer'[p].target = r
      BY <3>1
    <3>3. Assessment(r, safe) = "schedule" => hasCheckpoint[r]
      BY DEF Assessment
    <3>4. Assessment(r, safe) \in {"block", "ineligible", "schedule"}
      BY DEF Assessment
    <3> QED BY <3>2, <3>3, <3>4
  <2> QED BY <1>3, <2>3, <2>4, <2>5, <2>6, <2>8, <2>9 DEF Recover, RecoveryStep
<1>4. ASSUME UNCHANGED recoverer PROVE Saw
  BY <1>2, <1>4
<1>5. ASSUME NEW q \in Recoverers, Recover(q), q # p
      PROVE  recoverer'[p] = recoverer[p]
  BY <1>5 DEF Recover, RecoveryStep, ListExpiredAttempt, RepairQueuedDelivery,
     AssessRecovery, RecovererFails, SettleExpiredAttempt, BlockRecovery,
     ScheduleSelectRun, ScheduleCheckActive, ScheduleInsert, ScheduleRefused,
     RecoverEnqueue, RecovererDone
<1>6. Saw
  <2>1. ASSUME NEW w \in Workers, ExecuteRunAttempt(w) PROVE UNCHANGED recoverer
    BY <2>1 DEF ExecuteRunAttempt, HandlerStep, Deliver, LoadAttempt, LoadRun,
       AcquireRunningLease, AcquireConflict, StartRuntime, Heartbeat,
       CheckpointFence, CheckpointInsert, RuntimeReturns, CheckOwnership,
       PersistTerminal, HandlerThrows, WorkerCrash
  <2>2. ASSUME NEW r \in Runs, CreateRun(r) PROVE UNCHANGED recoverer
    BY <2>2 DEF CreateRun, CreateRunWithInitialAttempt, CreateRunTransition,
       CreateRunEnqueue, CreateRunFails
  <2>3. ASSUME NEW a \in Attempts,
               AbandonedJobStalls(a) \/ LiveJobStalls(a) \/ ExpireLease(a)
        PROVE  UNCHANGED recoverer
    BY <2>3 DEF AbandonedJobStalls, LiveJobStalls, ExpireLease
  <2> QED BY <1>2, <1>3, <1>4, <1>5, <2>1, <2>2, <2>3 DEF Next
<1> QED BY <1>6, CheckpointsGrow

LEMMA CheckpointNext == IInv /\ Next => CheckpointInv'
<1> SUFFICES ASSUME IInv, Next PROVE CheckpointInv'
  OBVIOUS
<1>1. SuccessorNeedsCheckpoint'
  <2> SUFFICES ASSUME NEW a \in Attempts, sequence'[a] > 1
               PROVE  runId'[a] \in CheckpointedRuns /\ hasCheckpoint'[runId'[a]]
    BY DEF SuccessorNeedsCheckpoint
  <2>1. runId'[a] \in Runs /\ hasCheckpoint[runId'[a]]
    BY RowIdentity DEF IInv, CheckpointInv, SuccessorNeedsCheckpoint
  <2> QED BY <2>1, CheckpointsGrow
<1> QED BY <1>1, CheckpointsGrow, CommittingNext, SchedulingNext DEF CheckpointInv

-----------------------------------------------------------------------------
(* What the invariant gives.                                                *)

LEMMA IInvInit == Init => IInv
<1> SUFFICES ASSUME Init PROVE IInv
  OBVIOUS
<1> USE DEF Init, RSM!Absent
<1>1. RowsAgree
  BY DEF RowsAgree, RowInv, SuccessorsFollowFailures, RunMatchesLatestAttempt
<1>2. HandlerInv /\ CheckpointInv
  BY DEF HandlerInv, CheckpointInv, SuccessorNeedsCheckpoint, IdleWorker,
         IdleRecoverer, ExecutingPCs
<1> QED BY <1>1, <1>2, TypeInit DEF IInv

LEMMA IInvNext == IInv /\ [Next]_vars => IInv'
<1> SUFFICES ASSUME IInv, [Next]_vars PROVE IInv'
  OBVIOUS
<1>1. CASE UNCHANGED vars
  <2>1. TypeInv'
    BY <1>1, TypeNext DEF IInv
  <2>2. RowsAgree'
    BY <1>1, RowsSame DEF IInv, vars
  <2>3. HandlerInv' /\ CheckpointInv'
    BY <1>1 DEF IInv, HandlerInv, CheckpointInv, SuccessorNeedsCheckpoint, vars
  <2> QED BY <2>1, <2>2, <2>3 DEF IInv
<1>2. CASE Next
  BY <1>2, TypeNext, RowsNext, HandlerNext, CheckpointNext DEF IInv
<1> QED BY <1>1, <1>2

(* The inductive invariant holds in every reachable state.                  *)
THEOREM IInvHolds == Spec => []IInv
  BY IInvInit, IInvNext, PTL DEF Spec

(* The status of a Run agrees with that of its latest attempt after every   *)
(* transaction of the repositories.                                         *)
THEOREM RunMatchesLatestAttemptHolds == Spec => []RunMatchesLatestAttempt
<1>1. IInv => RunMatchesLatestAttempt
  BY DEF IInv, RowsAgree
<1> QED BY <1>1, IInvHolds, PTL

(* Attempts of a Run are numbered without ties and only FAILED ones have    *)
(* successors, whatever resume requests and tickers race on scheduling.     *)
THEOREM SuccessorsFollowFailuresHolds == Spec => []SuccessorsFollowFailures
<1>1. IInv => SuccessorsFollowFailures
  BY DEF IInv, RowsAgree
<1> QED BY <1>1, IInvHolds, PTL

(* No Run ever has two attempts that are PENDING or RUNNING.                *)
THEOREM OneActiveAttemptHolds == Spec => []OneActiveAttempt
<1>1. IInv => OneActiveAttempt
  <2> SUFFICES ASSUME IInv, NEW a \in Attempts, NEW b \in Attempts,
                      runId[a] # None, runId[a] = runId[b],
                      IsActive(a), IsActive(b)
               PROVE  a = b
    BY DEF OneActiveAttempt
  <2>1. /\ runId[a] \in Runs /\ IsLatest(a) /\ IsLatest(b)
    BY ActiveIsLatest DEF IInv, IsActive
  <2> QED BY <2>1, LatestIsUnique DEF IInv
<1> QED BY <1>1, IInvHolds, PTL

(* Two handlers are never inside the runtime for the same attempt.          *)
THEOREM AttemptExecutedByOneHandlerHolds == Spec => []AttemptExecutedByOneHandler
<1>1. IInv => AttemptExecutedByOneHandler
  BY DEF IInv, HandlerInv, AttemptExecutedByOneHandler
<1> QED BY <1>1, IInvHolds, PTL

(* Only Runs of checkpointing agents with a checkpoint get a successor.     *)
THEOREM SuccessorNeedsCheckpointHolds == Spec => []SuccessorNeedsCheckpoint
<1>1. IInv => SuccessorNeedsCheckpoint
  BY DEF IInv, CheckpointInv
<1> QED BY <1>1, IInvHolds, PTL

-----------------------------------------------------------------------------
(* What a step may do to a RUNNING attempt.                                 *)

LEMMA LeaseHandler ==
  ASSUME IInv, NEW w \in Workers, ExecuteRunAttempt(w)
  PROVE  LeaseArbitration
<1> USE DEF IInv, TypeInv, TypeOK
<1>1. CASE AcquireRunningLease(w)
  <2>1. ASSUME NEW a \in Attempts, attemptStatus[a] = "RUNNING"
        PROVE  attemptStatus'[a] = "RUNNING"
    BY <1>1, <2>1 DEF AcquireRunningLease
  <2> QED BY <2>1 DEF LeaseArbitration
<1>2. CASE PersistTerminal(w)
  <2> SUFFICES ASSUME NEW a \in Attempts, attemptStatus[a] = "RUNNING",
                      attemptStatus'[a] # "RUNNING"
               PROVE  /\ runStatus'[runId[a]] # "RUNNING"
                      /\ executionOwner[a] = w /\ lease[a] = "live"
                      /\ worker[w].pc = "persist" /\ worker[w].attempt = a
                      /\ ~worker[w].lost
                      /\ attemptStatus'[a] = worker[w].result
    BY DEF LeaseArbitration
  <2>1. a = worker[w].attempt /\ HoldsLease(w, a) /\ attemptStatus'[a] = worker[w].result
        /\ runStatus' = [runStatus EXCEPT ![runId[a]] = worker[w].result]
    BY <1>2 DEF PersistTerminal
  <2>2. worker[w].pc = "persist" /\ ~worker[w].lost
    BY <1>2 DEF PersistTerminal, HandlerInv
  <2>3. runId[a] \in Runs /\ worker[w].result \in {"SUCCEEDED", "FAILED"}
    BY <2>2 DEF RowsOK, RSM!Absent, LocalsOK, HandlerLocals, Handlers
  <2> QED BY <2>1, <2>2, <2>3 DEF HoldsLease
<1>3. CASE UNCHANGED attemptVars
  BY <1>3 DEF attemptVars, LeaseArbitration
<1> QED BY <1>1, <1>2, <1>3
        DEF ExecuteRunAttempt, HandlerStep, Deliver, LoadAttempt, LoadRun,
            AcquireConflict, StartRuntime, Heartbeat, CheckpointFence,
            CheckpointInsert, RuntimeReturns, CheckOwnership, HandlerThrows,
            WorkerCrash

LEMMA LeaseRecovery ==
  ASSUME IInv, NEW p \in Recoverers, Recover(p)
  PROVE  LeaseArbitration
<1> USE DEF IInv, TypeInv, TypeOK
<1>1. CASE SettleExpiredAttempt(p)
  <2> SUFFICES ASSUME NEW a \in Attempts, attemptStatus[a] = "RUNNING",
                      attemptStatus'[a] # "RUNNING"
               PROVE  /\ runStatus'[runId[a]] # "RUNNING"
                      /\ lease[a] = "expired" /\ attemptStatus'[a] = "FAILED"
    BY DEF LeaseArbitration
  <2>1. runId[a] \in Runs
    BY DEF RowsOK, RSM!Absent
  <2>2. CASE InterruptExpired(recoverer[p].target)
    BY <2>1, <2>2 DEF InterruptExpired, FailAttempt, LeaseExpired, attemptVars
  <2>3. CASE FailExpired(recoverer[p].target)
    BY <2>1, <2>3 DEF FailExpired, FailAttempt, LeaseExpired, attemptVars
  <2> QED BY <1>1, <2>2, <2>3 DEF SettleExpiredAttempt
<1>2. ASSUME NEW a \in Attempts, ScheduleInsert(p, a) PROVE LeaseArbitration
  <2>1. attemptStatus' = [attemptStatus EXCEPT ![a] = "PENDING"] /\ runId[a] = None
    BY <1>2 DEF ScheduleInsert, InsertAttempt
  <2> QED BY <2>1 DEF LeaseArbitration, RowsAgree, RowInv, RSM!Absent
<1>3. CASE UNCHANGED attemptVars
  BY <1>3 DEF attemptVars, LeaseArbitration
<1> QED BY <1>1, <1>2, <1>3
        DEF Recover, RecoveryStep, ListExpiredAttempt, RepairQueuedDelivery,
            AssessRecovery, RecovererFails, BlockRecovery, ScheduleSelectRun,
            ScheduleCheckActive, ScheduleRefused, RecoverEnqueue

(* While the lease of a RUNNING attempt is live only its owner's handler    *)
(* ends it, with the outcome the runtime returned; once expired only the    *)
(* ticker does, as FAILED.                                                  *)
THEOREM LeaseArbitratesHolds == Spec => LeaseArbitrates
<1>1. ASSUME IInv, Next PROVE LeaseArbitration
  <2>1. CASE UNCHANGED attemptStatus
    BY <2>1 DEF LeaseArbitration
  <2>2. ASSUME NEW r \in Runs, CreateRun(r) PROVE LeaseArbitration
    <3>1. ASSUME NEW a \in Attempts, CreateRunWithInitialAttempt(r, a)
          PROVE  LeaseArbitration
      <4>1. attemptStatus' = [attemptStatus EXCEPT ![a] = "PENDING"] /\ runId[a] = None
        BY <3>1 DEF CreateRunWithInitialAttempt, InsertAttempt
      <4> QED BY <1>1, <4>1 DEF LeaseArbitration, IInv, TypeInv, TypeOK, RowsAgree,
                          RowInv, RSM!Absent
    <3> QED BY <2>1, <2>2, <3>1 DEF CreateRun, CreateRunTransition,
                              CreateRunEnqueue, CreateRunFails, attemptVars
  <2>3. ASSUME NEW a \in Attempts,
               AbandonedJobStalls(a) \/ LiveJobStalls(a) \/ ExpireLease(a)
        PROVE  LeaseArbitration
    BY <2>1, <2>3 DEF AbandonedJobStalls, LiveJobStalls, ExpireLease, attemptVars
  <2> QED BY <1>1, <2>2, <2>3, LeaseHandler, LeaseRecovery DEF Next
<1>2. IInv /\ [Next]_vars => [LeaseArbitration]_vars
  BY <1>1
<1> QED BY <1>2, IInvHolds, PTL DEF Spec, LeaseArbitrates

-----------------------------------------------------------------------------
(* Refinement of the status tables.                                         *)

Follows == [RSM!RSMNext]_(RSM!rsmVars)

LEMMA FollowsSame ==
  ASSUME UNCHANGED <<runStatus, attemptStatus>> PROVE Follows
  BY DEF Follows, RSM!rsmVars

LEMMA FollowsCreateRun ==
  ASSUME IInv, NEW r \in Runs, CreateRun(r)
  PROVE  Follows
<1>1. ASSUME NEW a \in Attempts, CreateRunWithInitialAttempt(r, a)
      PROVE  Follows
  <2>1. attemptStatus[a] = RSM!Absent
    BY <1>1 DEF CreateRunWithInitialAttempt, IInv, RowsAgree, RowInv
  <2>2. RSM!AttemptMoves
    BY <1>1, <2>1 DEF CreateRunWithInitialAttempt, InsertAttempt,
                      RSM!AttemptMoves, RSM!AttemptStates
  <2>3. RSM!RunMoves
    BY <1>1 DEF CreateRunWithInitialAttempt, RSM!RunMoves, RSM!RunStates
  <2> QED BY <2>2, <2>3 DEF Follows, RSM!RSMNext
<1>2. CASE CreateRunTransition(r)
  <2>1. RSM!RunMoves
    BY <1>2 DEF CreateRunTransition, RSM!RunMoves, RSM!RunStates,
                RSM!LegalRunTransitions
  <2> QED BY <1>2, <2>1 DEF CreateRunTransition, attemptVars, Follows, RSM!RSMNext
<1>3. CASE CreateRunEnqueue(r) \/ CreateRunFails(r)
  BY <1>3, FollowsSame DEF CreateRunEnqueue, CreateRunFails, runVars, attemptVars
<1> QED BY <1>1, <1>2, <1>3 DEF CreateRun

LEMMA FollowsHandler ==
  ASSUME IInv, NEW w \in Workers, ExecuteRunAttempt(w)
  PROVE  Follows
<1> DEFINE a == worker[w].attempt
<1> USE DEF IInv, TypeInv
<1>1. CASE AcquireRunningLease(w)
  <2>1. CASE MayAcquire(a)
    <3>1. a \in Attempts /\ attemptStatus[a] = "PENDING" /\ runStatus[runId[a]] = "QUEUED"
      BY <1>1, <2>1 DEF AcquireRunningLease, MayAcquire, LocalsOK, HandlerLocals
    <3>2. runId[a] \in Runs
      BY <3>1 DEF RowsOK, RSM!Absent
    <3>3. RSM!AttemptMoves
      BY <1>1, <2>1, <3>1 DEF AcquireRunningLease, RSM!AttemptMoves,
                              RSM!AttemptStates, RSM!LegalAttemptTransitions
    <3>4. RSM!RunMoves
      BY <1>1, <2>1, <3>1, <3>2 DEF AcquireRunningLease, RSM!RunMoves,
                                    RSM!RunStates, RSM!LegalRunTransitions
    <3> QED BY <3>3, <3>4 DEF Follows, RSM!RSMNext
  <2>2. CASE ~MayAcquire(a)
    BY <1>1, <2>2, FollowsSame DEF AcquireRunningLease
  <2> QED BY <2>1, <2>2
<1>2. CASE PersistTerminal(w)
  <2>1. CASE HoldsLease(w, a) /\ runStatus[runId[a]] = "RUNNING"
    <3>1. /\ a \in Attempts /\ attemptStatus[a] = "RUNNING"
          /\ worker[w].result \in {"SUCCEEDED", "FAILED"}
      BY <1>2, <2>1 DEF PersistTerminal, HoldsLease, LocalsOK, HandlerLocals,
                        Handlers
    <3>2. runId[a] \in Runs
      BY <3>1 DEF RowsOK, RSM!Absent
    <3>3. RSM!AttemptMoves
      BY <1>2, <2>1, <3>1 DEF PersistTerminal, RSM!AttemptMoves,
         RSM!AttemptStates, RSM!TerminalAttemptStates, RSM!LegalAttemptTransitions
    <3>4. RSM!RunMoves
      BY <1>2, <2>1, <3>1, <3>2 DEF PersistTerminal, RSM!RunMoves, RSM!RunStates,
         RSM!TerminalRunStates, RSM!LegalRunTransitions
    <3> QED BY <3>3, <3>4 DEF Follows, RSM!RSMNext
  <2>2. CASE ~(HoldsLease(w, a) /\ runStatus[runId[a]] = "RUNNING")
    BY <1>2, <2>2, FollowsSame DEF PersistTerminal
  <2> QED BY <2>1, <2>2
<1>3. CASE UNCHANGED <<runVars, attemptVars>>
  BY <1>3, FollowsSame DEF runVars, attemptVars
<1> QED BY <1>1, <1>2, <1>3
        DEF ExecuteRunAttempt, HandlerStep, Deliver, LoadAttempt, LoadRun,
            AcquireConflict, StartRuntime, Heartbeat, CheckpointFence,
            CheckpointInsert, RuntimeReturns, CheckOwnership, HandlerThrows,
            WorkerCrash

LEMMA FollowsRecovery ==
  ASSUME IInv, NEW p \in Recoverers, Recover(p)
  PROVE  Follows
<1> USE DEF IInv, TypeInv
<1>1. CASE SettleExpiredAttempt(p)
  <2> DEFINE a == recoverer[p].target
  <2>1. a \in Attempts
    BY <1>1 DEF SettleExpiredAttempt, LocalsOK, RecoveryLocals
  <2>2. CASE UNCHANGED <<runVars, attemptVars>>
    BY <2>2, FollowsSame DEF runVars, attemptVars
  <2>3. ASSUME LeaseExpired(a), FailAttempt(a)
        PROVE  runId[a] \in Runs /\ RSM!AttemptMoves
    BY <2>1, <2>3 DEF LeaseExpired, FailAttempt, RowsOK, RSM!Absent,
       RSM!AttemptMoves, RSM!AttemptStates, RSM!TerminalAttemptStates,
       RSM!LegalAttemptTransitions
  <2>4. ASSUME NEW s \in {"FAILED", "INTERRUPTED"}, LeaseExpired(a),
               FailAttempt(a), runStatus[runId[a]] = "RUNNING",
               runStatus' = [runStatus EXCEPT ![runId[a]] = s]
        PROVE  Follows
    <3>1. RSM!RunMoves
      BY <2>3, <2>4 DEF RSM!RunMoves, RSM!RunStates, RSM!TerminalRunStates,
                        RSM!LegalRunTransitions
    <3> QED BY <2>3, <2>4, <3>1 DEF Follows, RSM!RSMNext
  <2>5. CASE InterruptExpired(a)
    BY <2>2, <2>4, <2>5 DEF InterruptExpired
  <2>6. CASE FailExpired(a)
    <3>1. CASE LeaseExpired(a) /\ FailAttempt(a) /\ UNCHANGED runStatus
      BY <2>3, <3>1 DEF Follows, RSM!RSMNext
    <3> QED BY <2>2, <2>4, <2>6, <3>1 DEF FailExpired
  <2> QED BY <1>1, <2>5, <2>6 DEF SettleExpiredAttempt
<1>2. ASSUME NEW a \in Attempts, ScheduleInsert(p, a) PROVE Follows
  <2> DEFINE r == recoverer[p].target
  <2>1. r \in Runs
    BY <1>2 DEF ScheduleInsert, LocalsOK, RecoveryLocals
  <2>2. attemptStatus[a] = RSM!Absent
    BY <1>2 DEF ScheduleInsert, RowsAgree, RowInv
  <2>3. RSM!AttemptMoves
    BY <1>2, <2>2 DEF ScheduleInsert, InsertAttempt, RSM!AttemptMoves,
                      RSM!AttemptStates
  <2>4. CASE runStatus[r] = "INTERRUPTED"
    <3>1. RSM!RunMoves
      BY <1>2, <2>1, <2>4 DEF ScheduleInsert, RSM!RunMoves, RSM!RunStates,
                              RSM!LegalRunTransitions
    <3> QED BY <2>3, <3>1 DEF Follows, RSM!RSMNext
  <2>5. CASE runStatus[r] # "INTERRUPTED"
    BY <1>2, <2>3, <2>5 DEF ScheduleInsert, runVars, Follows, RSM!RSMNext
  <2> QED BY <2>4, <2>5
<1>3. CASE UNCHANGED <<runStatus, attemptVars>>
  BY <1>3, FollowsSame DEF attemptVars
<1> QED BY <1>1, <1>2, <1>3
        DEF Recover, RecoveryStep, ListExpiredAttempt, RepairQueuedDelivery,
            AssessRecovery, RecovererFails, BlockRecovery, ScheduleSelectRun,
            ScheduleCheckActive, ScheduleRefused, RecoverEnqueue, runVars

(* The execution path implements the status tables of the domain layer:     *)
(* no race, crash or retry takes a Run or an attempt off its table.         *)
THEOREM FollowsStateMachinesHolds == Spec => FollowsStateMachines
<1>1. Init => RSM!RSMInit
  BY DEF Init, RSM!RSMInit
<1>2. ASSUME IInv, [Next]_vars PROVE Follows
  <2>1. CASE UNCHANGED vars
    BY <2>1, FollowsSame DEF vars
  <2>2. ASSUME NEW a \in Attempts,
               AbandonedJobStalls(a) \/ LiveJobStalls(a) \/ ExpireLease(a)
        PROVE  Follows
    BY <2>2, FollowsSame DEF AbandonedJobStalls, LiveJobStalls, ExpireLease,
                             runVars, attemptVars
  <2> QED BY <1>2, <2>1, <2>2, FollowsCreateRun, FollowsHandler, FollowsRecovery
          DEF Next
<1>3. IInv /\ [Next]_vars => [RSM!RSMNext]_(RSM!rsmVars)
  BY <1>2 DEF Follows
<1> QED BY <1>1, <1>3, IInvHolds, PTL DEF Spec, FollowsStateMachines, RSM!RSMSpec
=============================================================================
