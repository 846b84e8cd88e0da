-------------------------- MODULE ScheduleDispatch --------------------------
(***************************************************************************)
(* The scheduler: replicas turn due Schedules into ScheduleOccurrences and *)
(* dispatch each occurrence as one Run, while people edit the Schedules.   *)
(* It composes the queue's enqueue claims (EnqueueClaim) with the tick and *)
(* with the delivery repair of the recovery ticker.                        *)
(*                                                                         *)
(* An instant is a cron period: a cron expression fires at every instant.  *)
(* The Run of an occurrence and its first attempt are named by the         *)
(* occurrence, as the Run's idempotency key does; runs.idempotency_key is  *)
(* unique.  A tick keeps what the code keeps across its awaits: its own    *)
(* instant, the occurrences left, and the Run status it has read.          *)
(***************************************************************************)
EXTENDS EnqueueClaim

CONSTANTS
  Schedules,
  Replicas,    \* scheduler processes
  Recoverers,  \* recovery tickers of the execution workers
  Editors,     \* PATCH handlers
  MaxTime,     \* bound on the clock
  MaxEdits,    \* bound on edits
  None         \* SQL NULL

Occurrences == Schedules \X (1 .. MaxTime)

ASSUME ScheduleAssumption ==
  /\ Jobs = Occurrences
  /\ Callers = Replicas \cup Recoverers
  /\ Replicas \cap Recoverers = {}
  /\ MaxTime \in Nat \ {0} /\ MaxEdits \in Nat
  /\ None \notin Nat

VARIABLES
  clock,
  schedule,    \* schedules: enabled and next_run_at
  occurrence,  \* schedule_occurrences: created_at, run_id set, dispatched
  run,         \* runs.status under the occurrence's idempotency key
  tick,        \* where each replica is in SchedulerTick.execute
  edit,        \* what an editor has read, or is about to write
  edits,
  restored     \* history: instants put back when a tick had passed over them

tables == <<schedule, restored, occurrence, run>>
vars == <<clock, tables, tick, edit, edits, queueVars>>

RunStates == {"absent", "PENDING", "QUEUED", "RUNNING", "INTERRUPTED", "ENDED"}
Instants == 1 .. MaxTime + 1
NoOccurrence == [createdAt |-> None, runId |-> FALSE, dispatched |-> FALSE]
Idle == [at |-> "idle", now |-> 0, todo |-> {}, current |-> None, seen |-> "absent"]
NoEdit == [at |-> "idle", schedule |-> None, enabled |-> FALSE, nextRunAt |-> None]
Stages == {"idle", "materialize", "list", "next", "create", "queue",
           "createEnqueue", "attach", "requeue", "enqueue", "mark"}

TypeOK ==
  /\ QueueTypeOK
  /\ clock \in 0 .. MaxTime
  /\ schedule \in [Schedules -> [enabled : BOOLEAN, nextRunAt : Instants \cup {None}]]
  /\ occurrence \in [Occurrences ->
       [createdAt : (0 .. MaxTime) \cup {None}, runId : BOOLEAN, dispatched : BOOLEAN]]
  /\ run \in [Occurrences -> RunStates]
  /\ tick \in [Replicas -> [at : Stages, now : 0 .. MaxTime, todo : SUBSET Occurrences,
                            current : Occurrences \cup {None},
                            seen : RunStates \cup {"created"}]]
  /\ edit \in [Editors -> [at : {"idle", "compute", "write"},
                           schedule : Schedules \cup {None}, enabled : BOOLEAN,
                           nextRunAt : Instants \cup {None}]]
  /\ edits \in 0 .. MaxEdits
  /\ restored \subseteq Occurrences

nextCronInstantAfter(t) == t + 1

Init ==
  /\ QueueInit
  /\ clock = 0
  /\ schedule = [s \in Schedules |->
       [enabled |-> TRUE, nextRunAt |-> nextCronInstantAfter(0)]]
  /\ occurrence = [o \in Occurrences |-> NoOccurrence]
  /\ run = [o \in Occurrences |-> "absent"]
  /\ tick = [r \in Replicas |-> Idle]
  /\ edit = [e \in Editors |-> NoEdit]
  /\ edits = 0
  /\ restored = {}

Exists(o) == occurrence[o].createdAt # None
Due(s, now) ==
  schedule[s].enabled /\ schedule[s].nextRunAt # None /\ schedule[s].nextRunAt <= now

-----------------------------------------------------------------------------
(* SchedulerTick.execute *)

StartTick(r) ==
  /\ tick[r].at = "idle"
  /\ tick' = [tick EXCEPT ![r] = [Idle EXCEPT !.at = "materialize", !.now = clock]]
  /\ UNCHANGED <<clock, tables, edit, edits, queueVars>>

(* Mutant: the next instant is counted from the occurrence. *)
NextFromOccurrence(scheduledFor, now) == nextCronInstantAfter(scheduledFor)

(* COALESCE_ONE: what was missed up to now is one occurrence. *)
NextRunAt(scheduledFor, now) == nextCronInstantAfter(now)

(* Another transaction may hold the row, which SKIP LOCKED passes over. *)
MayBeLocked(r, s) ==
  \/ \E q \in Replicas \ {r} : tick[q].at = "materialize" /\ Due(s, tick[q].now)
  \/ \E e \in Editors : edit[e].at = "write" /\ edit[e].schedule = s

(* For the history: next_run_at of s becomes n, which was not materialized *)
(* when an occurrence of a later moment was.                               *)
PutBack(s, n) ==
  {o \in Occurrences :
     /\ o = <<s, n>> /\ ~Exists(o)
     /\ \E t \in 1 .. MaxTime : Exists(<<s, t>>) /\ occurrence[<<s, t>>].createdAt >= n}

(* One round of materializeDueOccurrences, a transaction on the locked row *)
(* of the Schedule that is due longest.  When the occurrence exists the    *)
(* unique violation undoes the transaction and ends the loop.              *)
MaterializeDue(r, s) ==
  LET now == tick[r].now
      o == <<s, schedule[s].nextRunAt>>
  IN /\ tick[r].at = "materialize"
     /\ Due(s, now)
     /\ \A other \in Schedules : Due(other, now) =>
          \/ schedule[s].nextRunAt <= schedule[other].nextRunAt
          \/ MayBeLocked(r, other)
     /\ IF Exists(o)
          THEN /\ tick' = [tick EXCEPT ![r].at = "list"]
               /\ UNCHANGED <<schedule, restored, occurrence>>
          ELSE /\ occurrence' = [occurrence EXCEPT ![o].createdAt = now]
               /\ schedule' = [schedule EXCEPT ![s].nextRunAt = NextRunAt(o[2], now)]
               /\ restored' = restored \cup PutBack(s, NextRunAt(o[2], now))
               /\ tick' = [tick EXCEPT ![r].todo = @ \cup {o}]
     /\ UNCHANGED <<clock, run, edit, edits, queueVars>>

NothingDue(r) ==
  /\ tick[r].at = "materialize"
  /\ \A s \in Schedules : Due(s, tick[r].now) => MayBeLocked(r, s)
  /\ tick' = [tick EXCEPT ![r].at = "list"]
  /\ UNCHANGED <<clock, tables, edit, edits, queueVars>>

(* The occurrences of this tick and every undispatched one, each once. *)
ListUndispatched(r) ==
  /\ tick[r].at = "list"
  /\ tick' = [tick EXCEPT ![r].at = "next",
       ![r].todo = @ \cup {o \in Occurrences : Exists(o) /\ ~occurrence[o].dispatched}]
  /\ UNCHANGED <<clock, tables, edit, edits, queueVars>>

EndTick(r) ==
  /\ tick[r].at = "next" /\ tick[r].todo = {}
  /\ tick' = [tick EXCEPT ![r] = Idle]
  /\ UNCHANGED <<clock, tables, edit, edits, queueVars>>

-----------------------------------------------------------------------------
(* DispatchScheduleOccurrence.execute *)

Go(r, at) == tick' = [tick EXCEPT ![r].at = at]
GoSeeing(r, at, status) == tick' = [tick EXCEPT ![r].at = at, ![r].seen = status]

(* The occurrence is over, dispatched or not; the tick goes on. *)
Leave(r) ==
  tick' = [tick EXCEPT ![r].at = "next", ![r].current = None, ![r].seen = "absent"]

dispatchUnchanged == <<clock, schedule, restored, edit, edits>>

(* The occurrence is read again, and its Run by id or by key. *)
FindRun(r, o) ==
  /\ tick[r].at = "next" /\ o \in tick[r].todo
  /\ tick' = [tick EXCEPT ![r].at = IF run[o] = "absent" THEN "create" ELSE "attach",
       ![r].todo = @ \ {o}, ![r].current = o, ![r].seen = run[o]]
  /\ UNCHANGED <<dispatchUnchanged, occurrence, run, queueVars>>

(* createRunWithInitialAttempt; a Run under the key is taken instead. *)
CreateScheduledRun(r) ==
  LET o == tick[r].current
  IN /\ tick[r].at = "create"
     /\ IF run[o] = "absent"
          THEN run' = [run EXCEPT ![o] = "PENDING"] /\ Go(r, "queue")
          ELSE GoSeeing(r, "attach", run[o]) /\ UNCHANGED run
     /\ UNCHANGED <<dispatchUnchanged, occurrence, queueVars>>

(* transitionRun("PENDING", QUEUED), by CreateRun or enqueueInitialAttempt, *)
(* and the call of enqueue; a conflict throws.                              *)
QueueRun(r) ==
  LET o == tick[r].current
  IN /\ tick[r].at \in {"queue", "requeue"}
     /\ IF run[o] = "PENDING"
          THEN /\ run' = [run EXCEPT ![o] = "QUEUED"]
               /\ GoSeeing(r, IF tick[r].at = "queue" THEN "createEnqueue" ELSE "enqueue",
                           "QUEUED")
               /\ Enqueue(r, o)
          ELSE Leave(r) /\ UNCHANGED <<run, call>>
     /\ UNCHANGED <<dispatchUnchanged, occurrence, job, claim, queueFaults>>

(* CreateRun returns, or EnqueueFailedError makes the caller read the Run  *)
(* again and go on as if it had found it.                                  *)
CreateRunReturns(r) ==
  /\ tick[r].at = "createEnqueue" /\ call[r].at \in Answers
  /\ tick' = [tick EXCEPT ![r].at = "attach",
       ![r].seen = IF call[r].at = "failed" THEN run[tick[r].current] ELSE "created"]
  /\ Settle(r)
  /\ UNCHANGED <<dispatchUnchanged, occurrence, run, job, claim, queueFaults>>

(* Mutant: a QUEUED Run is taken to have its job. *)
MarkQueued(seen) == IF seen \in {"PENDING", "INTERRUPTED"} THEN "next" ELSE "mark"

(* Mutant: a PENDING Run is left to whoever created it. *)
SkipPending(seen) ==
  CASE seen \in {"created", "RUNNING", "ENDED"} -> "mark"
    [] seen = "QUEUED" -> "enqueue"
    [] seen \in {"PENDING", "INTERRUPTED"} -> "next"

(* What the status read earlier leaves to do: nothing but the mark for a   *)
(* Run that was enqueued here, runs or has ended; QUEUED and the enqueue   *)
(* for a PENDING one; the enqueue for a QUEUED one; nothing for an         *)
(* INTERRUPTED one.                                                        *)
AfterAttach(seen) ==
  CASE seen \in {"created", "RUNNING", "ENDED"} -> "mark"
    [] seen = "PENDING" -> "requeue"
    [] seen = "QUEUED" -> "enqueue"
    [] seen = "INTERRUPTED" -> "next"

(* attachOccurrenceRunId, without effect when the occurrence had it. *)
AttachOccurrenceRunId(r) ==
  LET at == AfterAttach(tick[r].seen)
  IN /\ tick[r].at = "attach"
     /\ occurrence' = [occurrence EXCEPT ![tick[r].current].runId = TRUE]
     /\ IF at = "next" THEN Leave(r) ELSE Go(r, at)
     /\ IF at = "enqueue" THEN Enqueue(r, tick[r].current) ELSE UNCHANGED call
     /\ UNCHANGED <<dispatchUnchanged, run, job, claim, queueFaults>>

(* enqueueInitialAttempt returns. *)
EnqueueReturns(r) ==
  /\ tick[r].at = "enqueue" /\ call[r].at \in Answers
  /\ IF call[r].at = "failed" THEN Leave(r) ELSE Go(r, "mark")
  /\ Settle(r)
  /\ UNCHANGED <<dispatchUnchanged, occurrence, run, job, claim, queueFaults>>

MarkOccurrenceDispatched(r) ==
  /\ tick[r].at = "mark"
  /\ occurrence' = [occurrence EXCEPT ![tick[r].current].dispatched = TRUE]
  /\ Leave(r)
  /\ UNCHANGED <<dispatchUnchanged, run, queueVars>>

(* A statement of the dispatch fails: the tick goes on with the next one. *)
DispatchFails(r) ==
  /\ QueueFault
  /\ tick[r].at \in {"create", "queue", "attach", "requeue", "mark"}
  /\ Leave(r)
  /\ UNCHANGED <<dispatchUnchanged, occurrence, run, job, claim, call>>

(* The process dies, or the tick throws before the dispatch loop. *)
TickDies(r) ==
  /\ QueueFault
  /\ tick[r].at # "idle"
  /\ tick' = [tick EXCEPT ![r] = Idle]
  /\ Settle(r)
  /\ UNCHANGED <<dispatchUnchanged, occurrence, run, job, claim>>

-----------------------------------------------------------------------------
(* UpdateSchedule: a plain read, the clock and the new values, and an      *)
(* unguarded UPDATE of every column.                                       *)

ReadSchedule(e, s) ==
  /\ edits < MaxEdits /\ edits' = edits + 1
  /\ edit[e].at = "idle"
  /\ edit' = [edit EXCEPT ![e] =
       [at |-> "compute", schedule |-> s, enabled |-> schedule[s].enabled,
        nextRunAt |-> schedule[s].nextRunAt]]
  /\ UNCHANGED <<clock, tables, tick, queueVars>>

(* Schedule.update: enabling and a new cron expression or timezone count   *)
(* from now, any other change keeps the instant that was read.             *)
Updated(read, change, now) ==
  LET enabled == CASE change = "enable" -> TRUE
                   [] change = "disable" -> FALSE
                   [] change \in {"recron", "rename"} -> read.enabled
  IN [read EXCEPT !.enabled = enabled,
        !.nextRunAt = IF ~enabled THEN None
                      ELSE IF change = "rename" THEN read.nextRunAt
                      ELSE nextCronInstantAfter(now)]

ComputeUpdate(e, change) ==
  /\ edit[e].at = "compute"
  /\ edit' = [edit EXCEPT ![e] = [Updated(edit[e], change, clock) EXCEPT !.at = "write"]]
  /\ UNCHANGED <<clock, tables, tick, edits, queueVars>>

UpdateSchedule(e) ==
  LET s == edit[e].schedule
      n == edit[e].nextRunAt
  IN /\ edit[e].at = "write"
     /\ schedule' = [schedule EXCEPT ![s] = [enabled |-> edit[e].enabled, nextRunAt |-> n]]
     /\ restored' = restored \cup (IF n = None THEN {} ELSE PutBack(s, n))
     /\ edit' = [edit EXCEPT ![e] = NoEdit]
     /\ UNCHANGED <<clock, occurrence, run, tick, edits, queueVars>>

-----------------------------------------------------------------------------
(* Time, the execution of the Runs, and the recovery ticker. *)

Advance ==
  /\ clock < MaxTime
  /\ clock' = clock + 1
  /\ UNCHANGED <<tables, tick, edit, edits, queueVars>>

RunMoves(o, from, to) ==
  /\ run[o] = from
  /\ run' = [run EXCEPT ![o] = to]
  /\ UNCHANGED <<clock, schedule, restored, occurrence, tick, edit, edits, queueVars>>

RunStarts(o) == job[o] /\ RunMoves(o, "QUEUED", "RUNNING")
RunEnds(o) == RunMoves(o, "RUNNING", "ENDED")
RunInterrupted(o) == RunMoves(o, "RUNNING", "INTERRUPTED")
RunRecovered(o) == RunMoves(o, "INTERRUPTED", "QUEUED")

(* Phase 3 of ExecutionRecoveryTick: QUEUED Runs are enqueued again. *)
RepairQueuedDelivery(c, o) ==
  /\ run[o] = "QUEUED"
  /\ Enqueue(c, o)
  /\ UNCHANGED <<clock, tables, tick, edit, edits, job, claim, queueFaults>>

RepairReturns(c) ==
  /\ call[c].at \in Answers
  /\ Settle(c)
  /\ UNCHANGED <<clock, tables, tick, edit, edits, job, claim, queueFaults>>

RepairDies(c) ==
  /\ QueueFault
  /\ call[c].at # "none"
  /\ Settle(c)
  /\ UNCHANGED <<clock, tables, tick, edit, edits, job, claim>>

Queue == QueueStep /\ UNCHANGED <<clock, tables, tick, edit, edits>>

-----------------------------------------------------------------------------
DispatchStep(r) ==
  \/ \E o \in Occurrences : FindRun(r, o)
  \/ CreateScheduledRun(r)
  \/ QueueRun(r)
  \/ CreateRunReturns(r)
  \/ AttachOccurrenceRunId(r)
  \/ EnqueueReturns(r)
  \/ MarkOccurrenceDispatched(r)

TickStep(r) ==
  \/ StartTick(r)
  \/ \E s \in Schedules : MaterializeDue(r, s)
  \/ NothingDue(r)
  \/ ListUndispatched(r)
  \/ EndTick(r)
  \/ DispatchStep(r)

RepairStep(c) == RepairReturns(c) \/ \E o \in Occurrences : RepairQueuedDelivery(c, o)

Next ==
  \/ \E r \in Replicas : TickStep(r) \/ DispatchFails(r) \/ TickDies(r)
  \/ \E c \in Recoverers : RepairStep(c) \/ RepairDies(c)
  \/ \E e \in Editors :
       \/ \E s \in Schedules : ReadSchedule(e, s)
       \/ \E change \in {"rename", "enable", "disable", "recron"} :
            ComputeUpdate(e, change)
       \/ UpdateSchedule(e)
  \/ \E o \in Occurrences :
       RunStarts(o) \/ RunEnds(o) \/ RunInterrupted(o) \/ RunRecovered(o)
  \/ Queue
  \/ Advance

Spec == Init /\ [][Next]_vars

(* Processes are restarted and go on polling, calls return and claims      *)
(* expire.  Nothing makes people edit or Runs start.                       *)
Fairness ==
  /\ \A r \in Replicas : WF_vars(TickStep(r))
  /\ \A c \in Recoverers :
       /\ WF_vars(RepairReturns(c))
       /\ \A o \in Occurrences : SF_vars(RepairQueuedDelivery(c, o))
  /\ \A c \in Callers : WF_vars(CallProgress(c) /\ UNCHANGED <<clock, tables, tick, edit, edits>>)
  /\ \A j \in Jobs : WF_vars(ClaimAges(j) /\ UNCHANGED <<clock, tables, tick, edit, edits>>)
  /\ WF_vars(Advance)

FairSpec == Spec /\ Fairness

-----------------------------------------------------------------------------
(* After downtime at most one overdue occurrence is materialized: what an  *)
(* occurrence was created for is the only instant up to its creation that  *)
(* has not been materialized before, however many replicas look, with      *)
(* however old a clock, and whatever PATCHes write beside them.  The       *)
(* exception is an instant that was put back after a tick had passed over  *)
(* it: a PATCH writes what it computed from an earlier read of the row or  *)
(* of the clock.  Ticks alone never put one back.                          *)
CoalesceOne ==
  /\ \A s \in Schedules : \A t, u \in 1 .. MaxTime :
       /\ t < u /\ Exists(<<s, t>>) /\ Exists(<<s, u>>)
       /\ {<<s, t>>, <<s, u>>} \cap restored = {}
       => occurrence[<<s, t>>].createdAt < u
  /\ edits = 0 => restored = {}

(* An occurrence is marked dispatched, which ends the scheduler's interest *)
(* in it, only when its Run is linked and under way: past QUEUED, or its   *)
(* job in the queue, or on its way there in another process.  The one way  *)
(* to lose the job is that this other process fails, which is left to the  *)
(* recovery ticker.                                                        *)
DispatchedIsDelivered ==
  \A o \in Occurrences :
    occurrence[o].dispatched =>
      /\ occurrence[o].runId
      /\ run[o] \notin {"absent", "PENDING"}
      /\ run[o] = "QUEUED" => job[o] \/ IsAdding(o) \/ queueFaults > 0

(* Every occurrence gets its job in the end: whatever dies between the     *)
(* row, the Run, its QUEUED status, the claim and the add, the next tick   *)
(* or the recovery ticker finishes it, and no claim stands in the way for  *)
(* ever.                                                                   *)
OccurrenceDelivered ==
  \A o \in Occurrences : Exists(o) ~> job[o]
=============================================================================
