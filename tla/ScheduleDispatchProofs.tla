------------------------ MODULE ScheduleDispatchProofs ------------------------
(* Proofs about ScheduleDispatch for any schedules, replicas, recoverers,  *)
(* editors and bounds.                                                     *)
EXTENDS ScheduleDispatch, TLAPS

USE EnqueueClaimAssumption, ScheduleAssumption

TickRecs == [at : Stages, now : 0 .. MaxTime, todo : SUBSET Occurrences,
             current : Occurrences \cup {None}, seen : RunStates \cup {"created"}]
OccurrenceRecs == [createdAt : (0 .. MaxTime) \cup {None}, runId : BOOLEAN, dispatched : BOOLEAN]
ScheduleRecs == [enabled : BOOLEAN, nextRunAt : Instants \cup {None}]
EditRecs == [at : {"idle", "compute", "write"}, schedule : Schedules \cup {None},
             enabled : BOOLEAN, nextRunAt : Instants \cup {None}]
PendingCalls == [at : {"claim", "add"}, job : Jobs, tries : 0 .. MaxTries - 1]
AnsweredCalls == [at : Answers, job : Jobs, tries : {0}]
CallRecs == {NoCall} \cup PendingCalls \cup AnsweredCalls

(* A job is there or on its way, unless something has failed.              *)
HasJob(j) == job[j] \/ IsAdding(j) \/ queueFaults > 0

Created(o) == run[o] # "absent"
Launched(o) == run[o] \notin {"absent", "PENDING"}
Linked(o) == occurrence[o].runId

(* A Run that has started was taken from the queue. *)
RunsOK == \A o \in Occurrences : run[o] \in {"RUNNING", "INTERRUPTED", "ENDED"} => job[o]

(* Whoever holds a claim, or has been told that the job is there, is right. *)
ClaimsOK == \A j \in Jobs : claim[j] # "none" => HasJob(j)
CallOK(c) == c.at \in {"enqueued", "already_present"} => HasJob(c.job)
CallsOK == \A c \in Callers : CallOK(call[c])

(* What a dispatch has seen of a Run, or done to it, is not undone. *)
Dispatching == {"create", "queue", "createEnqueue", "attach", "requeue", "enqueue", "mark"}
TickOK(t, c) ==
  /\ t.at \in Dispatching => t.current \in Occurrences
  /\ t.at \in {"createEnqueue", "enqueue"} =>
       c.at # "none" /\ c.job = t.current /\ Launched(t.current)
  /\ t.at = "attach" =>
       /\ t.seen # "absent" /\ Created(t.current)
       /\ t.seen # "PENDING" => Launched(t.current)
       /\ t.seen \in {"created", "RUNNING", "ENDED"} => HasJob(t.current)
  /\ t.at \in {"requeue", "enqueue", "mark"} => Linked(t.current)
  /\ t.at = "mark" => Launched(t.current) /\ HasJob(t.current)
TicksOK == \A r \in Replicas : TickOK(tick[r], call[r])

DispatchedOK ==
  \A o \in Occurrences : occurrence[o].dispatched => Linked(o) /\ Launched(o) /\ HasJob(o)

IInv == TypeOK /\ RunsOK /\ ClaimsOK /\ CallsOK /\ TicksOK /\ DispatchedOK

(* Instants go with the clock. *)
InstantsOK ==
  /\ \A r \in Replicas : tick[r].now <= clock
  /\ \A s \in Schedules, t \in 1 .. MaxTime :
       Exists(<<s, t>>) => t <= occurrence[<<s, t>>].createdAt
                           /\ occurrence[<<s, t>>].createdAt <= clock

(* An instant that is materialized already, or lies after every creation.  *)
IsDone(s, n) == n \in 1 .. MaxTime /\ Exists(<<s, n>>)
IsAhead(s, n) ==
  \A t \in 1 .. MaxTime : Exists(<<s, t>>) => occurrence[<<s, t>>].createdAt < n
NextOK ==
  \A s \in Schedules : LET n == schedule[s].nextRunAt
                       IN n # None => IsDone(s, n) \/ <<s, n>> \in restored \/ IsAhead(s, n)

(* Only an edit puts an instant back. *)
EditsOK == edits = 0 => restored = {} /\ \A e \in Editors : edit[e].at = "idle"

CoalesceInv == InstantsOK /\ NextOK /\ EditsOK /\ CoalesceOne

-----------------------------------------------------------------------------
(* Types *)

LEMMA RecordsTyped ==
  ASSUME TypeOK
  PROVE  /\ tick \in [Replicas -> TickRecs]
         /\ occurrence \in [Occurrences -> OccurrenceRecs]
         /\ schedule \in [Schedules -> ScheduleRecs]
         /\ edit \in [Editors -> EditRecs]
         /\ call \in [Callers -> CallRecs]
         /\ job \in [Jobs -> BOOLEAN]
         /\ run \in [Occurrences -> RunStates]
         /\ clock \in Nat /\ queueFaults \in Nat /\ restored \subseteq Occurrences
BY DEF TypeOK, QueueTypeOK, TickRecs, OccurrenceRecs, ScheduleRecs, EditRecs, CallRecs,
       PendingCalls, AnsweredCalls

LEMMA TypeOKNext ==
  ASSUME tick' \in [Replicas -> TickRecs], occurrence' \in [Occurrences -> OccurrenceRecs],
         schedule' \in [Schedules -> ScheduleRecs], edit' \in [Editors -> EditRecs],
         call' \in [Callers -> CallRecs], job' \in [Jobs -> BOOLEAN],
         claim' \in [Jobs -> {"none", "fresh", "stale"}], queueFaults' \in 0 .. MaxQueueFaults,
         run' \in [Occurrences -> RunStates], clock' \in 0 .. MaxTime, edits' \in 0 .. MaxEdits,
         restored' \subseteq Occurrences
  PROVE  TypeOK'
BY DEF TypeOK, QueueTypeOK, TickRecs, OccurrenceRecs, ScheduleRecs, EditRecs, CallRecs,
       PendingCalls, AnsweredCalls

LEMMA IdleTyped ==
  /\ Idle \in TickRecs /\ Idle.at = "idle" /\ Idle.now = 0
  /\ NoOccurrence \in OccurrenceRecs /\ NoOccurrence.createdAt = None
  /\ NoOccurrence.runId = FALSE /\ NoOccurrence.dispatched = FALSE
  /\ NoEdit \in EditRecs /\ NoEdit.at = "idle"
BY DEF Idle, TickRecs, Stages, RunStates, NoOccurrence, OccurrenceRecs, NoEdit, EditRecs

LEMMA ReplicasCall ==
  /\ Jobs = Occurrences
  /\ Replicas \subseteq Callers /\ Recoverers \subseteq Callers
  /\ \A r \in Replicas : r \notin Recoverers
OBVIOUS

(* The calls of the queue. *)
LEMMA CallTyped ==
  /\ NoCall \in CallRecs /\ NoCall.at = "none"
  /\ \A at \in {"claim", "add"}, j \in Jobs, n \in 0 .. MaxTries - 1 :
       Call(at, j, n) \in CallRecs /\ Call(at, j, n).at = at /\ Call(at, j, n).job = j
  /\ \A outcome \in Answers, j \in Jobs :
       Answer(outcome, j) \in CallRecs /\ Answer(outcome, j).at = outcome
       /\ Answer(outcome, j).job = j
BY DEF NoCall, Call, Answer, CallRecs, PendingCalls, AnsweredCalls

LEMMA CallJob ==
  ASSUME NEW c \in CallRecs, c.at # "none"
  PROVE  /\ c.job \in Jobs /\ c.at \in {"claim", "add"} \cup Answers
         /\ c.at \in {"claim", "add"} => c.tries \in 0 .. MaxTries - 1
<1>1. CASE c = NoCall
  BY <1>1, CallTyped
<1>2. CASE c \in PendingCalls
  BY <1>2 DEF PendingCalls
<1>3. CASE c \in AnsweredCalls
  BY <1>3 DEF AnsweredCalls, Answers
<1> QED BY <1>1, <1>2, <1>3 DEF CallRecs

LEMMA OneCall ==
  ASSUME TypeOK, NEW b \in Callers, NEW c \in CallRecs, call' = [call EXCEPT ![b] = c]
  PROVE  /\ call' \in [Callers -> CallRecs] /\ call'[b] = c
         /\ \A d \in Callers \ {b} : call'[d] = call[d]
BY RecordsTyped

-----------------------------------------------------------------------------
(* What stays true once it is. *)

Forward ==
  /\ \A j \in Jobs : HasJob(j) => HasJob(j)'
  /\ \A j \in Jobs : job[j] => job'[j]
  /\ \A o \in Occurrences : /\ Created(o) => Created(o)'
                            /\ Launched(o) => Launched(o)'
                            /\ Linked(o) => Linked(o)'

(* A call that was to add a job goes on, has added it, or has failed. *)
LEMMA HasJobKept ==
  ASSUME queueFaults \in Nat, queueFaults' \in Nat, queueFaults <= queueFaults',
         \A j \in Jobs : job[j] => job'[j],
         \A c \in Callers : call[c].at = "add" =>
           \/ call'[c].at = "add" /\ call'[c].job = call[c].job
           \/ job'[call[c].job]
           \/ queueFaults' > 0
  PROVE  \A j \in Jobs : HasJob(j) => HasJob(j)'
<1>1. ASSUME NEW j \in Jobs, HasJob(j) PROVE HasJob(j)'
  <2>1. CASE job[j]
    BY <2>1 DEF HasJob
  <2>2. CASE queueFaults > 0
    BY <2>2 DEF HasJob
  <2>3. CASE IsAdding(j)
    <3>1. PICK c \in Callers : call[c].at = "add" /\ call[c].job = j
      BY <2>3 DEF IsAdding
    <3>2. CASE call'[c].at = "add" /\ call'[c].job = j
      BY <3>2 DEF HasJob, IsAdding
    <3>3. CASE job'[j] \/ queueFaults' > 0
      BY <3>3 DEF HasJob
    <3> QED BY <3>1, <3>2, <3>3
  <2> QED BY <1>1, <2>1, <2>2, <2>3 DEF HasJob
<1> QED BY <1>1

LEMMA TickKept ==
  ASSUME Forward, NEW t \in TickRecs, NEW c, TickOK(t, c)
  PROVE  TickOK(t, c)'
<1>1. CASE t.at \in Dispatching
  <2>1. t.current \in Occurrences /\ t.current \in Jobs
    BY <1>1, ReplicasCall DEF TickOK
  <2> QED BY <2>1 DEF TickOK, Forward
<1>2. CASE t.at \notin Dispatching
  BY <1>2 DEF TickOK, Dispatching
<1> QED BY <1>1, <1>2

(* Another call, or the same one further on. *)
LEMMA TickWith ==
  ASSUME NEW t, NEW c, NEW d, TickOK(t, c),
         t.at \in {"createEnqueue", "enqueue"} => d.at # "none" /\ d.job = c.job
  PROVE  TickOK(t, d)
BY DEF TickOK

(* A tick that is not at an occurrence. *)
LEMMA AwayOK ==
  ASSUME NEW t, NEW c, t.at \notin Dispatching
  PROVE  TickOK(t, c)
BY DEF TickOK, Dispatching

(* Any step. *)
LEMMA AnyStep ==
  ASSUME IInv, TypeOK', Forward,
         \A o \in Occurrences :
           run'[o] \in {"RUNNING", "INTERRUPTED", "ENDED"} =>
             run[o] \in {"RUNNING", "INTERRUPTED", "ENDED"} \/ job[o],
         \A j \in Jobs : claim'[j] # "none" => claim[j] # "none" \/ HasJob(j)',
         \A c \in Callers : call'[c] = call[c] \/ CallOK(call[c])',
         \A r \in Replicas : \/ tick'[r] = tick[r] /\ call'[r] = call[r]
                             \/ TickOK(tick[r], call[r])',
         \A o \in Occurrences : occurrence'[o].dispatched =>
           occurrence[o].dispatched \/ (Linked(o) /\ Launched(o) /\ HasJob(o))'
  PROVE  IInv'
<1>1. RunsOK'
  BY ReplicasCall DEF IInv, RunsOK, Forward
<1>2. ClaimsOK'
  BY DEF IInv, ClaimsOK, Forward
<1>3. ASSUME NEW c \in Callers PROVE CallOK(call[c])'
  <2>1. CASE call'[c] = call[c]
    <3>1. PICK d \in CallRecs : d = call[c]
      BY RecordsTyped DEF IInv
    <3>2. d.at \in {"enqueued", "already_present"} => d.job \in Jobs /\ HasJob(d.job)
      BY <3>1, CallJob DEF IInv, CallsOK, CallOK
    <3> QED BY <2>1, <3>1, <3>2 DEF CallOK, Forward
  <2> QED BY <2>1
<1>4. ASSUME NEW r \in Replicas PROVE TickOK(tick[r], call[r])'
  <2>1. CASE tick'[r] = tick[r] /\ call'[r] = call[r]
    <3>1. PICK t \in TickRecs : t = tick[r]
      BY RecordsTyped DEF IInv
    <3>2. PICK d \in CallRecs : d = call[r]
      BY RecordsTyped, ReplicasCall DEF IInv
    <3>3. TickOK(t, d)
      BY <3>1, <3>2 DEF IInv, TicksOK
    <3>4. TickOK(t, d)'
      BY <3>3, TickKept
    <3> QED BY <2>1, <3>1, <3>2, <3>4
  <2> QED BY <2>1
<1>5. ASSUME NEW o \in Occurrences, occurrence'[o].dispatched
      PROVE  (Linked(o) /\ Launched(o) /\ HasJob(o))'
  BY <1>5, ReplicasCall DEF IInv, DispatchedOK, Forward
<1>6. CallsOK' /\ TicksOK'
  BY <1>3, <1>4 DEF CallsOK, TicksOK
<1>7. DispatchedOK'
  BY <1>5 DEF DispatchedOK
<1> QED BY <1>1, <1>2, <1>6, <1>7 DEF IInv

-----------------------------------------------------------------------------
(* The steps of a replica *)

Grows ==
  \A o \in Occurrences : /\ Created(o) => Created(o)'
                         /\ Launched(o) => Launched(o)'
                         /\ Linked(o) => Linked(o)'

(* What a replica does to its own call of the queue.                       *)
Calls(r, c) ==
  /\ call' = [call EXCEPT ![r] = c]
  /\ c = call[r] \/ c.at \notin {"enqueued", "already_present"}
  /\ call[r].at = "add" => c = call[r] \/ queueFaults' > 0
  /\ queueFaults' \in 0 .. MaxQueueFaults /\ queueFaults <= queueFaults'
  /\ UNCHANGED <<job, claim>>

LEMMA ReplicaForward ==
  ASSUME IInv, NEW r \in Callers, NEW c \in CallRecs, Calls(r, c), Grows
  PROVE  Forward
<1>1. /\ call' \in [Callers -> CallRecs] /\ call'[r] = c
      /\ \A d \in Callers \ {r} : call'[d] = call[d]
  BY OneCall DEF IInv, Calls
<1>2. queueFaults \in Nat /\ queueFaults' \in Nat /\ queueFaults <= queueFaults'
  BY RecordsTyped DEF IInv, Calls
<1>3. \A j \in Jobs : job[j] => job'[j]
  BY DEF Calls
<1>4. ASSUME NEW d \in Callers, call[d].at = "add"
      PROVE  \/ call'[d].at = "add" /\ call'[d].job = call[d].job
             \/ job'[call[d].job]
             \/ queueFaults' > 0
  <2>1. CASE d = r
    BY <1>1, <1>4, <2>1 DEF Calls
  <2>2. CASE d # r
    BY <1>1, <1>4, <2>2
  <2> QED BY <2>1, <2>2
<1>5. \A j \in Jobs : HasJob(j) => HasJob(j)'
  BY <1>2, <1>3, <1>4, HasJobKept
<1> QED BY <1>3, <1>5 DEF Forward, Grows

LEMMA ReplicaStep ==
  ASSUME IInv, NEW r \in Replicas, NEW c \in CallRecs, Calls(r, c), Grows,
         tick' \in [Replicas -> TickRecs], \A q \in Replicas \ {r} : tick'[q] = tick[q],
         Forward => TickOK(tick[r], call[r])',
         schedule' \in [Schedules -> ScheduleRecs], restored' \subseteq restored \cup Occurrences,
         occurrence' \in [Occurrences -> OccurrenceRecs],
         \A o \in Occurrences : occurrence'[o].dispatched =>
           occurrence[o].dispatched \/ (Forward => (Linked(o) /\ Launched(o) /\ HasJob(o))'),
         run' \in [Occurrences -> RunStates],
         \A o \in Occurrences :
           run'[o] \in {"RUNNING", "INTERRUPTED", "ENDED"} => run'[o] = run[o],
         UNCHANGED <<clock, edit, edits>>
  PROVE  IInv'
<1>1. r \in Callers
  BY ReplicasCall
<1>2. Forward
  BY <1>1, ReplicaForward
<1>3. /\ call' \in [Callers -> CallRecs] /\ call'[r] = c
      /\ \A d \in Callers \ {r} : call'[d] = call[d]
  BY <1>1, OneCall DEF IInv, Calls
<1>4. TypeOK'
  <2>1. /\ job' \in [Jobs -> BOOLEAN] /\ claim' \in [Jobs -> {"none", "fresh", "stale"}]
        /\ clock' \in 0 .. MaxTime /\ edits' \in 0 .. MaxEdits
        /\ edit' \in [Editors -> EditRecs] /\ queueFaults' \in 0 .. MaxQueueFaults
        /\ restored' \subseteq Occurrences
    BY RecordsTyped DEF IInv, TypeOK, QueueTypeOK, Calls
  <2> QED BY <1>3, <2>1, TypeOKNext
<1>5. \A d \in Callers : call'[d] = call[d] \/ CallOK(call[d])'
  BY <1>3 DEF Calls, CallOK
<1>6. \A q \in Replicas : \/ tick'[q] = tick[q] /\ call'[q] = call[q]
                          \/ TickOK(tick[q], call[q])'
  BY <1>2, <1>3, ReplicasCall
<1>7. \A j \in Jobs : claim'[j] # "none" => claim[j] # "none" \/ HasJob(j)'
  BY DEF Calls
<1> QED BY <1>2, <1>4, <1>5, <1>6, <1>7, AnyStep

(* The ways a tick goes on. *)
LEMMA GoTyped ==
  ASSUME TypeOK, NEW r \in Replicas, NEW at \in Stages, Go(r, at)
  PROVE  /\ tick' \in [Replicas -> TickRecs] /\ \A q \in Replicas \ {r} : tick'[q] = tick[q]
         /\ tick'[r].at = at /\ tick'[r].now = tick[r].now
         /\ tick'[r].current = tick[r].current /\ tick'[r].seen = tick[r].seen
BY RecordsTyped DEF Go, TickRecs

LEMMA GoSeeingTyped ==
  ASSUME TypeOK, NEW r \in Replicas, NEW at \in Stages, NEW status \in RunStates \cup {"created"},
         GoSeeing(r, at, status)
  PROVE  /\ tick' \in [Replicas -> TickRecs] /\ \A q \in Replicas \ {r} : tick'[q] = tick[q]
         /\ tick'[r].at = at /\ tick'[r].now = tick[r].now
         /\ tick'[r].current = tick[r].current /\ tick'[r].seen = status
<1>1. PICK f \in [Replicas -> TickRecs] : f = [tick EXCEPT ![r].at = at]
  BY RecordsTyped DEF TickRecs
<1>2. /\ \A q \in Replicas \ {r} : f[q] = tick[q]
      /\ f[r].at = at /\ f[r].now = tick[r].now /\ f[r].current = tick[r].current
  BY <1>1, RecordsTyped DEF TickRecs
<1>3. tick' = [f EXCEPT ![r].seen = status]
  BY <1>1 DEF GoSeeing
<1> QED BY <1>2, <1>3 DEF TickRecs

LEMMA LeaveTyped ==
  ASSUME TypeOK, NEW r \in Replicas, Leave(r)
  PROVE  /\ tick' \in [Replicas -> TickRecs] /\ \A q \in Replicas \ {r} : tick'[q] = tick[q]
         /\ tick'[r].at = "next" /\ tick'[r].now = tick[r].now
<1>1. "next" \in Stages /\ "absent" \in RunStates
  BY DEF Stages, RunStates
<1>2. PICK f \in [Replicas -> TickRecs] : f = [tick EXCEPT ![r].at = "next"]
  BY <1>1, RecordsTyped DEF TickRecs
<1>3. \A q \in Replicas \ {r} : f[q] = tick[q]
  BY <1>2, RecordsTyped
<1>4. f[r].at = "next" /\ f[r].now = tick[r].now
  BY <1>2, RecordsTyped DEF TickRecs
<1>5. PICK g \in [Replicas -> TickRecs] : g = [f EXCEPT ![r].current = None]
  BY DEF TickRecs
<1>6. \A q \in Replicas \ {r} : g[q] = tick[q]
  BY <1>3, <1>5
<1>7. g[r].at = "next" /\ g[r].now = tick[r].now
  BY <1>4, <1>5 DEF TickRecs
<1>8. tick' = [g EXCEPT ![r].seen = "absent"]
  BY <1>2, <1>5 DEF Leave
<1> QED BY <1>1, <1>6, <1>7, <1>8 DEF TickRecs

(* The current occurrence of a tick. *)
LEMMA TickTyped ==
  ASSUME IInv, NEW r \in Replicas
  PROVE  /\ r \in Callers /\ tick[r] \in TickRecs /\ TickOK(tick[r], call[r])
         /\ tick[r].at \in Stages /\ tick[r].now \in 0 .. MaxTime
         /\ tick[r].todo \subseteq Occurrences /\ tick[r].seen \in RunStates \cup {"created"}
         /\ tick[r].at \in Dispatching =>
              tick[r].current \in Occurrences /\ tick[r].current \in Jobs
         /\ call[r] \in CallRecs
<1>1. tick[r] \in TickRecs /\ r \in Callers /\ call[r] \in CallRecs /\ TickOK(tick[r], call[r])
  BY RecordsTyped, ReplicasCall DEF IInv, TicksOK
<1> QED BY <1>1, ReplicasCall DEF TickRecs, TickOK

(* The queue is left alone. *)
LEMMA CallsNothing ==
  ASSUME IInv, NEW r \in Callers, UNCHANGED queueVars
  PROVE  Calls(r, call[r]) /\ call[r] \in CallRecs
<1>1. call \in [Callers -> CallRecs] /\ queueFaults \in 0 .. MaxQueueFaults
  BY RecordsTyped DEF IInv, TypeOK, QueueTypeOK
<1>2. call' = [call EXCEPT ![r] = call[r]]
  BY <1>1 DEF queueVars
<1>3. queueFaults <= queueFaults' /\ queueFaults' \in 0 .. MaxQueueFaults
  BY <1>1 DEF queueVars
<1> QED BY <1>1, <1>2, <1>3 DEF Calls, queueVars

(* A step that moves a tick and touches no table and no call. *)
LEMMA QuietStep ==
  ASSUME IInv, NEW r \in Replicas, UNCHANGED <<clock, tables, edit, edits, queueVars>>,
         tick' \in [Replicas -> TickRecs], \A q \in Replicas \ {r} : tick'[q] = tick[q],
         Forward => TickOK(tick[r], call[r])'
  PROVE  IInv'
<1>1. r \in Callers
  BY ReplicasCall
<1>2. Calls(r, call[r]) /\ call[r] \in CallRecs
  BY <1>1, CallsNothing
<1>3. UNCHANGED <<schedule, restored, occurrence, run>>
  BY DEF tables
<1>4. Grows
  BY <1>3 DEF Grows, Created, Launched, Linked
<1>5. /\ schedule \in [Schedules -> ScheduleRecs] /\ run \in [Occurrences -> RunStates]
      /\ occurrence \in [Occurrences -> OccurrenceRecs]
  BY RecordsTyped DEF IInv
<1> QED BY <1>2, <1>3, <1>4, <1>5, ReplicaStep

LEMMA StartTickInv ==
  ASSUME IInv, NEW r \in Replicas, StartTick(r)
  PROVE  IInv'
<1>1. PICK t \in TickRecs : t = [Idle EXCEPT !.at = "materialize", !.now = clock]
  BY IdleTyped DEF TickRecs, Stages, IInv, TypeOK
<1>2. t.at = "materialize"
  BY <1>1, IdleTyped DEF TickRecs
<1>3. tick' = [tick EXCEPT ![r] = t] /\ tick \in [Replicas -> TickRecs]
  BY <1>1, RecordsTyped DEF StartTick, IInv
<1>4. /\ tick' \in [Replicas -> TickRecs] /\ \A q \in Replicas \ {r} : tick'[q] = tick[q]
      /\ tick'[r].at = "materialize"
  BY <1>2, <1>3
<1>5. TickOK(tick[r], call[r])'
  BY <1>4 DEF TickOK, Dispatching
<1> QED BY <1>4, <1>5, QuietStep DEF StartTick

LEMMA NothingDueInv ==
  ASSUME IInv, NEW r \in Replicas, NothingDue(r)
  PROVE  IInv'
<1>1. Go(r, "list") /\ "list" \in Stages
  BY DEF NothingDue, Go, Stages
<1>2. /\ tick' \in [Replicas -> TickRecs] /\ \A q \in Replicas \ {r} : tick'[q] = tick[q]
      /\ tick'[r].at = "list"
  BY <1>1, GoTyped DEF IInv
<1>3. TickOK(tick[r], call[r])'
  BY <1>2 DEF TickOK, Dispatching
<1> QED BY <1>2, <1>3, QuietStep DEF NothingDue

LEMMA ListUndispatchedInv ==
  ASSUME IInv, NEW r \in Replicas, ListUndispatched(r)
  PROVE  IInv'
<1>1. PICK U \in SUBSET Occurrences :
        U = {o \in Occurrences : Exists(o) /\ ~occurrence[o].dispatched}
  OBVIOUS
<1>2. "next" \in Stages
  BY DEF Stages
<1>3. PICK f \in [Replicas -> TickRecs] : f = [tick EXCEPT ![r].at = "next"]
  BY <1>2, RecordsTyped DEF IInv, TickRecs
<1>4. (\A q \in Replicas \ {r} : f[q] = tick[q]) /\ f[r].at = "next"
  BY <1>3, RecordsTyped DEF IInv, TickRecs
<1>5. tick' = [f EXCEPT ![r].todo = @ \cup U]
  BY <1>1, <1>3 DEF ListUndispatched
<1>6. /\ tick' \in [Replicas -> TickRecs] /\ \A q \in Replicas \ {r} : tick'[q] = tick[q]
      /\ tick'[r].at = "next"
  BY <1>4, <1>5 DEF TickRecs
<1>7. TickOK(tick[r], call[r])'
  BY <1>6 DEF TickOK, Dispatching
<1> QED BY <1>6, <1>7, QuietStep DEF ListUndispatched

LEMMA EndTickInv ==
  ASSUME IInv, NEW r \in Replicas, EndTick(r)
  PROVE  IInv'
<1>1. tick' = [tick EXCEPT ![r] = Idle] /\ tick \in [Replicas -> TickRecs]
  BY RecordsTyped DEF EndTick, IInv
<1>2. /\ tick' \in [Replicas -> TickRecs] /\ \A q \in Replicas \ {r} : tick'[q] = tick[q]
      /\ tick'[r].at = "idle"
  BY <1>1, IdleTyped
<1>3. TickOK(tick[r], call[r])'
  BY <1>2 DEF TickOK, Dispatching
<1> QED BY <1>2, <1>3, QuietStep DEF EndTick

(* The row of an occurrence is created. *)
LEMMA MaterializeTyped ==
  ASSUME TypeOK, NEW r \in Replicas, NEW s \in Schedules, MaterializeDue(r, s)
  PROVE  LET n == schedule[s].nextRunAt
             now == tick[r].now
         IN /\ n \in 1 .. MaxTime /\ n <= now /\ now \in 1 .. MaxTime
            /\ <<s, n>> \in Occurrences
            /\ tick' \in [Replicas -> TickRecs] /\ \A q \in Replicas \ {r} : tick'[q] = tick[q]
            /\ tick'[r].now = now
            /\ tick'[r].at \in {"list", "materialize"}
            /\ \/ UNCHANGED <<schedule, restored, occurrence>>
               \/ /\ ~Exists(<<s, n>>)
                  /\ occurrence' = [occurrence EXCEPT ![<<s, n>>].createdAt = now]
                  /\ schedule' = [schedule EXCEPT ![s].nextRunAt = now + 1]
                  /\ restored' = restored \cup PutBack(s, now + 1)
<1> DEFINE n == schedule[s].nextRunAt
           now == tick[r].now
<1>1. n \in Instants /\ n <= now /\ now \in 0 .. MaxTime
  <2>1. schedule[s] \in ScheduleRecs /\ tick[r] \in TickRecs
    BY RecordsTyped
  <2>2. n # None /\ n <= now
    BY DEF MaterializeDue, Due
  <2> QED BY <2>1, <2>2 DEF ScheduleRecs, TickRecs
<1>2. n \in 1 .. MaxTime /\ now \in 1 .. MaxTime
  BY <1>1 DEF Instants
<1>3. <<s, n>> \in Occurrences
  BY <1>2 DEF Occurrences
<1>4. tick \in [Replicas -> TickRecs]
  BY RecordsTyped
<1>5. CASE Exists(<<s, n>>)
  <2>1. Go(r, "list") /\ "list" \in Stages /\ UNCHANGED <<schedule, restored, occurrence>>
    BY <1>5 DEF MaterializeDue, Go, Stages
  <2>2. /\ tick' \in [Replicas -> TickRecs] /\ \A q \in Replicas \ {r} : tick'[q] = tick[q]
        /\ tick'[r].at = "list" /\ tick'[r].now = now
    BY <2>1, GoTyped
  <2> QED BY <1>1, <1>2, <1>3, <2>1, <2>2
<1>6. CASE ~Exists(<<s, n>>)
  <2>1. /\ occurrence' = [occurrence EXCEPT ![<<s, n>>].createdAt = now]
        /\ schedule' = [schedule EXCEPT ![s].nextRunAt = now + 1]
        /\ restored' = restored \cup PutBack(s, now + 1)
        /\ tick' = [tick EXCEPT ![r].todo = @ \cup {<<s, n>>}]
        /\ tick[r].at = "materialize"
    BY <1>6 DEF MaterializeDue, NextRunAt, nextCronInstantAfter
  <2>2. /\ tick' \in [Replicas -> TickRecs] /\ \A q \in Replicas \ {r} : tick'[q] = tick[q]
        /\ tick'[r].at = "materialize" /\ tick'[r].now = now
    <3> HIDE DEF n, now
    <3>1. tick' \in [Replicas -> TickRecs] /\ \A q \in Replicas \ {r} : tick'[q] = tick[q]
      BY <1>3, <1>4, <2>1 DEF TickRecs
    <3>2. tick'[r] = [tick[r] EXCEPT !.todo = @ \cup {<<s, n>>}] /\ tick[r] \in TickRecs
      BY <1>4, <2>1
    <3> QED BY <2>1, <3>1, <3>2 DEF TickRecs, now
  <2> QED BY <1>1, <1>2, <1>3, <1>6, <2>1, <2>2
<1> QED BY <1>5, <1>6

LEMMA MaterializeRows ==
  ASSUME TypeOK, NEW s \in Schedules, NEW n \in 1 .. MaxTime, NEW now \in 1 .. MaxTime,
         occurrence' = [occurrence EXCEPT ![<<s, n>>].createdAt = now],
         schedule' = [schedule EXCEPT ![s].nextRunAt = now + 1]
  PROVE  /\ occurrence' \in [Occurrences -> OccurrenceRecs]
         /\ schedule' \in [Schedules -> ScheduleRecs]
         /\ \A o \in Occurrences : /\ occurrence'[o].runId = occurrence[o].runId
                                   /\ occurrence'[o].dispatched = occurrence[o].dispatched
         /\ \A o \in Occurrences : o # <<s, n>> => occurrence'[o] = occurrence[o]
         /\ occurrence'[<<s, n>>].createdAt = now
         /\ \A u \in Schedules \ {s} : schedule'[u] = schedule[u]
         /\ schedule'[s].nextRunAt = now + 1 /\ now + 1 \in Instants
<1>1. now \in 0 .. MaxTime /\ now + 1 \in Instants
  BY DEF Instants
<1>2. <<s, n>> \in Occurrences
  BY DEF Occurrences
<1>3. /\ occurrence \in [Occurrences -> OccurrenceRecs]
      /\ schedule \in [Schedules -> ScheduleRecs]
  BY RecordsTyped
<1>4. PICK o \in Occurrences : o = <<s, n>>
  BY <1>2
<1>5. occurrence' = [occurrence EXCEPT ![o].createdAt = now]
  BY <1>4
<1>6. /\ occurrence' \in [Occurrences -> OccurrenceRecs]
      /\ occurrence'[o].createdAt = now
      /\ occurrence'[o].runId = occurrence[o].runId
      /\ occurrence'[o].dispatched = occurrence[o].dispatched
      /\ \A p \in Occurrences : p # o => occurrence'[p] = occurrence[p]
  <2>1. occurrence[o] \in OccurrenceRecs
    BY <1>3
  <2>2. PICK c \in OccurrenceRecs : c = [occurrence[o] EXCEPT !.createdAt = now]
    BY <1>1, <2>1 DEF OccurrenceRecs
  <2>3. c.createdAt = now /\ c.runId = occurrence[o].runId
        /\ c.dispatched = occurrence[o].dispatched
    BY <2>1, <2>2 DEF OccurrenceRecs
  <2>4. occurrence' = [occurrence EXCEPT ![o] = c]
    BY <1>5, <2>2
  <2> QED BY <1>3, <2>3, <2>4
<1>7. /\ schedule' \in [Schedules -> ScheduleRecs]
      /\ schedule'[s].nextRunAt = now + 1
      /\ \A u \in Schedules \ {s} : schedule'[u] = schedule[u]
  BY <1>1, <1>3 DEF ScheduleRecs
<1> QED BY <1>1, <1>4, <1>6, <1>7

LEMMA MaterializeDueInv ==
  ASSUME IInv, NEW r \in Replicas, NEW s \in Schedules, MaterializeDue(r, s)
  PROVE  IInv'
<1>0. TypeOK
  BY DEF IInv
<1>1. PICK n \in 1 .. MaxTime : n = schedule[s].nextRunAt
  BY <1>0, MaterializeTyped
<1>2. PICK now \in 1 .. MaxTime : now = tick[r].now
  BY <1>0, MaterializeTyped
<1>3. /\ tick' \in [Replicas -> TickRecs] /\ \A q \in Replicas \ {r} : tick'[q] = tick[q]
      /\ tick'[r].at \in {"list", "materialize"}
      /\ \/ UNCHANGED <<schedule, restored, occurrence>>
         \/ /\ occurrence' = [occurrence EXCEPT ![<<s, n>>].createdAt = now]
            /\ schedule' = [schedule EXCEPT ![s].nextRunAt = now + 1]
            /\ restored' = restored \cup PutBack(s, now + 1)
  BY <1>0, <1>1, <1>2, MaterializeTyped
<1>4. /\ occurrence' \in [Occurrences -> OccurrenceRecs]
      /\ schedule' \in [Schedules -> ScheduleRecs]
      /\ \A o \in Occurrences : /\ occurrence'[o].runId = occurrence[o].runId
                                /\ occurrence'[o].dispatched = occurrence[o].dispatched
  BY <1>0, <1>3, MaterializeRows, RecordsTyped
<1>11. restored' \subseteq restored \cup Occurrences
  BY <1>3 DEF PutBack
<1>5. UNCHANGED <<clock, run, edit, edits, queueVars>>
  BY DEF MaterializeDue
<1>6. r \in Callers
  BY ReplicasCall
<1>7. Calls(r, call[r]) /\ call[r] \in CallRecs
  BY <1>5, <1>6, CallsNothing
<1>8. Grows
  BY <1>4, <1>5 DEF Grows, Created, Launched, Linked
<1>9. TickOK(tick[r], call[r])'
  BY <1>3 DEF TickOK, Dispatching
<1>10. run \in [Occurrences -> RunStates]
  BY <1>0, RecordsTyped
<1> QED BY <1>3, <1>4, <1>5, <1>7, <1>8, <1>9, <1>10, <1>11, ReplicaStep

(* What the steps of a dispatch do to the call of the replica. *)
LEMMA FaultsTyped ==
  ASSUME IInv
  PROVE  /\ queueFaults \in 0 .. MaxQueueFaults /\ queueFaults \in Nat /\ queueFaults <= queueFaults
         /\ QueueFault => /\ queueFaults' \in 0 .. MaxQueueFaults
                          /\ queueFaults <= queueFaults' /\ queueFaults' > 0
BY DEF IInv, TypeOK, QueueTypeOK, QueueFault

LEMMA CallsSettle ==
  ASSUME IInv, NEW r \in Callers, Settle(r), UNCHANGED <<job, claim>>,
         QueueFault \/ (call[r].at # "add" /\ UNCHANGED queueFaults)
  PROVE  Calls(r, NoCall) /\ NoCall \in CallRecs
BY CallTyped, FaultsTyped DEF Settle, Calls

LEMMA CallsEnqueue ==
  ASSUME IInv, NEW r \in Callers, NEW j \in Jobs, Enqueue(r, j),
         UNCHANGED <<job, claim, queueFaults>>
  PROVE  /\ Calls(r, Call("claim", j, 0)) /\ Call("claim", j, 0) \in CallRecs
         /\ call'[r].at = "claim" /\ call'[r].job = j
<1>1. 0 \in 0 .. MaxTries - 1
  OBVIOUS
<1>2. /\ Call("claim", j, 0) \in CallRecs /\ Call("claim", j, 0).at = "claim"
      /\ Call("claim", j, 0).job = j
  BY <1>1, CallTyped
<1>3. call' = [call EXCEPT ![r] = Call("claim", j, 0)] /\ call[r].at = "none"
  BY DEF Enqueue
<1>4. call'[r] = Call("claim", j, 0)
  BY <1>2, <1>3, OneCall DEF IInv
<1> QED BY <1>2, <1>3, <1>4, FaultsTyped DEF Calls

LEMMA CallsFault ==
  ASSUME IInv, NEW r \in Callers, QueueFault, UNCHANGED <<job, claim, call>>
  PROVE  Calls(r, call[r]) /\ call[r] \in CallRecs
<1>1. call \in [Callers -> CallRecs]
  BY RecordsTyped DEF IInv
<1>2. call' = [call EXCEPT ![r] = call[r]]
  BY <1>1
<1> QED BY <1>1, <1>2, FaultsTyped DEF Calls

(* A step of a dispatch that changes neither Runs nor occurrences. *)
LEMMA DispatchOnly ==
  ASSUME IInv, NEW r \in Replicas, NEW c \in CallRecs, Calls(r, c),
         UNCHANGED <<clock, schedule, restored, edit, edits, occurrence, run>>,
         tick' \in [Replicas -> TickRecs], \A q \in Replicas \ {r} : tick'[q] = tick[q],
         Forward => TickOK(tick[r], call[r])'
  PROVE  IInv'
<1>1. Grows
  BY DEF Grows, Created, Launched, Linked
<1>2. /\ schedule \in [Schedules -> ScheduleRecs] /\ run \in [Occurrences -> RunStates]
      /\ occurrence \in [Occurrences -> OccurrenceRecs]
  BY RecordsTyped DEF IInv
<1> QED BY <1>1, <1>2, ReplicaStep

LEMMA FindRunTyped ==
  ASSUME TypeOK, NEW r \in Replicas, NEW o \in Occurrences, FindRun(r, o)
  PROVE  /\ tick' \in [Replicas -> TickRecs] /\ \A q \in Replicas \ {r} : tick'[q] = tick[q]
         /\ tick'[r].at = IF run[o] = "absent" THEN "create" ELSE "attach"
         /\ tick'[r].current = o /\ tick'[r].seen = run[o] /\ tick'[r].now = tick[r].now
<1>1. PICK at \in Stages : at = IF run[o] = "absent" THEN "create" ELSE "attach"
  BY DEF Stages
<1>2. PICK f \in [Replicas -> TickRecs] : f = [tick EXCEPT ![r].at = at]
  BY RecordsTyped DEF TickRecs
<1>3. \A q \in Replicas \ {r} : f[q] = tick[q]
  BY <1>2, RecordsTyped
<1>4. f[r].at = at /\ f[r].now = tick[r].now
  BY <1>2, RecordsTyped DEF TickRecs
<1>5. PICK g \in [Replicas -> TickRecs] : g = [f EXCEPT ![r].todo = @ \ {o}]
  BY DEF TickRecs
<1>6. (\A q \in Replicas \ {r} : g[q] = tick[q]) /\ g[r].at = at /\ g[r].now = tick[r].now
  BY <1>3, <1>4, <1>5 DEF TickRecs
<1>7. PICK h \in [Replicas -> TickRecs] : h = [g EXCEPT ![r].current = o]
  BY DEF TickRecs
<1>8. \A q \in Replicas \ {r} : h[q] = tick[q]
  BY <1>6, <1>7
<1>9. h[r].at = at /\ h[r].current = o /\ h[r].now = tick[r].now
  BY <1>6, <1>7 DEF TickRecs
<1>10. PICK seen \in RunStates : seen = run[o]
  BY RecordsTyped
<1>11. tick' = [h EXCEPT ![r].seen = seen]
  BY <1>1, <1>2, <1>5, <1>7, <1>10 DEF FindRun
<1>12. tick' \in [Replicas -> TickRecs] /\ \A q \in Replicas \ {r} : tick'[q] = tick[q]
  BY <1>8, <1>11 DEF TickRecs
<1>13. /\ tick'[r].at = at /\ tick'[r].current = o /\ tick'[r].seen = seen
       /\ tick'[r].now = tick[r].now
  BY <1>9, <1>11 DEF TickRecs
<1> QED BY <1>1, <1>10, <1>12, <1>13

LEMMA FindRunInv ==
  ASSUME IInv, NEW r \in Replicas, NEW o \in Occurrences, FindRun(r, o)
  PROVE  IInv'
<1>1. /\ tick' \in [Replicas -> TickRecs] /\ \A q \in Replicas \ {r} : tick'[q] = tick[q]
      /\ tick'[r].at = IF run[o] = "absent" THEN "create" ELSE "attach"
      /\ tick'[r].current = o /\ tick'[r].seen = run[o]
  BY FindRunTyped DEF IInv
<1>2. UNCHANGED <<clock, schedule, restored, edit, edits, occurrence, run, queueVars>>
  BY DEF FindRun, dispatchUnchanged
<1>3. r \in Callers
  BY ReplicasCall
<1>4. Calls(r, call[r]) /\ call[r] \in CallRecs
  BY <1>2, <1>3, CallsNothing
<1>5. run[o] \in RunStates
  BY RecordsTyped DEF IInv
<1>6. run[o] \in {"RUNNING", "ENDED"} => job[o]
  BY DEF IInv, RunsOK
<1>7. ASSUME Forward PROVE TickOK(tick[r], call[r])'
  <2>1. CASE run[o] = "absent"
    BY <1>1, <2>1 DEF TickOK
  <2>2. CASE run[o] # "absent"
    <3>1. Created(o)' /\ (run[o] # "PENDING" => Launched(o)')
      BY <1>2, <2>2 DEF Created, Launched
    <3>2. run[o] \in {"RUNNING", "ENDED"} => HasJob(o)'
      BY <1>2, <1>6 DEF HasJob, queueVars
    <3>3. run[o] # "created"
      BY <1>5 DEF RunStates
    <3> QED BY <1>1, <2>2, <3>1, <3>2, <3>3 DEF TickOK
  <2> QED BY <2>1, <2>2
<1> QED BY <1>1, <1>2, <1>4, <1>7, DispatchOnly

LEMMA CreateScheduledRunInv ==
  ASSUME IInv, NEW r \in Replicas, CreateScheduledRun(r)
  PROVE  IInv'
<1>0. tick[r].at = "create" /\ "create" \in Dispatching
  BY DEF CreateScheduledRun, Dispatching
<1>1. PICK o \in Occurrences : o = tick[r].current
  BY <1>0, TickTyped
<1>2. UNCHANGED <<clock, schedule, restored, edit, edits, occurrence, queueVars>>
  BY DEF CreateScheduledRun, dispatchUnchanged
<1>3. r \in Callers
  BY ReplicasCall
<1>4. Calls(r, call[r]) /\ call[r] \in CallRecs
  BY <1>2, <1>3, CallsNothing
<1>5. run[o] \in RunStates /\ run \in [Occurrences -> RunStates]
  BY RecordsTyped DEF IInv
<1>6. CASE run[o] = "absent"
  <2>1. run' = [run EXCEPT ![o] = "PENDING"] /\ Go(r, "queue") /\ "queue" \in Stages
    BY <1>1, <1>6 DEF CreateScheduledRun, Stages
  <2>2. /\ tick' \in [Replicas -> TickRecs] /\ \A q \in Replicas \ {r} : tick'[q] = tick[q]
        /\ tick'[r].at = "queue" /\ tick'[r].current = tick[r].current
    BY <2>1, GoTyped DEF IInv
  <2>3. /\ run' \in [Occurrences -> RunStates] /\ run'[o] = "PENDING"
        /\ \A p \in Occurrences : p # o => run'[p] = run[p]
    BY <1>5, <2>1 DEF RunStates
  <2>4. Grows
    BY <1>2, <1>6, <2>3 DEF Grows, Created, Launched, Linked
  <2>5. TickOK(tick[r], call[r])'
    BY <1>1, <2>2 DEF TickOK
  <2>6. \A p \in Occurrences :
          run'[p] \in {"RUNNING", "INTERRUPTED", "ENDED"} => run'[p] = run[p]
    BY <2>3
  <2>7. /\ schedule' \in [Schedules -> ScheduleRecs]
        /\ occurrence' \in [Occurrences -> OccurrenceRecs]
        /\ \A p \in Occurrences : occurrence'[p].dispatched => occurrence[p].dispatched
    BY <1>2, RecordsTyped DEF IInv
  <2> QED BY <1>2, <1>4, <2>2, <2>3, <2>4, <2>5, <2>6, <2>7, ReplicaStep
<1>7. CASE run[o] # "absent"
  <2>1. GoSeeing(r, "attach", run[o]) /\ UNCHANGED run /\ "attach" \in Stages
    BY <1>1, <1>7 DEF CreateScheduledRun, Stages
  <2>2. /\ tick' \in [Replicas -> TickRecs] /\ \A q \in Replicas \ {r} : tick'[q] = tick[q]
        /\ tick'[r].at = "attach" /\ tick'[r].current = o /\ tick'[r].seen = run[o]
    BY <1>1, <1>5, <2>1, GoSeeingTyped DEF IInv
  <2>3. ASSUME Forward PROVE TickOK(tick[r], call[r])'
    <3>1. Created(o)' /\ (run[o] # "PENDING" => Launched(o)')
      BY <1>7, <2>1 DEF Created, Launched
    <3>2. run[o] \in {"RUNNING", "ENDED"} => job[o]
      BY DEF IInv, RunsOK
    <3>3. run[o] \in {"RUNNING", "ENDED"} => HasJob(o)'
      BY <1>2, <3>2 DEF HasJob, queueVars
    <3>4. run[o] # "created"
      BY <1>5 DEF RunStates
    <3> QED BY <1>7, <2>2, <3>1, <3>3, <3>4 DEF TickOK
  <2> QED BY <1>2, <1>4, <2>1, <2>2, <2>3, DispatchOnly
<1> QED BY <1>6, <1>7

LEMMA QueueRunInv ==
  ASSUME IInv, NEW r \in Replicas, QueueRun(r)
  PROVE  IInv'
<1>0. tick[r].at \in {"queue", "requeue"} /\ tick[r].at \in Dispatching
  BY DEF QueueRun, Dispatching
<1>1. PICK o \in Occurrences : o = tick[r].current
  BY <1>0, TickTyped
<1>2. UNCHANGED <<clock, schedule, restored, edit, edits, occurrence, job, claim, queueFaults>>
  BY DEF QueueRun, dispatchUnchanged
<1>3. r \in Callers /\ o \in Jobs
  BY ReplicasCall
<1>4. run[o] \in RunStates /\ run \in [Occurrences -> RunStates]
  BY RecordsTyped DEF IInv
<1>5. CASE run[o] = "PENDING"
  <2>1. PICK at \in {"createEnqueue", "enqueue"} :
               at = IF tick[r].at = "queue" THEN "createEnqueue" ELSE "enqueue"
    OBVIOUS
  <2>2. run' = [run EXCEPT ![o] = "QUEUED"] /\ GoSeeing(r, at, "QUEUED") /\ Enqueue(r, o)
    BY <1>1, <1>5, <2>1 DEF QueueRun
  <2>3. at \in Stages /\ "QUEUED" \in RunStates
    BY <2>1 DEF Stages, RunStates
  <2>4. /\ tick' \in [Replicas -> TickRecs] /\ \A q \in Replicas \ {r} : tick'[q] = tick[q]
        /\ tick'[r].at = at /\ tick'[r].current = o
    BY <1>1, <2>2, <2>3, GoSeeingTyped DEF IInv
  <2>5. PICK c \in CallRecs : Calls(r, c) /\ call'[r].at = "claim" /\ call'[r].job = o
    BY <1>2, <1>3, <2>2, CallsEnqueue
  <2>6. /\ run' \in [Occurrences -> RunStates] /\ run'[o] = "QUEUED"
        /\ \A p \in Occurrences : p # o => run'[p] = run[p]
    BY <1>4, <2>2, <2>3
  <2>7. Grows
    BY <1>2, <2>6 DEF Grows, Created, Launched, Linked
  <2>8. Launched(o)'
    BY <2>6 DEF Launched
  <2>9. at = "enqueue" => Linked(o)'
    <3>1. at = "enqueue" => tick[r].at = "requeue"
      BY <1>0, <2>1
    <3> QED BY <1>1, <1>2, <3>1, TickTyped DEF TickOK, Linked
  <2>10. TickOK(tick[r], call[r])'
    BY <2>1, <2>4, <2>5, <2>8, <2>9 DEF TickOK
  <2>11. \A p \in Occurrences :
           run'[p] \in {"RUNNING", "INTERRUPTED", "ENDED"} => run'[p] = run[p]
    BY <2>6
  <2>12. /\ schedule' \in [Schedules -> ScheduleRecs]
         /\ occurrence' \in [Occurrences -> OccurrenceRecs]
         /\ \A p \in Occurrences : occurrence'[p].dispatched => occurrence[p].dispatched
    BY <1>2, RecordsTyped DEF IInv
  <2> QED BY <1>2, <2>4, <2>5, <2>6, <2>7, <2>10, <2>11, <2>12, ReplicaStep
<1>6. CASE run[o] # "PENDING"
  <2>1. Leave(r) /\ UNCHANGED <<run, call>>
    BY <1>1, <1>6 DEF QueueRun
  <2>2. Calls(r, call[r]) /\ call[r] \in CallRecs
    BY <1>2, <1>3, <2>1, CallsNothing DEF queueVars
  <2>3. /\ tick' \in [Replicas -> TickRecs] /\ \A q \in Replicas \ {r} : tick'[q] = tick[q]
        /\ tick'[r].at = "next"
    BY <2>1, LeaveTyped DEF IInv
  <2>4. TickOK(tick[r], call[r])'
    BY <2>3 DEF TickOK, Dispatching
  <2> QED BY <1>2, <2>1, <2>2, <2>3, <2>4, DispatchOnly
<1> QED BY <1>5, <1>6

LEMMA CreateRunReturnsInv ==
  ASSUME IInv, NEW r \in Replicas, CreateRunReturns(r)
  PROVE  IInv'
<1>0. tick[r].at = "createEnqueue" /\ call[r].at \in Answers
  BY DEF CreateRunReturns
<1>1. PICK o \in Occurrences : o = tick[r].current
  BY <1>0, TickTyped DEF Dispatching
<1>2. UNCHANGED <<clock, schedule, restored, edit, edits, occurrence, run, job, claim, queueFaults>>
      /\ Settle(r)
  BY DEF CreateRunReturns, dispatchUnchanged
<1>3. r \in Callers /\ o \in Jobs
  BY ReplicasCall
<1>4. Calls(r, NoCall) /\ NoCall \in CallRecs
  BY <1>0, <1>2, <1>3, CallsSettle DEF Answers
<1>5. call[r].job = o /\ Launched(o)
  BY <1>0, <1>1, TickTyped DEF TickOK
<1>6. run[o] \in RunStates
  BY RecordsTyped DEF IInv
<1>7. PICK seen \in RunStates \cup {"created"} :
             seen = IF call[r].at = "failed" THEN run[o] ELSE "created"
  BY <1>6
<1>8. GoSeeing(r, "attach", seen) /\ "attach" \in Stages
  BY <1>1, <1>7 DEF CreateRunReturns, GoSeeing, Stages
<1>9. /\ tick' \in [Replicas -> TickRecs] /\ \A q \in Replicas \ {r} : tick'[q] = tick[q]
      /\ tick'[r].at = "attach" /\ tick'[r].current = o /\ tick'[r].seen = seen
  BY <1>1, <1>7, <1>8, GoSeeingTyped DEF IInv
<1>10. ASSUME Forward PROVE TickOK(tick[r], call[r])'
  <2>1. seen # "absent"
    BY <1>5, <1>7 DEF Launched
  <2>2. Launched(o)' /\ Created(o)'
    BY <1>2, <1>5 DEF Launched, Created
  <2>3. ASSUME seen = "created" PROVE HasJob(o)
    <3>1. call[r].at # "failed"
      BY <1>6, <1>7, <2>3 DEF RunStates
    <3> QED BY <1>0, <1>3, <1>5, <3>1 DEF IInv, CallsOK, CallOK, Answers
  <2>4. ASSUME seen \in {"RUNNING", "ENDED"} PROVE HasJob(o)
    <3>1. run[o] = seen
      BY <1>7, <2>4
    <3> QED BY <2>4, <3>1 DEF IInv, RunsOK, HasJob
  <2>5. seen \in {"created", "RUNNING", "ENDED"} => HasJob(o)'
    BY <1>3, <1>10, <2>3, <2>4 DEF Forward
  <2> QED BY <1>9, <2>1, <2>2, <2>5 DEF TickOK
<1> QED BY <1>2, <1>4, <1>9, <1>10, DispatchOnly

LEMMA AttachInv ==
  ASSUME IInv, NEW r \in Replicas, AttachOccurrenceRunId(r)
  PROVE  IInv'
<1>0. tick[r].at = "attach"
  BY DEF AttachOccurrenceRunId
<1>1. PICK o \in Occurrences : o = tick[r].current
  BY <1>0, TickTyped DEF Dispatching
<1>2. /\ UNCHANGED <<clock, schedule, restored, edit, edits, run, job, claim, queueFaults>>
      /\ occurrence' = [occurrence EXCEPT ![o].runId = TRUE]
  BY <1>1 DEF AttachOccurrenceRunId, dispatchUnchanged
<1>3. r \in Callers /\ o \in Jobs
  BY ReplicasCall
<1>4. /\ tick[r].seen # "absent" /\ Created(o)
      /\ tick[r].seen # "PENDING" => Launched(o)
      /\ tick[r].seen \in {"created", "RUNNING", "ENDED"} => HasJob(o)
  BY <1>0, <1>1, TickTyped DEF TickOK
<1>5. tick[r].seen \in RunStates \cup {"created"}
  BY TickTyped
<1>6. occurrence \in [Occurrences -> OccurrenceRecs]
  BY RecordsTyped DEF IInv
<1>7. /\ occurrence' \in [Occurrences -> OccurrenceRecs]
      /\ occurrence'[o].runId = TRUE
      /\ \A p \in Occurrences : /\ occurrence[p].runId => occurrence'[p].runId
                                /\ occurrence'[p].dispatched = occurrence[p].dispatched
  <2>1. PICK x \in OccurrenceRecs : x = [occurrence[o] EXCEPT !.runId = TRUE]
    BY <1>6 DEF OccurrenceRecs
  <2>2. x.runId = TRUE /\ x.dispatched = occurrence[o].dispatched
    BY <1>6, <2>1 DEF OccurrenceRecs
  <2>3. occurrence' = [occurrence EXCEPT ![o] = x]
    BY <1>2, <2>1
  <2> QED BY <1>6, <2>2, <2>3
<1>8. Grows
  BY <1>2, <1>7 DEF Grows, Created, Launched, Linked
<1>9. Linked(o)'
  BY <1>7 DEF Linked
<1>10. PICK at \in Stages : at = AfterAttach(tick[r].seen)
  BY <1>4, <1>5 DEF AfterAttach, Stages, RunStates
<1>11. /\ at \in {"mark", "requeue", "enqueue", "next"}
       /\ at = "mark" => tick[r].seen \in {"created", "RUNNING", "ENDED"}
       /\ at = "enqueue" => tick[r].seen = "QUEUED"
  BY <1>4, <1>5, <1>10 DEF AfterAttach, RunStates
<1>12. PICK c \in CallRecs : /\ Calls(r, c)
                             /\ at = "enqueue" => call'[r].at = "claim" /\ call'[r].job = o
  <2>1. CASE at = "enqueue"
    <3>1. Enqueue(r, o)
      BY <1>1, <1>10, <2>1 DEF AttachOccurrenceRunId
    <3> QED BY <1>2, <1>3, <3>1, CallsEnqueue
  <2>2. CASE at # "enqueue"
    <3>1. UNCHANGED call
      BY <1>10, <2>2 DEF AttachOccurrenceRunId
    <3> QED BY <1>2, <1>3, <2>2, <3>1, CallsNothing DEF queueVars
  <2> QED BY <2>1, <2>2
<1>13. /\ tick' \in [Replicas -> TickRecs] /\ \A q \in Replicas \ {r} : tick'[q] = tick[q]
       /\ tick'[r].at = at /\ (at # "next" => tick'[r].current = o)
  <2>1. CASE at = "next"
    <3>1. Leave(r)
      BY <1>10, <2>1 DEF AttachOccurrenceRunId
    <3> QED BY <2>1, <3>1, LeaveTyped DEF IInv
  <2>2. CASE at # "next"
    <3>1. Go(r, at)
      BY <1>10, <2>2 DEF AttachOccurrenceRunId
    <3> QED BY <1>1, <2>2, <3>1, GoTyped DEF IInv
  <2> QED BY <2>1, <2>2
<1>14. ASSUME Forward PROVE TickOK(tick[r], call[r])'
  <2>1. CASE at = "next"
    BY <1>13, <2>1 DEF TickOK, Dispatching
  <2>2. CASE at = "requeue"
    BY <1>9, <1>13, <2>2 DEF TickOK
  <2>3. CASE at = "enqueue"
    <3>1. Launched(o)'
      BY <1>4, <1>11, <1>14, <2>3 DEF Forward
    <3> QED BY <1>9, <1>12, <1>13, <2>3, <3>1 DEF TickOK
  <2>4. CASE at = "mark"
    <3>1. Launched(o)' /\ HasJob(o)'
      BY <1>3, <1>4, <1>11, <1>14, <2>4 DEF Forward
    <3> QED BY <1>9, <1>13, <2>4, <3>1 DEF TickOK
  <2> QED BY <1>11, <2>1, <2>2, <2>3, <2>4
<1>15. schedule' \in [Schedules -> ScheduleRecs] /\ run \in [Occurrences -> RunStates]
  BY <1>2, RecordsTyped DEF IInv
<1> QED BY <1>2, <1>7, <1>8, <1>12, <1>13, <1>14, <1>15, ReplicaStep

LEMMA EnqueueReturnsInv ==
  ASSUME IInv, NEW r \in Replicas, EnqueueReturns(r)
  PROVE  IInv'
<1>0. tick[r].at = "enqueue" /\ call[r].at \in Answers
  BY DEF EnqueueReturns
<1>1. PICK o \in Occurrences : o = tick[r].current
  BY <1>0, TickTyped DEF Dispatching
<1>2. UNCHANGED <<clock, schedule, restored, edit, edits, occurrence, run, job, claim, queueFaults>>
      /\ Settle(r)
  BY DEF EnqueueReturns, dispatchUnchanged
<1>3. r \in Callers /\ o \in Jobs
  BY ReplicasCall
<1>4. Calls(r, NoCall) /\ NoCall \in CallRecs
  BY <1>0, <1>2, <1>3, CallsSettle DEF Answers
<1>5. call[r].job = o /\ Launched(o) /\ Linked(o)
  BY <1>0, <1>1, TickTyped DEF TickOK
<1>6. CASE call[r].at = "failed"
  <2>1. Leave(r)
    BY <1>6 DEF EnqueueReturns
  <2>2. /\ tick' \in [Replicas -> TickRecs] /\ \A q \in Replicas \ {r} : tick'[q] = tick[q]
        /\ tick'[r].at = "next"
    BY <2>1, LeaveTyped DEF IInv
  <2>3. TickOK(tick[r], call[r])'
    BY <2>2 DEF TickOK, Dispatching
  <2> QED BY <1>2, <1>4, <2>2, <2>3, DispatchOnly
<1>7. CASE call[r].at # "failed"
  <2>1. Go(r, "mark") /\ "mark" \in Stages
    BY <1>7 DEF EnqueueReturns, Stages
  <2>2. /\ tick' \in [Replicas -> TickRecs] /\ \A q \in Replicas \ {r} : tick'[q] = tick[q]
        /\ tick'[r].at = "mark" /\ tick'[r].current = o
    BY <1>1, <2>1, GoTyped DEF IInv
  <2>3. HasJob(o)
    BY <1>0, <1>3, <1>5, <1>7 DEF IInv, CallsOK, CallOK, Answers
  <2>4. ASSUME Forward PROVE TickOK(tick[r], call[r])'
    <3>1. HasJob(o)' /\ Launched(o)' /\ Linked(o)'
      BY <1>3, <1>5, <2>3, <2>4 DEF Forward
    <3> QED BY <2>2, <3>1 DEF TickOK
  <2> QED BY <1>2, <1>4, <2>2, <2>4, DispatchOnly
<1> QED BY <1>6, <1>7

LEMMA MarkInv ==
  ASSUME IInv, NEW r \in Replicas, MarkOccurrenceDispatched(r)
  PROVE  IInv'
<1>0. tick[r].at = "mark"
  BY DEF MarkOccurrenceDispatched
<1>1. PICK o \in Occurrences : o = tick[r].current
  BY <1>0, TickTyped DEF Dispatching
<1>2. /\ UNCHANGED <<clock, schedule, restored, edit, edits, run, queueVars>> /\ Leave(r)
      /\ occurrence' = [occurrence EXCEPT ![o].dispatched = TRUE]
  BY <1>1 DEF MarkOccurrenceDispatched, dispatchUnchanged
<1>3. r \in Callers /\ o \in Jobs
  BY ReplicasCall
<1>4. Linked(o) /\ Launched(o) /\ HasJob(o)
  BY <1>0, <1>1, TickTyped DEF TickOK
<1>5. Calls(r, call[r]) /\ call[r] \in CallRecs
  BY <1>2, <1>3, CallsNothing
<1>6. occurrence \in [Occurrences -> OccurrenceRecs]
  BY RecordsTyped DEF IInv
<1>7. /\ occurrence' \in [Occurrences -> OccurrenceRecs]
      /\ \A p \in Occurrences : /\ occurrence[p].runId => occurrence'[p].runId
                                /\ p # o => occurrence'[p] = occurrence[p]
  <2>1. PICK x \in OccurrenceRecs : x = [occurrence[o] EXCEPT !.dispatched = TRUE]
    BY <1>6 DEF OccurrenceRecs
  <2>2. x.runId = occurrence[o].runId
    BY <1>6, <2>1 DEF OccurrenceRecs
  <2>3. occurrence' = [occurrence EXCEPT ![o] = x]
    BY <1>2, <2>1
  <2> QED BY <1>6, <2>2, <2>3
<1>8. Grows
  BY <1>2, <1>7 DEF Grows, Created, Launched, Linked
<1>9. /\ tick' \in [Replicas -> TickRecs] /\ \A q \in Replicas \ {r} : tick'[q] = tick[q]
      /\ tick'[r].at = "next"
  BY <1>2, LeaveTyped DEF IInv
<1>10. TickOK(tick[r], call[r])'
  BY <1>9 DEF TickOK, Dispatching
<1>11. Forward => (Linked(o) /\ Launched(o) /\ HasJob(o))'
  BY <1>3, <1>4 DEF Forward
<1>12. schedule' \in [Schedules -> ScheduleRecs] /\ run \in [Occurrences -> RunStates]
  BY <1>2, RecordsTyped DEF IInv
<1>13. ASSUME NEW p \in Occurrences, occurrence'[p].dispatched
       PROVE  occurrence[p].dispatched \/ (Forward => (Linked(p) /\ Launched(p) /\ HasJob(p))')
  BY <1>7, <1>11, <1>13
<1> QED BY <1>2, <1>5, <1>7, <1>8, <1>9, <1>10, <1>12, <1>13, ReplicaStep

LEMMA DispatchFailsInv ==
  ASSUME IInv, NEW r \in Replicas, DispatchFails(r)
  PROVE  IInv'
<1>1. /\ UNCHANGED <<clock, schedule, restored, edit, edits, occurrence, run, job, claim, call>>
      /\ Leave(r) /\ QueueFault
  BY DEF DispatchFails, dispatchUnchanged
<1>2. Calls(r, call[r]) /\ call[r] \in CallRecs
  BY <1>1, ReplicasCall, CallsFault
<1>3. /\ tick' \in [Replicas -> TickRecs] /\ \A q \in Replicas \ {r} : tick'[q] = tick[q]
      /\ tick'[r].at = "next"
  BY <1>1, LeaveTyped DEF IInv
<1>4. TickOK(tick[r], call[r])'
  BY <1>3 DEF TickOK, Dispatching
<1> QED BY <1>1, <1>2, <1>3, <1>4, DispatchOnly

LEMMA TickDiesInv ==
  ASSUME IInv, NEW r \in Replicas, TickDies(r)
  PROVE  IInv'
<1>1. /\ UNCHANGED <<clock, schedule, restored, edit, edits, occurrence, run, job, claim>>
      /\ Settle(r) /\ QueueFault /\ tick' = [tick EXCEPT ![r] = Idle]
  BY DEF TickDies, dispatchUnchanged
<1>2. Calls(r, NoCall) /\ NoCall \in CallRecs
  BY <1>1, ReplicasCall, CallsSettle
<1>3. /\ tick' \in [Replicas -> TickRecs] /\ \A q \in Replicas \ {r} : tick'[q] = tick[q]
      /\ tick'[r].at = "idle"
  BY <1>1, RecordsTyped, IdleTyped DEF IInv
<1>4. TickOK(tick[r], call[r])'
  BY <1>3 DEF TickOK, Dispatching
<1> QED BY <1>1, <1>2, <1>3, <1>4, DispatchOnly

-----------------------------------------------------------------------------
(* The steps of the queue and of the recovery ticker *)

LEMMA CallerStep ==
  ASSUME IInv, NEW b \in Callers, NEW c \in CallRecs, call' = [call EXCEPT ![b] = c],
         UNCHANGED <<clock, tables, tick, edit, edits>>,
         job' \in [Jobs -> BOOLEAN], claim' \in [Jobs -> {"none", "fresh", "stale"}],
         queueFaults' \in 0 .. MaxQueueFaults, Forward,
         c = call[b] \/ CallOK(c)',
         b \in Recoverers \/ (call[b].at # "none" => c.at # "none" /\ c.job = call[b].job),
         \A j \in Jobs : claim'[j] # "none" => claim[j] # "none" \/ HasJob(j)'
  PROVE  IInv'
<1>1. /\ call' \in [Callers -> CallRecs] /\ call'[b] = c
      /\ \A d \in Callers \ {b} : call'[d] = call[d]
  BY OneCall DEF IInv
<1>2. UNCHANGED <<schedule, restored, occurrence, run, tick>>
  BY DEF tables
<1>3. TypeOK'
  <2>1. /\ clock' \in 0 .. MaxTime /\ edits' \in 0 .. MaxEdits
        /\ edit' \in [Editors -> EditRecs] /\ schedule' \in [Schedules -> ScheduleRecs]
        /\ occurrence' \in [Occurrences -> OccurrenceRecs] /\ run' \in [Occurrences -> RunStates]
        /\ tick' \in [Replicas -> TickRecs] /\ restored' \subseteq Occurrences
    BY <1>2, RecordsTyped DEF IInv, TypeOK
  <2> QED BY <1>1, <2>1, TypeOKNext
<1>4. \A d \in Callers : call'[d] = call[d] \/ CallOK(call[d])'
  BY <1>1
<1>5. ASSUME NEW r \in Replicas
      PROVE  \/ tick'[r] = tick[r] /\ call'[r] = call[r]
             \/ TickOK(tick[r], call[r])'
  <2>1. CASE r = b
    <3>1. PICK t \in TickRecs : t = tick[r] /\ TickOK(t, call[b])
      BY <2>1, TickTyped
    <3>2. t.at \in {"createEnqueue", "enqueue"} => c.at # "none" /\ c.job = call[b].job
      BY <2>1, <3>1, ReplicasCall DEF TickOK
    <3>3. TickOK(t, c)
      BY <3>1, <3>2, TickWith
    <3>4. TickOK(t, c)'
      BY <3>3, TickKept
    <3> QED BY <1>1, <1>2, <2>1, <3>1, <3>4
  <2>2. CASE r # b
    BY <1>1, <1>2, <2>2, ReplicasCall
  <2> QED BY <2>1, <2>2
<1> QED BY <1>2, <1>3, <1>4, <1>5, AnyStep

LEMMA RowsStill ==
  ASSUME UNCHANGED tables
  PROVE  Grows
BY DEF tables, Grows, Created, Launched, Linked

(* A recovery ticker enters or leaves a call. *)
LEMMA RepairStepInv ==
  ASSUME IInv, NEW b \in Recoverers, NEW c \in CallRecs, Calls(b, c),
         UNCHANGED <<clock, tables, tick, edit, edits>>
  PROVE  IInv'
<1>1. b \in Callers
  BY ReplicasCall
<1>2. Forward
  BY <1>1, RowsStill, ReplicaForward
<1>3. c = call[b] \/ CallOK(c)'
  BY DEF Calls, CallOK
<1>4. job \in [Jobs -> BOOLEAN] /\ claim \in [Jobs -> {"none", "fresh", "stale"}]
  BY DEF IInv, TypeOK, QueueTypeOK
<1> QED BY <1>1, <1>2, <1>3, <1>4, CallerStep DEF Calls

LEMMA RecovererInv ==
  ASSUME IInv, NEW b \in Recoverers, RepairStep(b) \/ RepairDies(b)
  PROVE  IInv'
<1>1. b \in Callers
  BY ReplicasCall
<1>2. CASE RepairReturns(b)
  <2>1. call[b].at # "add" /\ Settle(b)
        /\ UNCHANGED <<clock, tables, tick, edit, edits, job, claim, queueFaults>>
    BY <1>2 DEF RepairReturns, Answers
  <2>2. Calls(b, NoCall) /\ NoCall \in CallRecs
    BY <1>1, <2>1, CallsSettle
  <2> QED BY <2>1, <2>2, RepairStepInv
<1>3. ASSUME NEW o \in Occurrences, RepairQueuedDelivery(b, o) PROVE IInv'
  <2>1. Enqueue(b, o) /\ o \in Jobs
        /\ UNCHANGED <<clock, tables, tick, edit, edits, job, claim, queueFaults>>
    BY <1>3, ReplicasCall DEF RepairQueuedDelivery
  <2>2. Calls(b, Call("claim", o, 0)) /\ Call("claim", o, 0) \in CallRecs
    BY <1>1, <2>1, CallsEnqueue
  <2> QED BY <2>1, <2>2, RepairStepInv
<1>4. CASE RepairDies(b)
  <2>1. QueueFault /\ Settle(b) /\ UNCHANGED <<clock, tables, tick, edit, edits, job, claim>>
    BY <1>4 DEF RepairDies
  <2>2. Calls(b, NoCall) /\ NoCall \in CallRecs
    BY <1>1, <2>1, CallsSettle
  <2> QED BY <2>1, <2>2, RepairStepInv
<1> QED BY <1>2, <1>3, <1>4 DEF RepairStep

QueueOnly == UNCHANGED <<clock, tables, tick, edit, edits>>

LEMMA ClaimTyped == ASSUME IInv PROVE claim \in [Jobs -> {"none", "fresh", "stale"}]
BY DEF IInv, TypeOK, QueueTypeOK

(* The call a caller is in. *)
LEMMA CallerTyped ==
  ASSUME IInv, NEW b \in Callers, call[b].at # "none"
  PROVE  /\ call[b] \in CallRecs /\ call[b].job \in Jobs
         /\ call[b].at \in {"claim", "add"} => call[b].tries \in 0 .. MaxTries - 1
<1>1. call[b] \in CallRecs
  BY RecordsTyped DEF IInv
<1> QED BY <1>1, CallJob

LEMMA AcquireInv ==
  ASSUME IInv, NEW b \in Callers, AcquireEnqueueClaim(b), QueueOnly
  PROVE  IInv'
<1>0. call[b].at = "claim" /\ UNCHANGED <<job, queueFaults>>
  BY DEF AcquireEnqueueClaim
<1>1. PICK j \in Jobs : j = call[b].job
  BY <1>0, CallerTyped
<1>2. PICK n \in 0 .. MaxTries - 1 : n = call[b].tries
  BY <1>0, CallerTyped
<1>3. claim \in [Jobs -> {"none", "fresh", "stale"}] /\ job \in [Jobs -> BOOLEAN]
  BY ClaimTyped, RecordsTyped DEF IInv
<1>4. ASSUME NEW c \in CallRecs, call' = [call EXCEPT ![b] = c]
      PROVE  Forward
  <2>1. \A d \in Callers : call[d].at = "add" => call'[d] = call[d]
    BY <1>0, <1>4, OneCall DEF IInv
  <2>2. queueFaults \in Nat /\ queueFaults <= queueFaults /\ queueFaults' = queueFaults
    BY <1>0, FaultsTyped
  <2>3. \A k \in Jobs : HasJob(k) => HasJob(k)'
    BY <1>0, <2>1, <2>2, HasJobKept
  <2>4. Grows
    BY RowsStill DEF QueueOnly
  <2> QED BY <1>0, <2>3, <2>4 DEF Forward, Grows
<1>5. queueFaults' \in 0 .. MaxQueueFaults /\ job' \in [Jobs -> BOOLEAN]
  BY <1>0, <1>3, FaultsTyped
<1>6. CASE job[j] \/ claim[j] = "fresh"
  <2>1. PICK c \in CallRecs : /\ c = Answer("already_present", j)
                              /\ c.at = "already_present" /\ c.job = j
    BY CallTyped DEF Answers
  <2>2. call' = [call EXCEPT ![b] = c] /\ claim' = [claim EXCEPT ![j] = claim[j]]
    BY <1>1, <1>6, <2>1 DEF AcquireEnqueueClaim, ClaimInFlight
  <2>3. claim' = claim
    BY <1>3, <2>2
  <2>4. HasJob(j)
    BY <1>6 DEF IInv, ClaimsOK, HasJob
  <2>5. Forward
    BY <1>4, <2>2
  <2>6. CallOK(c)'
    BY <2>1, <2>4, <2>5 DEF CallOK, Forward
  <2> QED BY <1>1, <1>3, <1>5, <2>1, <2>2, <2>3, <2>5, <2>6, CallerStep DEF QueueOnly
<1>7. CASE ~job[j] /\ claim[j] = "stale"
  <2>1. PICK c \in CallRecs :
          /\ c = IF n + 1 < MaxTries THEN Call("claim", j, n + 1) ELSE Answer("already_present", j)
          /\ c.at \in {"claim", "already_present"} /\ c.job = j
    <3>1. n + 1 < MaxTries => n + 1 \in 0 .. MaxTries - 1
      BY <1>2
    <3>2. CASE n + 1 < MaxTries
      <4>1. PICK m \in 0 .. MaxTries - 1 : m = n + 1
        BY <3>1, <3>2
      <4>2. Call("claim", j, m) \in CallRecs /\ Call("claim", j, m).at = "claim"
            /\ Call("claim", j, m).job = j
        BY CallTyped
      <4> QED BY <3>2, <4>1, <4>2
    <3>3. CASE ~(n + 1 < MaxTries)
      <4>1. Answer("already_present", j) \in CallRecs
            /\ Answer("already_present", j).at = "already_present"
            /\ Answer("already_present", j).job = j
        BY CallTyped DEF Answers
      <4> QED BY <3>3, <4>1
    <3> QED BY <3>2, <3>3
  <2>2. call' = [call EXCEPT ![b] = c] /\ claim' = [claim EXCEPT ![j] = "none"]
    BY <1>1, <1>2, <1>7, <2>1 DEF AcquireEnqueueClaim, ClaimInFlight
  <2>3. /\ claim' \in [Jobs -> {"none", "fresh", "stale"}]
        /\ \A k \in Jobs : claim'[k] # "none" => claim[k] # "none"
    BY <1>3, <2>2
  <2>4. HasJob(j)
    BY <1>7 DEF IInv, ClaimsOK
  <2>5. Forward
    BY <1>4, <2>2
  <2>6. CallOK(c)'
    BY <2>1, <2>4, <2>5 DEF CallOK, Forward
  <2> QED BY <1>1, <1>5, <2>1, <2>2, <2>3, <2>5, <2>6, CallerStep DEF QueueOnly
<1>8. CASE ~job[j] /\ claim[j] = "none"
  <2>1. PICK c \in CallRecs : c = Call("add", j, n) /\ c.at = "add" /\ c.job = j
    BY CallTyped
  <2>2. call' = [call EXCEPT ![b] = c] /\ claim' = [claim EXCEPT ![j] = "fresh"]
    BY <1>1, <1>2, <1>8, <2>1 DEF AcquireEnqueueClaim, ClaimInFlight
  <2>3. call'[b] = c
    BY <2>2, OneCall DEF IInv
  <2>4. HasJob(j)'
    BY <2>1, <2>3 DEF HasJob, IsAdding
  <2>5. /\ claim' \in [Jobs -> {"none", "fresh", "stale"}]
        /\ \A k \in Jobs : claim'[k] # "none" => claim[k] # "none" \/ HasJob(k)'
    BY <1>3, <2>2, <2>4
  <2>6. Forward
    BY <1>4, <2>2
  <2>7. CallOK(c)'
    BY <2>1 DEF CallOK
  <2> QED BY <1>1, <1>5, <2>1, <2>2, <2>5, <2>6, <2>7, CallerStep DEF QueueOnly
<1> QED BY <1>3, <1>6, <1>7, <1>8

(* A caller is answered: the job is there, or something has failed. *)
LEMMA AnswerInv ==
  ASSUME IInv, NEW b \in Callers, QueueOnly, call[b].at # "none",
         NEW c \in CallRecs, call' = [call EXCEPT ![b] = c], c.at # "none", c.job = call[b].job,
         job' \in [Jobs -> BOOLEAN], \A j \in Jobs : job[j] => job'[j],
         claim' \in [Jobs -> {"none", "fresh", "stale"}],
         \A j \in Jobs : claim'[j] # "none" => claim[j] # "none",
         queueFaults' \in 0 .. MaxQueueFaults, queueFaults <= queueFaults',
         queueFaults' > 0 \/ job'[c.job]
  PROVE  IInv'
<1>1. /\ call'[b] = c
      /\ \A d \in Callers \ {b} : call'[d] = call[d]
  BY OneCall DEF IInv
<1>2. \A d \in Callers : call[d].at = "add" =>
        \/ call'[d].at = "add" /\ call'[d].job = call[d].job
        \/ job'[call[d].job]
        \/ queueFaults' > 0
  BY <1>1
<1>3. queueFaults \in Nat /\ queueFaults' \in Nat
  BY FaultsTyped
<1>4. \A k \in Jobs : HasJob(k) => HasJob(k)'
  BY <1>2, <1>3, HasJobKept
<1>5. Forward
  BY <1>4, RowsStill DEF Forward, Grows, QueueOnly
<1>6. CallOK(c)'
  BY DEF CallOK, HasJob
<1> QED BY <1>5, <1>6, CallerStep DEF QueueOnly

LEMMA AddJobInv ==
  ASSUME IInv, NEW b \in Callers, AddJob(b), QueueOnly
  PROVE  IInv'
<1>0. call[b].at = "add" /\ UNCHANGED <<claim, queueFaults>>
  BY DEF AddJob
<1>1. PICK j \in Jobs : j = call[b].job
  BY <1>0, CallerTyped
<1>2. PICK c \in CallRecs : c = Answer("enqueued", j) /\ c.at = "enqueued" /\ c.job = j
  BY CallTyped DEF Answers
<1>3. call' = [call EXCEPT ![b] = c] /\ job' = [job EXCEPT ![j] = TRUE]
  BY <1>1, <1>2 DEF AddJob
<1>4. /\ job' \in [Jobs -> BOOLEAN] /\ job'[j] /\ \A k \in Jobs : job[k] => job'[k]
  BY <1>3, RecordsTyped DEF IInv
<1>5. queueFaults' \in 0 .. MaxQueueFaults /\ queueFaults <= queueFaults'
  BY <1>0, FaultsTyped
<1> QED BY <1>0, <1>1, <1>2, <1>3, <1>4, <1>5, ClaimTyped, AnswerInv

LEMMA QueueFailsInv ==
  ASSUME IInv, NEW b \in Callers, AddFails(b) \/ ClaimFails(b), QueueOnly
  PROVE  IInv'
<1>0. call[b].at \in {"add", "claim"} /\ QueueFault
  BY DEF AddFails, ClaimFails
<1>1. PICK j \in Jobs : j = call[b].job
  BY <1>0, CallerTyped
<1>2. PICK c \in CallRecs : c = Answer("failed", j) /\ c.at = "failed" /\ c.job = j
  BY CallTyped DEF Answers
<1>3. /\ call' = [call EXCEPT ![b] = c]
      /\ UNCHANGED job \/ job' = [job EXCEPT ![j] = TRUE]
      /\ UNCHANGED claim \/ claim' = [claim EXCEPT ![j] = "none"]
  BY <1>1, <1>2 DEF AddFails, ClaimFails
<1>4. /\ job' \in [Jobs -> BOOLEAN] /\ \A k \in Jobs : job[k] => job'[k]
  BY <1>3, RecordsTyped DEF IInv
<1>5. /\ claim' \in [Jobs -> {"none", "fresh", "stale"}]
      /\ \A k \in Jobs : claim'[k] # "none" => claim[k] # "none"
  BY <1>3, ClaimTyped
<1>6. queueFaults' \in 0 .. MaxQueueFaults /\ queueFaults <= queueFaults' /\ queueFaults' > 0
  BY <1>0, FaultsTyped
<1> QED BY <1>0, <1>1, <1>2, <1>3, <1>4, <1>5, <1>6, AnswerInv

-----------------------------------------------------------------------------
(* The steps that touch no call. *)

LEMMA CallsStill ==
  ASSUME IInv, UNCHANGED <<job, call, queueFaults>>, Grows
  PROVE  Forward
<1>1. queueFaults \in Nat /\ queueFaults <= queueFaults
  BY FaultsTyped
<1>2. \A j \in Jobs : HasJob(j) => HasJob(j)'
  BY DEF HasJob, IsAdding
<1> QED BY <1>2 DEF Forward, Grows

LEMMA StillStep ==
  ASSUME IInv, TypeOK', Grows, UNCHANGED <<tick, job, call, queueFaults>>,
         \A o \in Occurrences :
           run'[o] \in {"RUNNING", "INTERRUPTED", "ENDED"} =>
             run[o] \in {"RUNNING", "INTERRUPTED", "ENDED"} \/ job[o],
         \A j \in Jobs : claim'[j] # "none" => claim[j] # "none",
         \A o \in Occurrences : occurrence'[o].dispatched => occurrence[o].dispatched
  PROVE  IInv'
<1>1. Forward
  BY CallsStill
<1> QED BY <1>1, AnyStep

LEMMA ClaimAgesInv ==
  ASSUME IInv, NEW j \in Jobs, ClaimAges(j), QueueOnly
  PROVE  IInv'
<1>1. /\ claim[j] # "none" /\ UNCHANGED <<job, call, queueFaults>>
      /\ claim' = [claim EXCEPT ![j] = IF claim[j] = "fresh" THEN "stale" ELSE "none"]
  BY DEF ClaimAges
<1>2. /\ claim' \in [Jobs -> {"none", "fresh", "stale"}]
      /\ \A k \in Jobs : claim'[k] # "none" => claim[k] # "none"
  BY <1>1, ClaimTyped
<1>3. UNCHANGED <<clock, schedule, restored, occurrence, run, tick, edit, edits>>
  BY DEF QueueOnly, tables
<1>4. TypeOK'
  BY <1>1, <1>2, <1>3 DEF IInv, TypeOK, QueueTypeOK
<1>5. Grows
  BY RowsStill DEF QueueOnly
<1> QED BY <1>1, <1>2, <1>3, <1>4, <1>5, StillStep

LEMMA QueueInv ==
  ASSUME IInv, Queue
  PROVE  IInv'
<1>1. QueueOnly
  BY DEF Queue, QueueOnly
<1>2. \/ \E b \in Callers : \/ AcquireEnqueueClaim(b) \/ AddJob(b)
                            \/ AddFails(b) \/ ClaimFails(b)
      \/ \E j \in Jobs : ClaimAges(j)
  BY DEF Queue, QueueStep, CallStep
<1> QED BY <1>1, <1>2, AcquireInv, AddJobInv, QueueFailsInv, ClaimAgesInv

-----------------------------------------------------------------------------
(* Edits, time, and the execution of the Runs *)

LEMMA ReadTyped ==
  ASSUME TypeOK, NEW e \in Editors, NEW s \in Schedules, ReadSchedule(e, s)
  PROVE  edit' \in [Editors -> EditRecs] /\ edits' \in 0 .. MaxEdits
<1>1. PICK x \in EditRecs : x = [at |-> "compute", schedule |-> s,
                                 enabled |-> schedule[s].enabled,
                                 nextRunAt |-> schedule[s].nextRunAt]
  BY RecordsTyped DEF EditRecs, ScheduleRecs
<1>2. edit' = [edit EXCEPT ![e] = x] /\ edit \in [Editors -> EditRecs]
  BY <1>1, RecordsTyped DEF ReadSchedule
<1>3. edits' \in 0 .. MaxEdits
  BY DEF ReadSchedule, TypeOK
<1> QED BY <1>2, <1>3

(* A step of an editor that writes no row. *)
LEMMA EditStep ==
  ASSUME IInv, edit' \in [Editors -> EditRecs], edits' \in 0 .. MaxEdits,
         UNCHANGED <<clock, tables, tick, queueVars>>
  PROVE  IInv'
<1>1. UNCHANGED <<clock, schedule, restored, occurrence, run, tick, job, claim, call,
                  queueFaults>>
  BY DEF tables, queueVars
<1>2. TypeOK'
  BY <1>1 DEF IInv, TypeOK, QueueTypeOK, EditRecs
<1>3. Grows
  BY <1>1, RowsStill DEF tables
<1> QED BY <1>1, <1>2, <1>3, StillStep

LEMMA ReadInv ==
  ASSUME IInv, NEW e \in Editors, NEW s \in Schedules, ReadSchedule(e, s)
  PROVE  IInv'
BY ReadTyped, EditStep DEF IInv, ReadSchedule

LEMMA ComputeTyped ==
  ASSUME TypeOK, NEW e \in Editors, NEW change \in {"rename", "enable", "disable", "recron"},
         ComputeUpdate(e, change)
  PROVE  edit' \in [Editors -> EditRecs]
<1>1. edit \in [Editors -> EditRecs] /\ edit[e] \in EditRecs
  BY RecordsTyped
<1>2. PICK b \in BOOLEAN : b = CASE change = "enable" -> TRUE
                                 [] change = "disable" -> FALSE
                                 [] change \in {"recron", "rename"} -> edit[e].enabled
  BY <1>1 DEF EditRecs
<1>3. clock + 1 \in Instants
  BY DEF TypeOK, Instants
<1>4. PICK n \in Instants \cup {None} :
             n = IF ~b THEN None
                 ELSE IF change = "rename" THEN edit[e].nextRunAt
                 ELSE clock + 1
  BY <1>1, <1>3 DEF EditRecs
<1>5. PICK x \in EditRecs :
             x = [edit[e] EXCEPT !.enabled = b, !.nextRunAt = n, !.at = "write"]
  BY <1>1 DEF EditRecs
<1>6. x = [Updated(edit[e], change, clock) EXCEPT !.at = "write"]
  BY <1>2, <1>4, <1>5 DEF Updated, nextCronInstantAfter
<1> QED BY <1>1, <1>5, <1>6 DEF ComputeUpdate

LEMMA ComputeInv ==
  ASSUME IInv, NEW e \in Editors, NEW change \in {"rename", "enable", "disable", "recron"},
         ComputeUpdate(e, change)
  PROVE  IInv'
<1>1. edits' \in 0 .. MaxEdits /\ UNCHANGED <<clock, tables, tick, queueVars>>
  BY DEF ComputeUpdate, IInv, TypeOK
<1> QED BY <1>1, ComputeTyped, EditStep DEF IInv

LEMMA UpdateTyped ==
  ASSUME TypeOK, NEW e \in Editors, UpdateSchedule(e)
  PROVE  /\ schedule' \in [Schedules -> ScheduleRecs] /\ edit' \in [Editors -> EditRecs]
         /\ restored \subseteq restored' /\ restored' \subseteq Occurrences
         /\ \A s \in Schedules :
              IF s = edit[e].schedule
                THEN /\ schedule'[s].nextRunAt = edit[e].nextRunAt
                     /\ edit[e].nextRunAt # None =>
                          PutBack(s, edit[e].nextRunAt) \subseteq restored'
                ELSE schedule'[s] = schedule[s]
<1>1. edit[e] \in EditRecs /\ schedule \in [Schedules -> ScheduleRecs]
      /\ edit \in [Editors -> EditRecs] /\ restored \subseteq Occurrences
  BY RecordsTyped
<1>2. PICK x \in ScheduleRecs : x = [enabled |-> edit[e].enabled, nextRunAt |-> edit[e].nextRunAt]
  BY <1>1 DEF EditRecs, ScheduleRecs
<1>3. schedule' = [schedule EXCEPT ![edit[e].schedule] = x] /\ edit' = [edit EXCEPT ![e] = NoEdit]
  BY <1>2 DEF UpdateSchedule
<1>4. x.nextRunAt = edit[e].nextRunAt
  BY <1>2
<1>5. restored' = restored \cup (IF edit[e].nextRunAt = None THEN {}
                                 ELSE PutBack(edit[e].schedule, edit[e].nextRunAt))
  BY DEF UpdateSchedule
<1>6. PutBack(edit[e].schedule, edit[e].nextRunAt) \subseteq Occurrences
  BY DEF PutBack
<1> QED BY <1>1, <1>3, <1>4, <1>5, <1>6, IdleTyped

LEMMA UpdateInv ==
  ASSUME IInv, NEW e \in Editors, UpdateSchedule(e)
  PROVE  IInv'
<1>1. UNCHANGED <<clock, occurrence, run, tick, edits, job, claim, call, queueFaults>>
  BY DEF UpdateSchedule, queueVars
<1>2. /\ edit' \in [Editors -> EditRecs] /\ schedule' \in [Schedules -> ScheduleRecs]
      /\ restored' \subseteq Occurrences
  BY UpdateTyped DEF IInv
<1>3. TypeOK'
  BY <1>1, <1>2 DEF IInv, TypeOK, QueueTypeOK, EditRecs, ScheduleRecs
<1>4. Grows
  BY <1>1 DEF Grows, Created, Launched, Linked
<1> QED BY <1>1, <1>3, <1>4, StillStep

LEMMA AdvanceInv ==
  ASSUME IInv, Advance
  PROVE  IInv'
<1>1. UNCHANGED <<schedule, restored, occurrence, run, tick, edit, edits, job, claim, call,
                  queueFaults>>
  BY DEF Advance, tables, queueVars
<1>2. clock' \in 0 .. MaxTime
  BY DEF Advance, IInv, TypeOK
<1>3. TypeOK'
  BY <1>1, <1>2 DEF IInv, TypeOK, QueueTypeOK
<1>4. Grows
  BY <1>1 DEF Grows, Created, Launched, Linked
<1> QED BY <1>1, <1>3, <1>4, StillStep

LEMMA RunMovesInv ==
  ASSUME IInv, NEW o \in Occurrences,
         RunStarts(o) \/ RunEnds(o) \/ RunInterrupted(o) \/ RunRecovered(o)
  PROVE  IInv'
<1>1. PICK to \in {"QUEUED", "RUNNING", "INTERRUPTED", "ENDED"} :
        /\ run[o] \notin {"absent", "PENDING"}
        /\ run' = [run EXCEPT ![o] = to]
        /\ run[o] \in {"RUNNING", "INTERRUPTED", "ENDED"} \/ job[o]
  BY DEF RunStarts, RunEnds, RunInterrupted, RunRecovered, RunMoves
<1>2. UNCHANGED <<clock, schedule, restored, occurrence, tick, edit, edits, job, claim, call,
                  queueFaults>>
  BY DEF RunStarts, RunEnds, RunInterrupted, RunRecovered, RunMoves, queueVars
<1>3. run \in [Occurrences -> RunStates] /\ to \in RunStates
  BY RecordsTyped DEF IInv, RunStates
<1>4. /\ run' \in [Occurrences -> RunStates] /\ run'[o] = to
      /\ \A p \in Occurrences : p # o => run'[p] = run[p]
  BY <1>1, <1>3
<1>5. TypeOK'
  BY <1>2, <1>4 DEF IInv, TypeOK, QueueTypeOK
<1>6. Grows
  BY <1>1, <1>2, <1>4 DEF Grows, Created, Launched, Linked
<1> QED BY <1>1, <1>2, <1>4, <1>5, <1>6, StillStep

-----------------------------------------------------------------------------
(* The invariant *)

LEMMA InitInv ==
  ASSUME Init
  PROVE  IInv
<1>1. TypeOK
  <2>1. schedule \in [Schedules -> ScheduleRecs]
    BY DEF Init, ScheduleRecs, Instants, nextCronInstantAfter
  <2>2. tick \in [Replicas -> TickRecs] /\ occurrence \in [Occurrences -> OccurrenceRecs]
        /\ edit \in [Editors -> EditRecs] /\ restored \subseteq Occurrences
    BY IdleTyped DEF Init
  <2>3. call \in [Callers -> CallRecs]
    BY CallTyped DEF Init, QueueInit
  <2>4. QueueTypeOK
    BY <2>3 DEF Init, QueueInit, QueueTypeOK, CallRecs, PendingCalls, AnsweredCalls
  <2>5. run \in [Occurrences -> RunStates] /\ clock \in 0 .. MaxTime /\ edits \in 0 .. MaxEdits
    BY DEF Init, RunStates
  <2> QED BY <2>1, <2>2, <2>4, <2>5
          DEF TypeOK, TickRecs, OccurrenceRecs, ScheduleRecs, EditRecs
<1>2. \A o \in Occurrences : run[o] = "absent" /\ occurrence[o] = NoOccurrence
  BY DEF Init
<1>3. \A j \in Jobs : claim[j] = "none"
  BY DEF Init, QueueInit
<1>4. \A c \in Callers : call[c] = NoCall
  BY DEF Init, QueueInit
<1>5. \A r \in Replicas : tick[r] = Idle
  BY DEF Init
<1>6. RunsOK /\ ClaimsOK
  BY <1>2, <1>3 DEF RunsOK, ClaimsOK
<1>7. CallsOK
  BY <1>4, CallTyped DEF CallsOK, CallOK
<1>8. TicksOK
  BY <1>5, IdleTyped DEF TicksOK, TickOK, Dispatching
<1>9. DispatchedOK
  BY <1>2, IdleTyped DEF DispatchedOK
<1> QED BY <1>1, <1>6, <1>7, <1>8, <1>9 DEF IInv

LEMMA StutterInv ==
  ASSUME IInv, UNCHANGED vars
  PROVE  IInv'
<1>1. UNCHANGED <<clock, schedule, restored, occurrence, run, tick, edit, edits, job, claim, call,
                  queueFaults>>
  BY DEF vars, tables, queueVars
<1>2. TypeOK'
  BY <1>1 DEF IInv, TypeOK, QueueTypeOK
<1>3. Grows
  BY <1>1 DEF Grows, Created, Launched, Linked
<1> QED BY <1>1, <1>2, <1>3, StillStep

LEMMA DispatchStepInv ==
  ASSUME IInv, NEW r \in Replicas, DispatchStep(r)
  PROVE  IInv'
BY FindRunInv, CreateScheduledRunInv, QueueRunInv, CreateRunReturnsInv, AttachInv,
   EnqueueReturnsInv, MarkInv DEF DispatchStep

LEMMA NextInv ==
  ASSUME IInv, [Next]_vars
  PROVE  IInv'
<1>1. ASSUME NEW r \in Replicas, TickStep(r) \/ DispatchFails(r) \/ TickDies(r) PROVE IInv'
  BY <1>1, StartTickInv, MaterializeDueInv, NothingDueInv, ListUndispatchedInv, EndTickInv,
     DispatchStepInv, DispatchFailsInv, TickDiesInv DEF TickStep
<1>2. ASSUME NEW c \in Recoverers, RepairStep(c) \/ RepairDies(c) PROVE IInv'
  BY <1>2, RecovererInv
<1>3. ASSUME NEW e \in Editors,
             \/ \E s \in Schedules : ReadSchedule(e, s)
             \/ \E change \in {"rename", "enable", "disable", "recron"} :
                  ComputeUpdate(e, change)
             \/ UpdateSchedule(e)
      PROVE  IInv'
  BY <1>3, ReadInv, ComputeInv, UpdateInv
<1>4. ASSUME NEW o \in Occurrences,
             RunStarts(o) \/ RunEnds(o) \/ RunInterrupted(o) \/ RunRecovered(o)
      PROVE  IInv'
  BY <1>4, RunMovesInv
<1> QED BY <1>1, <1>2, <1>3, <1>4, QueueInv, AdvanceInv, StutterInv DEF Next

LEMMA Invariant == Spec => []IInv
<1>1. Init => IInv
  BY InitInv
<1>2. IInv /\ [Next]_vars => IInv'
  BY NextInv
<1> QED BY <1>1, <1>2, PTL DEF Spec

(* The variables of the scheduler and of the queue stay in their types.    *)
THEOREM DispatchTyped == Spec => []TypeOK
<1>1. IInv => TypeOK
  BY DEF IInv
<1> QED BY <1>1, Invariant, PTL

(* An occurrence is given up by the scheduler only when its Run is linked  *)
(* and under way, whatever replicas and recovery tickers race to enqueue   *)
(* it.                                                                     *)
THEOREM DispatchedStaysDelivered == Spec => []DispatchedIsDelivered
<1>1. IInv => DispatchedIsDelivered
  <2>1. ASSUME IInv, NEW o \in Occurrences, occurrence[o].dispatched
        PROVE  /\ occurrence[o].runId
               /\ run[o] \notin {"absent", "PENDING"}
               /\ run[o] = "QUEUED" => job[o] \/ IsAdding(o) \/ queueFaults > 0
    <3>1. Linked(o) /\ Launched(o) /\ HasJob(o)
      BY <2>1 DEF IInv, DispatchedOK
    <3> QED BY <3>1 DEF Linked, Launched, HasJob
  <2> QED BY <2>1 DEF DispatchedIsDelivered
<1> QED BY <1>1, Invariant, PTL

-----------------------------------------------------------------------------
(* Coalescing: the next instant of a Schedule lies after all creations of  *)
(* its occurrences, or is materialized, in which case the unique violation *)
(* stops the tick, or has been put back by an edit.                        *)

CreationsKept ==
  \A o \in Occurrences : occurrence'[o].createdAt = occurrence[o].createdAt

LEMMA DoneKept ==
  ASSUME CreationsKept, NEW s \in Schedules, NEW n
  PROVE  /\ IsDone(s, n)' <=> IsDone(s, n)
         /\ IsAhead(s, n)' <=> IsAhead(s, n)
<1>1. \A t \in 1 .. MaxTime : <<s, t>> \in Occurrences
  BY DEF Occurrences
<1> QED BY <1>1 DEF CreationsKept, IsDone, IsAhead, Exists

(* A step that creates no occurrence and edits no Schedule. *)
LEMMA CoalesceStill ==
  ASSUME TypeOK, TypeOK', CoalesceInv, CreationsKept,
         UNCHANGED <<schedule, restored, edit, edits>>,
         clock <= clock', \A r \in Replicas : tick'[r].now <= clock'
  PROVE  CoalesceInv'
<1>1. \A s \in Schedules, t \in 1 .. MaxTime :
        /\ occurrence'[<<s, t>>].createdAt = occurrence[<<s, t>>].createdAt
        /\ occurrence[<<s, t>>].createdAt \in (0 .. MaxTime) \cup {None}
  <2>1. ASSUME NEW s \in Schedules, NEW t \in 1 .. MaxTime
        PROVE  /\ occurrence'[<<s, t>>].createdAt = occurrence[<<s, t>>].createdAt
               /\ occurrence[<<s, t>>].createdAt \in (0 .. MaxTime) \cup {None}
    <3>1. PICK o \in Occurrences : o = <<s, t>>
      BY DEF Occurrences
    <3>2. occurrence[o] \in OccurrenceRecs
      BY RecordsTyped
    <3> QED BY <3>1, <3>2 DEF CreationsKept, OccurrenceRecs
  <2> QED BY <2>1
<1>2. clock \in Nat /\ clock' \in Nat
  BY DEF TypeOK
<1>3. InstantsOK'
  <2>1. ASSUME NEW s \in Schedules, NEW t \in 1 .. MaxTime, Exists(<<s, t>>)'
        PROVE  (t <= occurrence[<<s, t>>].createdAt /\ occurrence[<<s, t>>].createdAt <= clock)'
    <3>1. Exists(<<s, t>>)
      BY <1>1, <2>1 DEF Exists
    <3>2. t <= occurrence[<<s, t>>].createdAt /\ occurrence[<<s, t>>].createdAt <= clock
      BY <3>1 DEF CoalesceInv, InstantsOK
    <3>3. occurrence[<<s, t>>].createdAt \in Nat
      BY <1>1, <3>1 DEF Exists
    <3> QED BY <1>1, <1>2, <3>2, <3>3
  <2> QED BY <2>1 DEF InstantsOK
<1>4. NextOK'
  BY DoneKept DEF CoalesceInv, NextOK
<1>5. EditsOK'
  BY DEF CoalesceInv, EditsOK
<1>6. CoalesceOne'
  <2>1. ASSUME NEW s \in Schedules, NEW t \in 1 .. MaxTime, NEW u \in 1 .. MaxTime,
               t < u, Exists(<<s, t>>)', Exists(<<s, u>>)',
               {<<s, t>>, <<s, u>>} \cap restored = {}
        PROVE  occurrence'[<<s, t>>].createdAt < u
    <3>1. Exists(<<s, t>>) /\ Exists(<<s, u>>)
      BY <1>1, <2>1 DEF Exists
    <3>2. occurrence[<<s, t>>].createdAt < u
      BY <2>1, <3>1 DEF CoalesceInv, CoalesceOne
    <3> QED BY <1>1, <3>2
  <2> QED BY <1>5, <2>1 DEF CoalesceOne, EditsOK
<1> QED BY <1>3, <1>4, <1>5, <1>6 DEF CoalesceInv

(* An instant that is not ahead is materialized, or is put back with it. *)
LEMMA AheadOrPutBack ==
  ASSUME TypeOK, CoalesceInv, NEW s \in Schedules, NEW n \in Instants
  PROVE  IsDone(s, n) \/ <<s, n>> \in PutBack(s, n) \/ IsAhead(s, n)
<1>1. SUFFICES ASSUME ~IsDone(s, n), NEW t \in 1 .. MaxTime, Exists(<<s, t>>),
                      ~(occurrence[<<s, t>>].createdAt < n)
               PROVE  <<s, n>> \in PutBack(s, n)
  BY DEF IsAhead
<1>2. PICK o \in Occurrences : o = <<s, t>>
  BY DEF Occurrences
<1>3. occurrence[o] \in OccurrenceRecs
  BY RecordsTyped
<1>4. occurrence[<<s, t>>].createdAt \in 0 .. MaxTime
  BY <1>1, <1>2, <1>3 DEF Exists, OccurrenceRecs
<1>5. n \in Nat /\ occurrence[<<s, t>>].createdAt >= n /\ n \in 1 .. MaxTime
  BY <1>1, <1>4 DEF Instants
<1>6. ~Exists(<<s, n>>) /\ <<s, n>> \in Occurrences
  BY <1>1, <1>5 DEF IsDone, Occurrences
<1> QED BY <1>1, <1>5, <1>6 DEF PutBack

(* The occurrence of a due Schedule is created. *)
LEMMA CoalesceMaterialize ==
  ASSUME TypeOK, TypeOK', CoalesceInv, NEW r \in Replicas, NEW s \in Schedules,
         MaterializeDue(r, s)
  PROVE  CoalesceInv'
<1>1. PICK n \in 1 .. MaxTime : n = schedule[s].nextRunAt
  BY MaterializeTyped
<1>2. PICK now \in 1 .. MaxTime : now = tick[r].now
  BY MaterializeTyped
<1>3. /\ n <= now
      /\ \A q \in Replicas \ {r} : tick'[q] = tick[q]
      /\ tick'[r].now = now
      /\ \/ UNCHANGED <<schedule, restored, occurrence>>
         \/ /\ ~Exists(<<s, n>>)
            /\ occurrence' = [occurrence EXCEPT ![<<s, n>>].createdAt = now]
            /\ schedule' = [schedule EXCEPT ![s].nextRunAt = now + 1]
            /\ restored' = restored \cup PutBack(s, now + 1)
  BY <1>1, <1>2, MaterializeTyped
<1>4. UNCHANGED <<clock, edit, edits>>
  BY DEF MaterializeDue
<1>5. \A q \in Replicas : tick'[q].now <= clock'
  BY <1>2, <1>3, <1>4 DEF CoalesceInv, InstantsOK
<1>6. clock \in Nat
  BY DEF TypeOK
<1>7. CASE UNCHANGED <<schedule, restored, occurrence>>
  <2>1. CreationsKept
    BY <1>7 DEF CreationsKept
  <2> QED BY <1>4, <1>5, <1>6, <1>7, <2>1, CoalesceStill
<1>8. CASE /\ ~Exists(<<s, n>>)
           /\ occurrence' = [occurrence EXCEPT ![<<s, n>>].createdAt = now]
           /\ schedule' = [schedule EXCEPT ![s].nextRunAt = now + 1]
           /\ restored' = restored \cup PutBack(s, now + 1)
  <2>1. now <= clock
    BY <1>2 DEF CoalesceInv, InstantsOK
  <2>2. <<s, n>> \in restored \/ IsAhead(s, n)
    <3>1. n # None
      BY <1>1
    <3>2. IsDone(s, n) \/ <<s, n>> \in restored \/ IsAhead(s, n)
      BY <1>1, <3>1 DEF CoalesceInv, NextOK
    <3> QED BY <1>8, <3>2 DEF IsDone
  <2>3. /\ \A o \in Occurrences : o # <<s, n>> => occurrence'[o] = occurrence[o]
        /\ occurrence'[<<s, n>>].createdAt = now
        /\ \A u \in Schedules \ {s} : schedule'[u] = schedule[u]
        /\ schedule'[s].nextRunAt = now + 1
    <3>1. occurrence' = [occurrence EXCEPT ![<<s, n>>].createdAt = now]
      BY <1>8
    <3>2. schedule' = [schedule EXCEPT ![s].nextRunAt = now + 1]
      BY <1>8
    <3>3. \A o \in Occurrences : o # <<s, n>> => occurrence'[o] = occurrence[o]
      BY <3>1, RecordsTyped
    <3>4. occurrence'[<<s, n>>].createdAt = now
      <4>1. PICK o \in Occurrences : o = <<s, n>>
        BY DEF Occurrences
      <4>2. occurrence \in [Occurrences -> OccurrenceRecs]
        BY RecordsTyped
      <4>3. occurrence'[o] = [occurrence[o] EXCEPT !.createdAt = now]
        BY <3>1, <4>1, <4>2
      <4>4. occurrence'[o].createdAt = now
        BY <4>2, <4>3 DEF OccurrenceRecs
      <4> QED BY <4>1, <4>4
    <3>5. \A u \in Schedules \ {s} : schedule'[u] = schedule[u]
      BY <3>2, RecordsTyped
    <3>6. schedule'[s].nextRunAt = now + 1
      BY <3>2, RecordsTyped DEF ScheduleRecs
    <3> QED BY <3>3, <3>4, <3>5, <3>6
  <2>4. \A u \in Schedules, t \in 1 .. MaxTime :
          u # s \/ t # n => occurrence'[<<u, t>>] = occurrence[<<u, t>>]
    <3>1. ASSUME NEW u \in Schedules, NEW t \in 1 .. MaxTime, u # s \/ t # n
          PROVE  occurrence'[<<u, t>>] = occurrence[<<u, t>>]
      <4>1. PICK o \in Occurrences : o = <<u, t>>
        BY DEF Occurrences
      <4>2. o # <<s, n>>
        BY <3>1, <4>1
      <4> QED BY <2>3, <4>1, <4>2
    <3> QED BY <3>1
  <2>5. \A t \in 1 .. MaxTime :
          Exists(<<s, t>>) =>
            /\ t <= occurrence[<<s, t>>].createdAt /\ occurrence[<<s, t>>].createdAt \in Nat
            /\ <<s, n>> \notin restored => occurrence[<<s, t>>].createdAt < n
    <3>1. ASSUME NEW t \in 1 .. MaxTime, Exists(<<s, t>>)
          PROVE  /\ t <= occurrence[<<s, t>>].createdAt /\ occurrence[<<s, t>>].createdAt \in Nat
                 /\ <<s, n>> \notin restored => occurrence[<<s, t>>].createdAt < n
      <4>1. PICK o \in Occurrences : o = <<s, t>>
        BY DEF Occurrences
      <4>2. occurrence[o] \in OccurrenceRecs
        BY RecordsTyped
      <4>3. occurrence[<<s, t>>].createdAt \in Nat
        BY <3>1, <4>1, <4>2 DEF Exists, OccurrenceRecs
      <4> QED BY <2>2, <3>1, <4>3 DEF CoalesceInv, InstantsOK, IsAhead
    <3> QED BY <3>1
  <2>6. Exists(<<s, n>>)'
    BY <2>3 DEF Exists
  <2>7. \A t \in 1 .. MaxTime : t # n /\ Exists(<<s, t>>)' => Exists(<<s, t>>)
    BY <2>4 DEF Exists
  <2>8. InstantsOK'
    <3>1. ASSUME NEW u \in Schedules, NEW t \in 1 .. MaxTime, Exists(<<u, t>>)'
          PROVE  (t <= occurrence[<<u, t>>].createdAt /\ occurrence[<<u, t>>].createdAt <= clock)'
      <4>1. CASE u = s /\ t = n
        BY <1>3, <1>4, <2>1, <2>3, <4>1
      <4>2. CASE u # s \/ t # n
        BY <1>4, <2>4, <3>1, <4>2 DEF Exists, CoalesceInv, InstantsOK
      <4> QED BY <4>1, <4>2
    <3> QED BY <1>5, <3>1 DEF InstantsOK
  <2>9. \A u \in Schedules \ {s} : \A m :
          /\ IsDone(u, m)' <=> IsDone(u, m)
          /\ IsAhead(u, m)' <=> IsAhead(u, m)
    BY <2>4 DEF IsDone, IsAhead, Exists
  <2>10. NextOK'
    <3>1. IsDone(s, now + 1)' \/ <<s, now + 1>> \in restored' \/ IsAhead(s, now + 1)'
      <4>1. CASE IsDone(s, now + 1)
        <5>1. now + 1 # n
          BY <1>3
        <5> QED BY <2>4, <4>1, <5>1 DEF IsDone, Exists
      <4>2. CASE <<s, now + 1>> \in PutBack(s, now + 1)
        BY <1>8, <4>2
      <4>3. CASE IsAhead(s, now + 1)
        <5>1. ASSUME NEW t \in 1 .. MaxTime, Exists(<<s, t>>)'
              PROVE  occurrence'[<<s, t>>].createdAt < now + 1
          <6>1. CASE t = n
            BY <2>3, <6>1
          <6>2. CASE t # n
            BY <2>4, <2>7, <4>3, <5>1, <6>2 DEF IsAhead
          <6> QED BY <6>1, <6>2
        <5> QED BY <5>1 DEF IsAhead
      <4>4. now + 1 \in Instants
        BY DEF Instants
      <4> QED BY <4>1, <4>2, <4>3, <4>4, AheadOrPutBack
    <3>2. restored \subseteq restored'
      BY <1>8
    <3>3. ASSUME NEW u \in Schedules, NEW m, m = schedule'[u].nextRunAt, m # None
          PROVE  IsDone(u, m)' \/ <<u, m>> \in restored' \/ IsAhead(u, m)'
      <4>1. CASE u = s
        BY <2>3, <3>1, <3>3, <4>1
      <4>2. CASE u # s
        <5>1. m = schedule[u].nextRunAt
          BY <2>3, <3>3, <4>2
        <5>2. IsDone(u, m) \/ <<u, m>> \in restored \/ IsAhead(u, m)
          BY <3>3, <5>1 DEF CoalesceInv, NextOK
        <5> QED BY <2>9, <3>2, <4>2, <5>2
      <4> QED BY <4>1, <4>2
    <3> QED BY <3>3 DEF NextOK
  <2>11. EditsOK'
    <3>1. ASSUME edits = 0 PROVE PutBack(s, now + 1) = {}
      <4>1. restored = {}
        BY <3>1 DEF CoalesceInv, EditsOK
      <4>2. ASSUME NEW t \in 1 .. MaxTime, Exists(<<s, t>>)
            PROVE  ~(occurrence[<<s, t>>].createdAt >= now + 1)
        <5>1. occurrence[<<s, t>>].createdAt < n /\ occurrence[<<s, t>>].createdAt \in Nat
          BY <2>5, <4>1, <4>2
        <5> QED BY <1>3, <5>1
      <4> QED BY <4>2 DEF PutBack
    <3> QED BY <1>4, <1>8, <3>1 DEF CoalesceInv, EditsOK
  <2>12. CoalesceOne'
    <3>1. ASSUME NEW u \in Schedules, NEW t \in 1 .. MaxTime, NEW v \in 1 .. MaxTime,
                 t < v, Exists(<<u, t>>)', Exists(<<u, v>>)',
                 {<<u, t>>, <<u, v>>} \cap restored' = {}
          PROVE  occurrence'[<<u, t>>].createdAt < v
      <4>0. <<u, t>> \notin restored /\ <<u, v>> \notin restored
        BY <1>8, <3>1
      <4>1. CASE u # s
        BY <2>4, <3>1, <4>0, <4>1 DEF Exists, CoalesceInv, CoalesceOne
      <4>2. CASE u = s /\ t # n /\ v # n
        BY <2>4, <2>7, <3>1, <4>0, <4>2 DEF CoalesceInv, CoalesceOne
      <4>3. CASE u = s /\ t = n
        <5>1. v # n /\ Exists(<<s, v>>)
          BY <2>7, <3>1, <4>3
        <5>2. v <= occurrence[<<s, v>>].createdAt /\ occurrence[<<s, v>>].createdAt < n
              /\ occurrence[<<s, v>>].createdAt \in Nat
          BY <2>5, <4>0, <4>3, <5>1
        <5> QED BY <3>1, <4>3, <5>2
      <4>4. CASE u = s /\ t # n /\ v = n
        <5>1. Exists(<<s, t>>)
          BY <2>7, <3>1, <4>4
        <5> QED BY <2>4, <2>5, <4>0, <4>4, <5>1
      <4> QED BY <4>1, <4>2, <4>3, <4>4
    <3> QED BY <2>11, <3>1 DEF CoalesceOne, EditsOK
  <2> QED BY <2>8, <2>10, <2>11, <2>12 DEF CoalesceInv
<1> QED BY <1>3, <1>7, <1>8

(* An edit is read or computed: nothing is written yet. *)
LEMMA CoalesceEdit ==
  ASSUME TypeOK, CoalesceInv, NEW e \in Editors,
         \/ \E s \in Schedules : ReadSchedule(e, s)
         \/ \E change \in {"rename", "enable", "disable", "recron"} : ComputeUpdate(e, change)
  PROVE  CoalesceInv'
<1>1. UNCHANGED <<clock, schedule, restored, occurrence, tick>>
  BY DEF ReadSchedule, ComputeUpdate, tables
<1>2. edits' # 0
  <2>1. edits \in Nat
    BY DEF TypeOK
  <2>2. CASE \E s \in Schedules : ReadSchedule(e, s)
    BY <2>1, <2>2 DEF ReadSchedule
  <2>3. CASE \E change \in {"rename", "enable", "disable", "recron"} : ComputeUpdate(e, change)
    <3>1. edit[e].at = "compute" /\ edits' = edits
      BY <2>3 DEF ComputeUpdate
    <3> QED BY <3>1 DEF CoalesceInv, EditsOK
  <2> QED BY <2>2, <2>3
<1>3. InstantsOK' /\ NextOK'
  BY <1>1 DEF CoalesceInv, InstantsOK, NextOK, IsDone, IsAhead, Exists
<1>4. EditsOK' /\ CoalesceOne'
  BY <1>1, <1>2 DEF CoalesceInv, EditsOK, CoalesceOne, Exists
<1> QED BY <1>3, <1>4 DEF CoalesceInv

LEMMA CoalesceUpdate ==
  ASSUME TypeOK, CoalesceInv, NEW e \in Editors, UpdateSchedule(e)
  PROVE  CoalesceInv'
<1>1. UNCHANGED <<clock, occurrence, tick, edits>> /\ edits # 0
  BY DEF UpdateSchedule, CoalesceInv, EditsOK
<1>2. edit[e].nextRunAt \in Instants \cup {None}
  BY RecordsTyped DEF EditRecs
<1>3. restored \subseteq restored'
  BY UpdateTyped
<1>4. InstantsOK'
  BY <1>1 DEF CoalesceInv, InstantsOK, Exists
<1>5. EditsOK' /\ CoalesceOne'
  BY <1>1, <1>3 DEF CoalesceInv, EditsOK, CoalesceOne, Exists
<1>6. ASSUME NEW s \in Schedules, NEW n, n = schedule'[s].nextRunAt, n # None
      PROVE  IsDone(s, n) \/ <<s, n>> \in restored' \/ IsAhead(s, n)
  <2>1. CASE s = edit[e].schedule
    <3>1. n = edit[e].nextRunAt /\ PutBack(s, n) \subseteq restored'
      BY <1>6, <2>1, UpdateTyped
    <3> QED BY <1>2, <1>6, <3>1, AheadOrPutBack
  <2>2. CASE s # edit[e].schedule
    <3>1. n = schedule[s].nextRunAt
      BY <1>6, <2>2, UpdateTyped
    <3> QED BY <1>3, <1>6, <3>1 DEF CoalesceInv, NextOK
  <2> QED BY <2>1, <2>2
<1>7. NextOK'
  BY <1>1, <1>6 DEF NextOK, IsDone, IsAhead, Exists
<1> QED BY <1>4, <1>5, <1>7 DEF CoalesceInv

(* Dispatching works with the instant of the tick. *)
LEMMA CoalesceDispatch ==
  ASSUME TypeOK, TypeOK', CoalesceInv, NEW r \in Replicas,
         \/ StartTick(r) \/ NothingDue(r) \/ ListUndispatched(r) \/ EndTick(r)
         \/ DispatchStep(r) \/ DispatchFails(r) \/ TickDies(r)
  PROVE  CoalesceInv'
<1>0. tick \in [Replicas -> TickRecs] /\ tick[r].now <= clock /\ clock \in Nat
  BY RecordsTyped DEF CoalesceInv, InstantsOK
<1>1. UNCHANGED <<clock, schedule, restored, edit, edits>>
  BY DEF StartTick, NothingDue, ListUndispatched, EndTick, DispatchStep, FindRun,
         CreateScheduledRun, QueueRun, CreateRunReturns, AttachOccurrenceRunId, EnqueueReturns,
         MarkOccurrenceDispatched, DispatchFails, TickDies, dispatchUnchanged, tables
<1>2. CreationsKept
  <2>1. occurrence \in [Occurrences -> OccurrenceRecs]
    BY RecordsTyped
  <2>2. CASE UNCHANGED occurrence
    BY <2>2 DEF CreationsKept
  <2>3. CASE AttachOccurrenceRunId(r)
    BY <2>1, <2>3 DEF AttachOccurrenceRunId, CreationsKept, OccurrenceRecs
  <2>4. CASE MarkOccurrenceDispatched(r)
    BY <2>1, <2>4 DEF MarkOccurrenceDispatched, CreationsKept, OccurrenceRecs
  <2> QED BY <2>2, <2>3, <2>4
          DEF StartTick, NothingDue, ListUndispatched, EndTick, DispatchStep, FindRun,
              CreateScheduledRun, QueueRun, CreateRunReturns, EnqueueReturns, DispatchFails,
              TickDies, dispatchUnchanged, tables
<1>3. ASSUME \A q \in Replicas \ {r} : tick'[q] = tick[q],
             tick'[r].now \in {0, clock, tick[r].now}
      PROVE  \A q \in Replicas : tick'[q].now <= clock
  BY <1>0, <1>3 DEF CoalesceInv, InstantsOK
<1>4. /\ \A q \in Replicas \ {r} : tick'[q] = tick[q]
      /\ tick'[r].now \in {0, clock, tick[r].now}
  <2>1. ASSUME NEW at, Go(r, at)
        PROVE  (\A q \in Replicas \ {r} : tick'[q] = tick[q]) /\ tick'[r].now = tick[r].now
    BY <1>0, <2>1 DEF Go, TickRecs
  <2>2. ASSUME NEW at, NEW status, GoSeeing(r, at, status)
        PROVE  (\A q \in Replicas \ {r} : tick'[q] = tick[q]) /\ tick'[r].now = tick[r].now
    BY <1>0, <2>2 DEF GoSeeing, TickRecs
  <2>3. ASSUME Leave(r)
        PROVE  (\A q \in Replicas \ {r} : tick'[q] = tick[q]) /\ tick'[r].now = tick[r].now
    BY <2>3, LeaveTyped
  <2>4. ASSUME tick' = [tick EXCEPT ![r] = Idle]
        PROVE  (\A q \in Replicas \ {r} : tick'[q] = tick[q]) /\ tick'[r].now = 0
    BY <1>0, <2>4, IdleTyped
  <2>5. CASE StartTick(r)
    <3>1. PICK t : t = [Idle EXCEPT !.at = "materialize", !.now = clock]
      OBVIOUS
    <3>2. t.now = clock
      BY <3>1 DEF Idle
    <3>3. tick' = [tick EXCEPT ![r] = t]
      BY <2>5, <3>1 DEF StartTick
    <3> QED BY <1>0, <3>2, <3>3
  <2>6. CASE ListUndispatched(r)
    BY <1>0, <2>6 DEF ListUndispatched, TickRecs
  <2>7. ASSUME NEW o \in Occurrences, FindRun(r, o)
        PROVE  (\A q \in Replicas \ {r} : tick'[q] = tick[q]) /\ tick'[r].now = tick[r].now
    BY <2>7, FindRunTyped
  <2>8. CASE NothingDue(r)
    BY <2>1, <2>8 DEF NothingDue, Go
  <2>9. CASE EndTick(r) \/ TickDies(r)
    BY <2>4, <2>9 DEF EndTick, TickDies
  <2>10. CASE CreateScheduledRun(r)
    BY <2>1, <2>2, <2>10 DEF CreateScheduledRun
  <2>11. CASE QueueRun(r)
    BY <2>2, <2>3, <2>11 DEF QueueRun
  <2>12. CASE CreateRunReturns(r)
    BY <2>2, <2>12 DEF CreateRunReturns, GoSeeing
  <2>13. CASE AttachOccurrenceRunId(r)
    BY <2>1, <2>3, <2>13 DEF AttachOccurrenceRunId
  <2>14. CASE EnqueueReturns(r)
    BY <2>1, <2>3, <2>14 DEF EnqueueReturns
  <2>15. CASE MarkOccurrenceDispatched(r) \/ DispatchFails(r)
    BY <2>3, <2>15 DEF MarkOccurrenceDispatched, DispatchFails
  <2> QED BY <2>5, <2>6, <2>7, <2>8, <2>9, <2>10, <2>11, <2>12, <2>13, <2>14, <2>15
          DEF DispatchStep
<1> QED BY <1>0, <1>1, <1>2, <1>3, <1>4, CoalesceStill

LEMMA CoalesceInit ==
  ASSUME Init
  PROVE  CoalesceInv
<1>1. \A s \in Schedules, t \in 1 .. MaxTime : ~Exists(<<s, t>>)
  <2>1. ASSUME NEW s \in Schedules, NEW t \in 1 .. MaxTime PROVE ~Exists(<<s, t>>)
    <3>1. PICK o \in Occurrences : o = <<s, t>>
      BY DEF Occurrences
    <3>2. occurrence[o] = NoOccurrence
      BY DEF Init
    <3> QED BY <3>1, <3>2, IdleTyped DEF Exists
  <2> QED BY <2>1
<1>2. InstantsOK
  BY <1>1, IdleTyped DEF Init, InstantsOK
<1>3. NextOK /\ CoalesceOne
  BY <1>1 DEF Init, NextOK, IsAhead, CoalesceOne
<1>4. EditsOK
  BY IdleTyped DEF Init, EditsOK
<1> QED BY <1>2, <1>3, <1>4 DEF CoalesceInv

LEMMA CoalesceNext ==
  ASSUME TypeOK, TypeOK', CoalesceInv, [Next]_vars
  PROVE  CoalesceInv'
<1>0. clock \in Nat /\ \A r \in Replicas : tick[r].now \in Nat /\ tick[r].now <= clock
  <2>1. ASSUME NEW r \in Replicas PROVE tick[r].now \in Nat
    BY RecordsTyped DEF TickRecs
  <2> QED BY <2>1, RecordsTyped DEF CoalesceInv, InstantsOK
<1>1. ASSUME UNCHANGED <<clock, schedule, restored, edit, edits, tick>>, UNCHANGED occurrence
      PROVE  CoalesceInv'
  BY <1>0, <1>1, CoalesceStill DEF CreationsKept
<1>2. ASSUME NEW r \in Replicas, TickStep(r) \/ DispatchFails(r) \/ TickDies(r)
      PROVE  CoalesceInv'
  BY <1>2, CoalesceMaterialize, CoalesceDispatch DEF TickStep
<1>3. ASSUME NEW e \in Editors,
             \/ \E s \in Schedules : ReadSchedule(e, s)
             \/ \E change \in {"rename", "enable", "disable", "recron"} :
                  ComputeUpdate(e, change)
             \/ UpdateSchedule(e)
      PROVE  CoalesceInv'
  BY <1>3, CoalesceEdit, CoalesceUpdate
<1>4. CASE Advance
  <2>1. clock' = clock + 1 /\ UNCHANGED <<schedule, restored, occurrence, edit, edits, tick>>
    BY <1>4 DEF Advance, tables
  <2>2. clock <= clock' /\ \A r \in Replicas : tick'[r].now <= clock'
    BY <1>0, <2>1
  <2> QED BY <2>1, <2>2, CoalesceStill DEF CreationsKept
<1>5. ASSUME NEW c \in Recoverers, RepairStep(c) \/ RepairDies(c)
      PROVE  CoalesceInv'
  BY <1>1, <1>5 DEF RepairStep, RepairReturns, RepairQueuedDelivery, RepairDies, tables
<1>6. ASSUME NEW o \in Occurrences,
             RunStarts(o) \/ RunEnds(o) \/ RunInterrupted(o) \/ RunRecovered(o)
      PROVE  CoalesceInv'
  BY <1>1, <1>6 DEF RunStarts, RunEnds, RunInterrupted, RunRecovered, RunMoves
<1>7. CASE Queue \/ UNCHANGED vars
  BY <1>1, <1>7 DEF Queue, vars, tables
<1> QED BY <1>2, <1>3, <1>4, <1>5, <1>6, <1>7 DEF Next

(* After downtime at most one overdue occurrence of a Schedule is created, *)
(* however many replicas tick and however many PATCHes write beside them,  *)
(* apart from an instant that a PATCH has put back; ticks put none back.   *)
THEOREM OneOverdueOccurrence == Spec => []CoalesceOne
<1>1. Init => CoalesceInv
  BY CoalesceInit
<1>2. CoalesceInv /\ TypeOK /\ TypeOK' /\ [Next]_vars => CoalesceInv'
  BY CoalesceNext
<1>3. CoalesceInv => CoalesceOne
  BY DEF CoalesceInv
<1> QED BY <1>1, <1>2, <1>3, DispatchTyped, PTL DEF Spec
=============================================================================
