--------------------------- MODULE WorkflowWaits ----------------------------
(***************************************************************************)
(* The durable waits of workflows: WAIT nodes are armed, events are        *)
(* ingested over HTTP, and waits are resolved by the ingest calls and by   *)
(* the wait driver of each orchestrator replica.                           *)
(*                                                                         *)
(* A tick and an ingest call read the clock once, at their start, and use  *)
(* that instant for all they do.  A resolution is a transaction that locks *)
(* the WorkflowRun's row: the step that takes the lock also reads the      *)
(* candidate events and decides (Decide), the step that ends it writes     *)
(* (Commit).  Inserting an event takes no lock and may come in between.    *)
(* Arming is done by the passes of WorkflowReconciliation.                 *)
(*                                                                         *)
(* An ingest call carries a submission and the id its event would get;     *)
(* calls with the same ingestion identity are retries.  Ids are numbers,   *)
(* since ties between instants are broken by them.                         *)
(***************************************************************************)
EXTENDS Integers, FiniteSets

CONSTANTS
  Runs,
  Waits,        \* WorkflowNodeRun ids of WAIT nodes, numbers
  RunOf,        \* RunOf[w]
  CreatedAt,    \* CreatedAt[r]: workflow_runs.created_at
  Kind,         \* Kind[w]: "DURATION", "UNTIL" or "EVENT"
  Span,         \* Span[w]: the duration, the instant, the timeout or None
  Match,        \* Match[x]: source, type and correlation key of a wait or call
  Calls,        \* ingest calls, numbers
  Identity,     \* Identity[c]: source and idempotency key of the submission
  Payload,      \* Payload[c]
  Drivers,      \* orchestrator replicas
  BatchLimit,   \* 50: waits a tick lists
  MaxTime,      \* bound on the clock
  MaxFaults,    \* bound on crashes
  None          \* SQL NULL / undefined

Actors == Calls \cup Drivers

ASSUME WaitsAssumption ==
  /\ Waits \subseteq Nat /\ Calls \subseteq Nat /\ Calls \cap Drivers = {}
  /\ RunOf \in [Waits -> Runs] /\ CreatedAt \in [Runs -> Nat]
  /\ Kind \in [Waits -> {"DURATION", "UNTIL", "EVENT"}]
  /\ \A w \in Waits : \/ Span[w] \in Nat \ {0}
                      \/ Kind[w] = "EVENT" /\ Span[w] = None
  /\ BatchLimit \in Nat \ {0} /\ MaxTime \in Nat /\ MaxFaults \in Nat
  /\ None \notin Nat

VARIABLES
  clock,
  ended,      \* WorkflowRuns in a terminal status
  startedAt,  \* workflow_node_runs.started_at, set with WAITING
  armed,      \* the waits that have a row
  result,     \* workflow_waits: resolution, resolved_by_event_id, resolved_at
  event,      \* workflow_events by id: received_at, and when it was committed
  actor,      \* where each ingest call and each driver is
  faults

rows == <<ended, startedAt, armed, result, event>>
vars == <<clock, ended, startedAt, armed, result, event, actor, faults>>

Instants == 0 .. MaxTime
NoEvent == [receivedAt |-> None, committedAt |-> None]
Unresolved == [resolution |-> None, event |-> None, at |-> None]
Results == [resolution : {"TIMER", "EVENT", "TIMEOUT"}, event : Calls \cup {None}, at : Instants]
Stages == {"idle", "save", "list", "timers", "events", "resolveMatches",
           "resolveTimers", "resolveEvents", "done"}
Idle == [at |-> "idle", now |-> 0, todo |-> {}, decision |-> None]

ASSUME NoneAssumption == None \notin Results /\ None \notin {"TIMER", "EVENT", "TIMEOUT"}

TypeOK ==
  /\ clock \in Instants
  /\ ended \subseteq Runs
  /\ startedAt \in [Waits -> Instants \cup {None}]
  /\ armed \subseteq {w \in Waits : startedAt[w] # None}
  /\ result \in [Waits -> Results \cup {Unresolved}]
  /\ event \in [Calls -> [receivedAt : Instants, committedAt : Instants] \cup {NoEvent}]
  /\ actor \in [Actors -> [at : Stages, now : Instants, todo : SUBSET Waits,
                           decision : Results \cup {None}]]
  /\ faults \in 0 .. MaxFaults

Init ==
  /\ clock = 0
  /\ ended = {}
  /\ startedAt = [w \in Waits |-> None]
  /\ armed = {}
  /\ result = [w \in Waits |-> Unresolved]
  /\ event = [c \in Calls |-> NoEvent]
  /\ actor = [a \in Actors |-> Idle]
  /\ faults = 0

-----------------------------------------------------------------------------
(* WorkflowWait.arm: what a row says, frozen with startedAt. *)

armedAt(w) == startedAt[w]
wakeAt(w) == IF Kind[w] = "UNTIL" THEN Span[w] ELSE startedAt[w] + Span[w]
eligibleFrom(w) == CreatedAt[RunOf[w]]
HasDeadline(w) == Kind[w] = "EVENT" /\ Span[w] # None
expiresAt(w) == startedAt[w] + Span[w]

Stored == {c \in Calls : event[c] # NoEvent}

(* Mutant: the deadline is not looked at. *)
IsEligibleAnyTime(w, e, now) ==
  /\ Kind[w] = "EVENT" /\ Match[w] = Match[e]
  /\ eligibleFrom(w) <= event[e].receivedAt /\ event[e].receivedAt <= now

IsWorkflowEventEligible(w, e, now) ==
  /\ Kind[w] = "EVENT" /\ Match[w] = Match[e]
  /\ eligibleFrom(w) <= event[e].receivedAt /\ event[e].receivedAt <= now
  /\ HasDeadline(w) => event[e].receivedAt <= expiresAt(w)

Candidates(w, now) == {e \in Stored : IsWorkflowEventEligible(w, e, now)}

Earlier(e, f) ==
  \/ event[e].receivedAt < event[f].receivedAt
  \/ event[e].receivedAt = event[f].receivedAt /\ e < f

SelectEvent(S) == CHOOSE e \in S : \A f \in S \ {e} : Earlier(e, f)

Resolution(kind, e, now) == [resolution |-> kind, event |-> e, at |-> now]

(* Mutant: a deadline that has passed comes first. *)
DeadlineFirst(w, now) ==
  IF HasDeadline(w) /\ expiresAt(w) <= now THEN Resolution("TIMEOUT", None, now)
  ELSE IF Candidates(w, now) # {}
    THEN Resolution("EVENT", SelectEvent(Candidates(w, now)), now)
  ELSE None

(* decideWorkflowEventWait: an eligible event always wins. *)
DecideEventWait(w, now) ==
  IF Candidates(w, now) # {}
    THEN Resolution("EVENT", SelectEvent(Candidates(w, now)), now)
  ELSE IF HasDeadline(w) /\ expiresAt(w) <= now THEN Resolution("TIMEOUT", None, now)
  ELSE None

(* A timer that was listed is due. *)
DecideWait(w, now) ==
  IF Kind[w] = "EVENT" THEN DecideEventWait(w, now) ELSE Resolution("TIMER", None, now)

-----------------------------------------------------------------------------
(* Arming: the node's row becomes WAITING at the instant of the pass that  *)
(* does it, and a later statement, repeated by every pass until it has     *)
(* succeeded, inserts the wait.                                            *)

MarkWaiting(w, now) ==
  /\ RunOf[w] \notin ended
  /\ CreatedAt[RunOf[w]] <= now /\ now <= clock
  /\ startedAt[w] = None
  /\ startedAt' = [startedAt EXCEPT ![w] = now]
  /\ UNCHANGED <<clock, ended, armed, result, event, actor, faults>>

(* The pass has seen the WorkflowRun active before, and does not look      *)
(* again.                                                                  *)
EnsureWorkflowWait(w) ==
  /\ startedAt[w] # None
  /\ w \notin armed
  /\ armed' = armed \cup {w}
  /\ UNCHANGED <<clock, ended, startedAt, result, event, actor, faults>>

-----------------------------------------------------------------------------
(* Resolving the waits on an actor's list, one transaction each. *)

IsResolving(a) == actor[a].at \in {"resolveMatches", "resolveTimers", "resolveEvents"}

(* Lists are ordered by wakeAt, by armedAt, or by id alone. *)
SortKey(at, w) ==
  CASE at = "resolveTimers" -> wakeAt(w)
    [] at = "resolveEvents" -> armedAt(w)
    [] at = "resolveMatches" -> 0

Before(at, v, w) ==
  \/ SortKey(at, v) < SortKey(at, w)
  \/ SortKey(at, v) = SortKey(at, w) /\ v < w

IsNext(a, w) ==
  /\ IsResolving(a) /\ w \in actor[a].todo
  /\ \A v \in actor[a].todo \ {w} : Before(actor[a].at, w, v)

(* The transaction of an actor holds the row of its WorkflowRun. *)
IsLocked(r) ==
  \E a \in Actors : actor[a].decision # None
                    /\ \E w \in Waits : IsNext(a, w) /\ RunOf[w] = r

(* Mutant: the WorkflowRun is not looked at under the lock. *)
IsUnresolved(w) == result[w] = Unresolved

(* Under the lock: the WorkflowRun is active and the wait unresolved. *)
IsStillOpen(w) == RunOf[w] \notin ended /\ result[w] = Unresolved

(* A throw ends the whole tick, or the ingest call. *)
Thrown(a) == IF a \in Calls THEN [Idle EXCEPT !.at = "done"] ELSE Idle

Go(a, next) == actor' = [actor EXCEPT ![a] = next]

(* The transaction is over and the next wait is up. *)
WithoutFirst(a, w) == [actor[a] EXCEPT !.todo = actor[a].todo \ {w}, !.decision = None]

(* The lock is taken and the outcome decided.  An instant before armedAt   *)
(* throws; nothing to write ends the transaction at once.                  *)
Decide(a, w) ==
  LET now == actor[a].now
      decision == IF IsStillOpen(w) THEN DecideWait(w, now) ELSE None
  IN /\ IsNext(a, w) /\ actor[a].decision = None
     /\ ~IsLocked(RunOf[w])
     /\ Go(a, IF decision = None THEN WithoutFirst(a, w)
              ELSE IF now < armedAt(w) THEN Thrown(a)
              ELSE [actor[a] EXCEPT !.decision = decision])
     /\ UNCHANGED <<clock, rows, faults>>

Commit(a, w) ==
  /\ IsNext(a, w) /\ actor[a].decision # None
  /\ result' = [result EXCEPT ![w] = IF @ = Unresolved THEN actor[a].decision ELSE @]
  /\ Go(a, WithoutFirst(a, w))
  /\ UNCHANGED <<clock, ended, startedAt, armed, event, faults>>

ListDone(a) ==
  /\ IsResolving(a) /\ actor[a].todo = {}
  /\ Go(a, CASE actor[a].at = "resolveMatches" -> [Idle EXCEPT !.at = "done"]
             [] actor[a].at = "resolveTimers" -> [actor[a] EXCEPT !.at = "events"]
             [] actor[a].at = "resolveEvents" -> Idle)
  /\ UNCHANGED <<clock, rows, faults>>

-----------------------------------------------------------------------------
(* IngestWorkflowEvent *)

Receive(c) ==
  /\ actor[c].at = "idle"
  /\ Go(c, [Idle EXCEPT !.at = "save", !.now = clock])
  /\ UNCHANGED <<clock, rows, faults>>

(* The ingestion identity is unique: a retry takes the row that is there,  *)
(* or is refused when it says something else.                              *)
SaveWorkflowEvent(c) ==
  LET existing == {e \in Stored : Identity[e] = Identity[c]}
      conflict == \E e \in existing : Match[e] # Match[c] \/ Payload[e] # Payload[c]
  IN /\ actor[c].at = "save"
     /\ event' = IF existing # {} THEN event
          ELSE [event EXCEPT ![c] = [receivedAt |-> actor[c].now, committedAt |-> clock]]
     /\ Go(c, IF conflict THEN Thrown(c) ELSE [actor[c] EXCEPT !.at = "list"])
     /\ UNCHANGED <<clock, ended, startedAt, armed, result, faults>>

IsActive(w) == w \in armed /\ result[w] = Unresolved /\ RunOf[w] \notin ended

ListMatching(c) ==
  /\ actor[c].at = "list"
  /\ Go(c, [actor[c] EXCEPT !.at = "resolveMatches",
       !.todo = {w \in Waits : IsActive(w) /\ Kind[w] = "EVENT" /\ Match[w] = Match[c]}])
  /\ UNCHANGED <<clock, rows, faults>>

-----------------------------------------------------------------------------
(* WorkflowWaitDriverTick *)

StartTick(d) ==
  /\ actor[d].at = "idle"
  /\ Go(d, [Idle EXCEPT !.at = "timers", !.now = clock])
  /\ UNCHANGED <<clock, rows, faults>>

(* The first BatchLimit of a set, in the order of the list. *)
Batch(at, S) == {w \in S : Cardinality({v \in S : Before(at, v, w)}) < BatchLimit}

ListDueTimers(d) ==
  LET due == {w \in Waits : IsActive(w) /\ Kind[w] # "EVENT" /\ wakeAt(w) <= actor[d].now}
  IN /\ actor[d].at = "timers"
     /\ Go(d, [actor[d] EXCEPT !.at = "resolveTimers", !.todo = Batch("resolveTimers", due)])
     /\ UNCHANGED <<clock, rows, faults>>

(* Mutant: only the deadline makes a wait resolvable. *)
IsExpired(w, now) == HasDeadline(w) /\ expiresAt(w) <= now

IsResolvable(w, now) ==
  \/ HasDeadline(w) /\ expiresAt(w) <= now
  \/ Candidates(w, now) # {}

ListResolvableEvents(d) ==
  LET resolvable ==
        {w \in Waits : IsActive(w) /\ Kind[w] = "EVENT" /\ IsResolvable(w, actor[d].now)}
  IN /\ actor[d].at = "events"
     /\ Go(d, [actor[d] EXCEPT !.at = "resolveEvents", !.todo = Batch("resolveEvents", resolvable)])
     /\ UNCHANGED <<clock, rows, faults>>

-----------------------------------------------------------------------------
(* The environment. *)

Advance ==
  /\ clock < MaxTime
  /\ clock' = clock + 1
  /\ UNCHANGED <<rows, actor, faults>>

(* The WorkflowRun's row is updated to a terminal status. *)
EndWorkflow(r) ==
  /\ r \notin ended /\ ~IsLocked(r)
  /\ ended' = ended \cup {r}
  /\ UNCHANGED <<clock, startedAt, armed, result, event, actor, faults>>

(* The process dies or a statement fails; an open transaction is undone. *)
Crash(a) ==
  /\ faults < MaxFaults /\ faults' = faults + 1
  /\ actor[a].at \notin {"idle", "done"}
  /\ Go(a, Thrown(a))
  /\ UNCHANGED <<clock, rows>>

-----------------------------------------------------------------------------
Resolve(a) == ListDone(a) \/ \E w \in Waits : Decide(a, w) \/ Commit(a, w)
Ingest(c) == SaveWorkflowEvent(c) \/ ListMatching(c) \/ Resolve(c)
Drive(d) == StartTick(d) \/ ListDueTimers(d) \/ ListResolvableEvents(d) \/ Resolve(d)

Next ==
  \/ \E w \in Waits : EnsureWorkflowWait(w) \/ \E now \in Instants : MarkWaiting(w, now)
  \/ \E c \in Calls : Receive(c) \/ Ingest(c)
  \/ \E d \in Drivers : Drive(d)
  \/ \E a \in Actors : Crash(a)
  \/ \E r \in Runs : EndWorkflow(r)
  \/ Advance

Spec == Init /\ [][Next]_vars

(* A driver polls for ever, a call that was received goes on, and time     *)
(* passes.  Nothing is assumed of clients and of arming.                   *)
Fairness ==
  /\ \A d \in Drivers : WF_vars(Drive(d))
  /\ \A c \in Calls : WF_vars(Ingest(c))
  /\ WF_vars(Advance)

FairSpec == Spec /\ Fairness

-----------------------------------------------------------------------------
(* What a wait was resolved with is true of it: a timer was due, a timeout *)
(* had expired, and an event was stored, matches, and came after the       *)
(* WorkflowRun was created and not after the deadline.  No resolution is   *)
(* older than the wait, however old the instant is the actor worked with.  *)
ResolutionsAreEarned ==
  \A w \in Waits : result[w] # Unresolved =>
    /\ w \in armed /\ startedAt[w] <= result[w].at /\ result[w].at <= clock
    /\ CASE result[w].resolution = "TIMER" ->
              Kind[w] # "EVENT" /\ wakeAt(w) <= result[w].at
         [] result[w].resolution = "TIMEOUT" ->
              HasDeadline(w) /\ expiresAt(w) <= result[w].at
         [] result[w].resolution = "EVENT" ->
              LET e == result[w].event
              IN /\ e \in Stored
                 /\ Match[e] = Match[w] /\ Kind[w] = "EVENT"
                 /\ CreatedAt[RunOf[w]] <= event[e].receivedAt
                 /\ HasDeadline(w) => event[e].receivedAt <= expiresAt(w)

(* An event in time for a wait and durable before the instant the wait was *)
(* resolved at is not overlooked: the wait did not time out, and was not   *)
(* resolved by a later event.  One that was received in time and stored    *)
(* only afterwards may be.                                                 *)
NothingOverlooked ==
  \A w \in Waits : \A f \in Stored :
    /\ result[w].resolution \in {"EVENT", "TIMEOUT"}
    /\ Match[f] = Match[w]
    /\ CreatedAt[RunOf[w]] <= event[f].receivedAt
    /\ HasDeadline(w) => event[f].receivedAt <= expiresAt(w)
    /\ event[f].committedAt < result[w].at
    => /\ result[w].resolution = "EVENT"
       /\ result[w].event = f \/ Earlier(result[w].event, f)

(* Waits implement NodeSuspension. *)
Outcome(w) ==
  IF w \notin armed THEN "absent"
  ELSE CASE result[w].resolution = None -> "open"
         [] result[w].resolution \in {"TIMER", "EVENT"} -> "satisfied"
         [] result[w].resolution = "TIMEOUT" -> "refused"

Suspension == INSTANCE NodeSuspension WITH
  suspension <- [w \in Waits |-> Outcome(w)],
  ended <- {w \in Waits : RunOf[w] \in ended}

(* Whichever actors race for a wait, it is resolved once, for good, and    *)
(* never after its WorkflowRun has ended.                                  *)
ImplementsNodeSuspension == Suspension!Spec

(* A wait that is due, has expired, or for which an event in time is       *)
(* stored, is resolved, unless its WorkflowRun ends: also when the ingest  *)
(* call died after storing, when the event came before the wait, and when  *)
(* a tick is cut short.                                                    *)
IsToBeResolved(w) ==
  /\ w \in armed
  /\ \/ Kind[w] # "EVENT" /\ wakeAt(w) <= clock
     \/ HasDeadline(w) /\ expiresAt(w) <= clock
     \/ \E e \in Stored : IsWorkflowEventEligible(w, e, clock)

DueIsResolved ==
  \A w \in Waits :
    IsToBeResolved(w) ~> result[w] # Unresolved \/ RunOf[w] \in ended
=============================================================================
