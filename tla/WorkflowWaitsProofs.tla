------------------------- MODULE WorkflowWaitsProofs -------------------------
(* Proofs about WorkflowWaits for any runs, waits, events and actors, and  *)
(* any bounds.                                                             *)
EXTENDS WorkflowWaits, WellFoundedInduction, TLAPS

USE WaitsAssumption, NoneAssumption

Events == [receivedAt : Instants, committedAt : Instants]
ActorRecs == [at : Stages, now : Instants, todo : SUBSET Waits, decision : Results \cup {None}]
Resolving == {"resolveMatches", "resolveTimers", "resolveEvents"}

(* An event is received before it is stored.                               *)
EventsOK ==
  \A e \in Stored :
    event[e].receivedAt <= event[e].committedAt /\ event[e].committedAt <= clock

(* An actor works with an instant that has been, on waits that are armed,  *)
(* and its timers are due.                                                 *)
ActorOK(r) ==
  /\ r.now <= clock
  /\ r.todo \subseteq armed
  /\ r.at = "resolveTimers" => \A w \in r.todo : Kind[w] # "EVENT" /\ wakeAt(w) <= r.now
  /\ r.at \in {"resolveMatches", "resolveEvents"} => \A w \in r.todo : Kind[w] = "EVENT"
  /\ r.decision # None => r.at \in Resolving /\ r.todo # {}
ActorsOK == \A a \in Actors : ActorOK(actor[a])

(* A resolution that is true of its wait. *)
Earned(w, d) ==
  /\ w \in armed /\ startedAt[w] <= d.at /\ d.at <= clock
  /\ d.resolution = "TIMER" => Kind[w] # "EVENT" /\ wakeAt(w) <= d.at
  /\ d.resolution = "TIMEOUT" => HasDeadline(w) /\ expiresAt(w) <= d.at
  /\ d.resolution = "EVENT" =>
       /\ d.event \in Stored
       /\ Match[d.event] = Match[w] /\ Kind[w] = "EVENT"
       /\ CreatedAt[RunOf[w]] <= event[d.event].receivedAt
       /\ HasDeadline(w) => event[d.event].receivedAt <= expiresAt(w)

(* A resolution that overlooks no event. *)
IsInTime(f, w) ==
  /\ Match[f] = Match[w]
  /\ CreatedAt[RunOf[w]] <= event[f].receivedAt
  /\ HasDeadline(w) => event[f].receivedAt <= expiresAt(w)
ComesFirst(w, d) ==
  d.resolution \in {"EVENT", "TIMEOUT"} =>
    \A f \in Stored :
      IsInTime(f, w) /\ event[f].committedAt < d.at =>
        /\ d.resolution = "EVENT"
        /\ d.event = f \/ Earlier(d.event, f)

IsTrue(w, d) == Earned(w, d) /\ ComesFirst(w, d)

ResultsOK == \A w \in Waits : result[w] # Unresolved => IsTrue(w, result[w])

(* A decision that has not been written yet is true of a wait that is      *)
(* still open, and nobody else decides for the same WorkflowRun.           *)
Deciding(a, w) == actor[a].decision # None /\ IsNext(a, w)
DecisionsOK ==
  \A a \in Actors, w \in Waits : Deciding(a, w) =>
    IsStillOpen(w) /\ IsTrue(w, actor[a].decision)
LocksOK ==
  \A a, b \in Actors, v, w \in Waits :
    Deciding(a, v) /\ Deciding(b, w) /\ RunOf[v] = RunOf[w] => a = b

IInv == TypeOK /\ EventsOK /\ ActorsOK /\ ResultsOK /\ DecisionsOK /\ LocksOK

-----------------------------------------------------------------------------
(* Types *)

LEMMA RecordsTyped ==
  ASSUME TypeOK
  PROVE  /\ event \in [Calls -> Events \cup {NoEvent}]
         /\ actor \in [Actors -> ActorRecs]
         /\ \A e \in Stored : event[e] \in Events
         /\ \A w \in armed : w \in Waits /\ startedAt[w] \in Instants
<1>1. event \in [Calls -> Events \cup {NoEvent}] /\ actor \in [Actors -> ActorRecs]
  BY DEF TypeOK, Events, ActorRecs
<1>2. \A w \in armed : w \in Waits /\ startedAt[w] \in Instants
  BY DEF TypeOK
<1> QED BY <1>1, <1>2 DEF Stored

LEMMA NoneApart ==
  /\ None \notin Instants /\ NoEvent \notin Events /\ Unresolved \notin Results
  /\ None \notin Results
  /\ Instants \subseteq Nat
BY DEF Instants, NoEvent, Events, Unresolved, Results

LEMMA IdleTyped ==
  /\ Idle \in ActorRecs /\ Idle.at = "idle" /\ Idle.todo = {} /\ Idle.decision = None
  /\ Idle.now = 0
<1>1. 0 \in Instants
  BY DEF Instants
<1> QED BY <1>1 DEF Idle, ActorRecs, Stages

(* The end of a tick or of a call. *)
LEMMA ThrownTyped ==
  ASSUME NEW a \in Actors
  PROVE  /\ Thrown(a) \in ActorRecs /\ Thrown(a).at \in {"idle", "done"}
         /\ Thrown(a).todo = {} /\ Thrown(a).decision = None /\ Thrown(a).now = 0
<1>1. [Idle EXCEPT !.at = "done"] \in ActorRecs
  BY IdleTyped DEF ActorRecs, Stages, Idle
<1> QED BY <1>1, IdleTyped DEF Thrown, Idle

LEMMA OneActor ==
  ASSUME TypeOK, NEW a \in Actors, NEW r \in ActorRecs, actor' = [actor EXCEPT ![a] = r]
  PROVE  /\ actor' \in [Actors -> ActorRecs]
         /\ actor'[a] = r
         /\ \A b \in Actors \ {a} : actor'[b] = actor[b]
BY RecordsTyped

-----------------------------------------------------------------------------
(* Orders *)

LEMMA LeastNat ==
  ASSUME NEW S, S \subseteq Nat, S # {}
  PROVE  \E n \in S : \A k \in S : n <= k
<1>1. PICK n \in S : \A k \in S : ~(<<k, n>> \in OpToRel(<, Nat))
  BY WFMin, NatLessThanWellFounded
<1>2. ASSUME NEW k \in S PROVE n <= k
  <2>1. k \in Nat /\ n \in Nat
    OBVIOUS
  <2>2. ~(k < n)
    BY <1>1, <2>1 DEF OpToRel
  <2> QED BY <2>1, <2>2
<1> QED BY <1>2

(* Of some stored events one came first. *)
LEMMA FirstEvent ==
  ASSUME TypeOK, NEW S, S \subseteq Stored, S # {}
  PROVE  SelectEvent(S) \in S /\ \A f \in S \ {SelectEvent(S)} : Earlier(SelectEvent(S), f)
<1>1. \A e \in S : e \in Nat /\ event[e].receivedAt \in Nat
  <2>1. TAKE e \in S
  <2>2. e \in Calls /\ event[e] \in Events
    BY RecordsTyped DEF Stored
  <2> QED BY <2>2, NoneApart DEF Events
<1>2. PICK m \in {event[e].receivedAt : e \in S} : \A k \in {event[e].receivedAt : e \in S} : m <= k
  <2>1. {event[e].receivedAt : e \in S} \subseteq Nat /\ {event[e].receivedAt : e \in S} # {}
    BY <1>1
  <2> QED BY <2>1, LeastNat
<1>3. PICK e \in {x \in S : event[x].receivedAt = m} :
             \A k \in {x \in S : event[x].receivedAt = m} : e <= k
  <2>1. {x \in S : event[x].receivedAt = m} \subseteq Nat
    BY <1>1
  <2>2. {x \in S : event[x].receivedAt = m} # {}
    BY <1>2
  <2> QED BY <2>1, <2>2, LeastNat
<1>4. ASSUME NEW f \in S \ {e} PROVE Earlier(e, f)
  <2>1. m <= event[f].receivedAt /\ event[e].receivedAt = m
    BY <1>2, <1>3
  <2>2. event[f].receivedAt = m => e <= f
    BY <1>3
  <2>3. m \in Nat /\ e \in Nat /\ f \in Nat /\ event[f].receivedAt \in Nat /\ e # f
    BY <1>1, <1>2, <1>3
  <2> QED BY <2>1, <2>2, <2>3 DEF Earlier
<1>5. e \in S /\ \A f \in S \ {e} : Earlier(e, f)
  BY <1>3, <1>4
<1> QED BY <1>5 DEF SelectEvent

(* The keys that a list of an actor is ordered by. *)
LEMMA KeysTyped ==
  ASSUME TypeOK, NEW r \in ActorRecs, ActorOK(r), r.at \in Resolving, NEW w \in r.todo
  PROVE  SortKey(r.at, w) \in Int /\ w \in Nat
<1>1. w \in Waits /\ startedAt[w] \in Nat
  BY RecordsTyped, NoneApart DEF ActorOK
<1>2. CASE r.at = "resolveTimers"
  <2>1. Kind[w] # "EVENT"
    BY <1>2 DEF ActorOK
  <2>2. Span[w] \in Nat
    BY <1>1, <2>1
  <2>3. wakeAt(w) \in Int
    BY <1>1, <2>2 DEF wakeAt
  <2> QED BY <1>1, <1>2, <2>3 DEF SortKey
<1>3. CASE r.at = "resolveEvents"
  BY <1>1, <1>3 DEF SortKey, armedAt
<1>4. CASE r.at = "resolveMatches"
  BY <1>1, <1>4 DEF SortKey
<1> QED BY <1>2, <1>3, <1>4 DEF Resolving

LEMMA OneIsNext ==
  ASSUME IInv, NEW a \in Actors, NEW v \in Waits, NEW w \in Waits, IsNext(a, v), IsNext(a, w)
  PROVE  v = w
<1>1. PICK r \in ActorRecs : r = actor[a]
  BY RecordsTyped DEF IInv
<1>2. ActorOK(r) /\ r.at \in Resolving /\ v \in r.todo /\ w \in r.todo
  BY <1>1 DEF IInv, ActorsOK, IsNext, IsResolving, Resolving
<1>3. /\ SortKey(r.at, v) \in Int /\ v \in Nat
      /\ SortKey(r.at, w) \in Int /\ w \in Nat
  BY <1>2, KeysTyped DEF IInv
<1>4. v # w => Before(r.at, v, w) /\ Before(r.at, w, v)
  BY <1>1, <1>2 DEF IsNext
<1> QED BY <1>3, <1>4 DEF Before

-----------------------------------------------------------------------------
(* Nothing that was true of a wait is undone: rows stay, time goes on, and *)
(* an event that is stored now is stored too late for what was decided.    *)

Forward ==
  /\ clock \in Nat /\ clock' \in Nat /\ clock <= clock'
  /\ armed \subseteq armed'
  /\ \A w \in armed : startedAt'[w] = startedAt[w]
  /\ \A e \in Stored : e \in Stored' /\ event'[e] = event[e]
  /\ \A e \in Stored' \ Stored : clock <= event'[e].committedAt

LEMMA StoredTyped ==
  ASSUME TypeOK, NEW e \in Stored
  PROVE  /\ e \in Calls /\ e \in Nat
         /\ event[e].receivedAt \in Nat /\ event[e].committedAt \in Nat
<1>1. e \in Calls /\ event[e] \in Events
  BY RecordsTyped DEF Stored
<1> QED BY <1>1, NoneApart DEF Events

LEMMA EarnedKept ==
  ASSUME TypeOK, Forward, NEW w \in Waits, NEW d \in Results, Earned(w, d)
  PROVE  Earned(w, d)'
<1>1. w \in armed /\ w \in armed' /\ startedAt'[w] = startedAt[w]
  BY DEF Earned, Forward
<1>2. d.at \in Nat /\ d.at <= clock'
  <2>1. d.at \in Nat
    BY NoneApart DEF Results
  <2>2. d.at <= clock
    BY DEF Earned
  <2>3. clock \in Nat /\ clock' \in Nat /\ clock <= clock'
    BY DEF Forward
  <2> QED BY <2>1, <2>2, <2>3
<1>3. d.resolution = "TIMER" => (Kind[w] # "EVENT" /\ wakeAt(w) <= d.at)'
  BY <1>1 DEF Earned, wakeAt
<1>4. d.resolution = "TIMEOUT" => (HasDeadline(w) /\ expiresAt(w) <= d.at)'
  BY <1>1 DEF Earned, HasDeadline, expiresAt
<1>5. ASSUME d.resolution = "EVENT"
      PROVE  /\ d.event \in Stored'
             /\ Match[d.event] = Match[w] /\ Kind[w] = "EVENT"
             /\ CreatedAt[RunOf[w]] <= event'[d.event].receivedAt
             /\ HasDeadline(w) => event'[d.event].receivedAt <= expiresAt(w)'
  <2>1. d.event \in Stored' /\ event'[d.event] = event[d.event]
    BY <1>5 DEF Earned, Forward
  <2>2. expiresAt(w)' = expiresAt(w)
    BY <1>1 DEF expiresAt
  <2> QED BY <1>5, <2>1, <2>2 DEF Earned
<1>6. startedAt'[w] <= d.at
  BY <1>1 DEF Earned
<1>7. HasDeadline(w)' <=> HasDeadline(w)
  BY DEF HasDeadline
<1> QED BY <1>1, <1>2, <1>3, <1>4, <1>5, <1>6, <1>7 DEF Earned

LEMMA ComesFirstKept ==
  ASSUME TypeOK, TypeOK', Forward, NEW w \in Waits, NEW d \in Results, Earned(w, d),
         ComesFirst(w, d)
  PROVE  ComesFirst(w, d)'
<1>1. SUFFICES ASSUME d.resolution \in {"EVENT", "TIMEOUT"}, NEW f \in Stored',
                      IsInTime(f, w)', event'[f].committedAt < d.at
               PROVE  (d.resolution = "EVENT" /\ (d.event = f \/ Earlier(d.event, f)))'
  BY DEF ComesFirst
<1>2. w \in armed /\ startedAt'[w] = startedAt[w] /\ d.at <= clock /\ d.at \in Nat
  BY NoneApart DEF Earned, Forward, Results
<1>3. event'[f].committedAt \in Nat
  <2>1. f \in Calls /\ event' \in [Calls -> Events \cup {NoEvent}] /\ event'[f] # NoEvent
    BY DEF TypeOK, Events, Stored
  <2> QED BY <2>1, NoneApart DEF Events
<1>4. f \in Stored
  <2>1. ~(clock <= event'[f].committedAt)
    BY <1>1, <1>2, <1>3 DEF Forward
  <2> QED BY <2>1 DEF Forward
<1>5. event'[f] = event[f]
  BY <1>4 DEF Forward
<1>6. IsInTime(f, w)
  BY <1>1, <1>2, <1>5 DEF IsInTime, HasDeadline, expiresAt
<1>7. d.resolution = "EVENT" /\ (d.event = f \/ Earlier(d.event, f))
  BY <1>1, <1>4, <1>5, <1>6 DEF ComesFirst
<1>8. event'[d.event] = event[d.event]
  BY <1>7 DEF Earned, Forward
<1>9. Earlier(d.event, f)' <=> Earlier(d.event, f)
  BY <1>5, <1>8 DEF Earlier
<1> QED BY <1>7, <1>9

LEMMA TruthKept ==
  ASSUME TypeOK, TypeOK', Forward, NEW w \in Waits, NEW d \in Results, IsTrue(w, d)
  PROVE  IsTrue(w, d)'
BY EarnedKept, ComesFirstKept DEF IsTrue

(* What an actor remembers stays so. *)
LEMMA ActorKept ==
  ASSUME TypeOK, Forward, NEW r \in ActorRecs, ActorOK(r)
  PROVE  ActorOK(r)'
<1>1. r.now \in Nat /\ r.now <= clock'
  <2>1. r.now \in Nat
    BY NoneApart DEF ActorRecs
  <2>2. r.now <= clock
    BY DEF ActorOK
  <2>3. clock \in Nat /\ clock' \in Nat /\ clock <= clock'
    BY DEF Forward
  <2> QED BY <2>1, <2>2, <2>3
<1>2. r.todo \subseteq armed'
  BY DEF ActorOK, Forward
<1>3. \A w \in r.todo : wakeAt(w)' = wakeAt(w)
  BY DEF ActorOK, Forward, wakeAt
<1> QED BY <1>1, <1>2, <1>3 DEF ActorOK

(* The next wait of an actor stays the next one. *)
LEMMA NextKept ==
  ASSUME TypeOK, Forward, NEW a \in Actors, ActorOK(actor[a]), actor'[a].at = actor[a].at,
         actor'[a].todo = actor[a].todo, NEW w \in Waits
  PROVE  IsNext(a, w)' <=> IsNext(a, w)
<1>1. ASSUME NEW v \in actor[a].todo PROVE SortKey(actor[a].at, v)' = SortKey(actor[a].at, v)
  <2>1. startedAt'[v] = startedAt[v]
    BY DEF ActorOK, Forward
  <2> QED BY <2>1 DEF SortKey, wakeAt, armedAt
<1>2. ASSUME NEW v \in actor[a].todo, NEW u \in actor[a].todo
      PROVE  Before(actor[a].at, v, u)' <=> Before(actor[a].at, v, u)
  BY <1>1 DEF Before
<1> QED BY <1>2 DEF IsNext, IsResolving

-----------------------------------------------------------------------------
(* Steps *)

(* Any step: it goes forward, a result that is new is a true one, and a    *)
(* decision is an old one, or a true one about an open wait.               *)
LEMMA AnyStep ==
  ASSUME IInv, TypeOK', Forward, EventsOK',
         \A a \in Actors : actor'[a] = actor[a] \/ ActorOK(actor[a])',
         \A w \in Waits : \/ result'[w] = result[w]
                          \/ result'[w] \in Results /\ IsTrue(w, result'[w]),
         \A a \in Actors, w \in Waits : Deciding(a, w)' =>
           /\ IsStillOpen(w)'
           /\ \/ Deciding(a, w) /\ actor'[a].decision = actor[a].decision
              \/ actor'[a].decision \in Results /\ IsTrue(w, actor'[a].decision),
         LocksOK'
  PROVE  IInv'
<1>0. TypeOK /\ ActorsOK /\ ResultsOK /\ DecisionsOK
  BY DEF IInv
<1>1. ASSUME NEW a \in Actors PROVE ActorOK(actor[a])'
  <2>1. CASE actor'[a] = actor[a]
    <3>1. PICK r \in ActorRecs : r = actor[a]
      BY <1>0, RecordsTyped
    <3>2. ActorOK(r)'
      BY <1>0, <3>1, ActorKept DEF ActorsOK
    <3> QED BY <2>1, <3>1, <3>2
  <2> QED BY <2>1
<1>2. ASSUME NEW w \in Waits, result'[w] # Unresolved PROVE IsTrue(w, result[w])'
  <2>1. result'[w] \in Results /\ IsTrue(w, result'[w])
    <3>1. CASE result'[w] = result[w]
      BY <1>0, <1>2, <3>1 DEF ResultsOK, TypeOK
    <3> QED BY <3>1
  <2>2. PICK d \in Results : d = result'[w]
    BY <2>1
  <2>3. IsTrue(w, d)'
    BY <1>0, <2>1, <2>2, TruthKept
  <2> QED BY <2>2, <2>3
<1>3. ASSUME NEW a \in Actors, NEW w \in Waits, Deciding(a, w)'
      PROVE  IsStillOpen(w)' /\ IsTrue(w, actor[a].decision)'
  <2>1. actor'[a].decision \in Results /\ IsTrue(w, actor'[a].decision)
    <3>1. CASE Deciding(a, w) /\ actor'[a].decision = actor[a].decision
      <4>1. actor[a].decision \in Results
        BY <3>1, <1>0, RecordsTyped DEF Deciding, ActorRecs
      <4> QED BY <3>1, <4>1, <1>0 DEF DecisionsOK
    <3> QED BY <1>3, <3>1
  <2>2. PICK d \in Results : d = actor'[a].decision
    BY <2>1
  <2>3. IsTrue(w, d)'
    BY <1>0, <2>1, <2>2, TruthKept
  <2> QED BY <1>3, <2>2, <2>3
<1>4. ActorsOK'
  BY <1>1 DEF ActorsOK
<1>5. ResultsOK'
  BY <1>2 DEF ResultsOK
<1>6. DecisionsOK'
  BY <1>3 DEF DecisionsOK
<1> QED BY <1>4, <1>5, <1>6 DEF IInv

(* What an actor that does not move decides. *)
LEMMA DecidingKept ==
  ASSUME IInv, Forward, NEW a \in Actors, actor'[a] = actor[a], NEW w \in Waits
  PROVE  Deciding(a, w)' <=> Deciding(a, w)
<1>1. IsNext(a, w)' <=> IsNext(a, w)
  BY NextKept DEF IInv, ActorsOK
<1> QED BY <1>1 DEF Deciding

(* A step of an actor that decides nothing and writes no result. *)
LEMMA ActorStep ==
  ASSUME IInv, Forward, EventsOK', NEW a \in Actors, NEW r \in ActorRecs,
         actor' = [actor EXCEPT ![a] = r], r.decision = None, ActorOK(r)',
         event' \in [Calls -> Events \cup {NoEvent}], faults' \in 0 .. MaxFaults,
         UNCHANGED <<clock, ended, startedAt, armed, result>>
  PROVE  IInv'
<1>1. /\ actor' \in [Actors -> ActorRecs]
      /\ actor'[a] = r
      /\ \A b \in Actors \ {a} : actor'[b] = actor[b]
  BY OneActor DEF IInv
<1>2. TypeOK'
  BY <1>1 DEF IInv, TypeOK, ActorRecs, Events
<1>3. \A b \in Actors : actor'[b] = actor[b] \/ ActorOK(actor[b])'
  BY <1>1
<1>4. ASSUME NEW b \in Actors, NEW w \in Waits, Deciding(b, w)'
      PROVE  /\ b # a /\ actor'[b] = actor[b] /\ Deciding(b, w) /\ IsStillOpen(w)'
  <2>1. b # a
    BY <1>1, <1>4 DEF Deciding
  <2>2. actor'[b] = actor[b]
    BY <1>1, <2>1
  <2>3. Deciding(b, w)
    BY <1>4, <2>2, DecidingKept
  <2>4. IsStillOpen(w)
    BY <2>3 DEF IInv, DecisionsOK
  <2> QED BY <2>1, <2>2, <2>3, <2>4 DEF IsStillOpen
<1>5. LocksOK'
  <2>1. ASSUME NEW b \in Actors, NEW c \in Actors, NEW v \in Waits, NEW w \in Waits,
               Deciding(b, v)', Deciding(c, w)', RunOf[v] = RunOf[w]
        PROVE  b = c
    BY <1>4, <2>1 DEF IInv, LocksOK
  <2> QED BY <2>1 DEF LocksOK
<1> QED BY <1>2, <1>3, <1>4, <1>5, AnyStep

(* A step that no actor takes. *)
LEMMA RowStep ==
  ASSUME IInv, TypeOK', Forward, UNCHANGED <<result, event, actor>>,
         \A a \in Actors, w \in Waits : Deciding(a, w) => RunOf[w] \notin ended'
  PROVE  IInv'
<1>1. EventsOK'
  <2>1. ASSUME NEW e \in Stored
        PROVE  event[e].receivedAt <= event[e].committedAt /\ event[e].committedAt <= clock'
    <3>1. event[e].committedAt \in Nat
      BY StoredTyped DEF IInv
    <3>2. clock \in Nat /\ clock' \in Nat /\ clock <= clock'
      BY DEF Forward
    <3>3. event[e].receivedAt <= event[e].committedAt /\ event[e].committedAt <= clock
      BY DEF IInv, EventsOK
    <3> QED BY <3>1, <3>2, <3>3
  <2> QED BY <2>1 DEF EventsOK, Stored
<1>2. ASSUME NEW b \in Actors, NEW w \in Waits, Deciding(b, w)'
      PROVE  Deciding(b, w) /\ IsStillOpen(w)'
  <2>1. Deciding(b, w)
    BY <1>2, DecidingKept
  <2>2. IsStillOpen(w) /\ RunOf[w] \notin ended'
    BY <2>1 DEF IInv, DecisionsOK
  <2> QED BY <2>1, <2>2 DEF IsStillOpen
<1>3. LocksOK'
  <2>1. ASSUME NEW b \in Actors, NEW c \in Actors, NEW v \in Waits, NEW w \in Waits,
               Deciding(b, v)', Deciding(c, w)', RunOf[v] = RunOf[w]
        PROVE  b = c
    BY <1>2, <2>1 DEF IInv, LocksOK
  <2> QED BY <2>1 DEF LocksOK
<1> QED BY <1>1, <1>2, <1>3, AnyStep

-----------------------------------------------------------------------------
(* The steps of an actor that only reads. *)

LEMMA StillForward ==
  ASSUME TypeOK, UNCHANGED <<clock, startedAt, armed, event>>
  PROVE  Forward
<1>1. clock \in Nat
  BY NoneApart DEF TypeOK
<1> QED BY <1>1 DEF Forward, Stored

LEMMA ReadStep ==
  ASSUME IInv, NEW a \in Actors, NEW r \in ActorRecs, Go(a, r), r.decision = None, ActorOK(r),
         faults' \in 0 .. MaxFaults, UNCHANGED <<clock, rows>>
  PROVE  IInv'
<1>1. UNCHANGED <<clock, ended, startedAt, armed, result, event>>
  BY DEF rows
<1>2. Forward
  BY <1>1, StillForward DEF IInv
<1>3. EventsOK'
  BY <1>1 DEF IInv, EventsOK, Stored
<1>4. ActorOK(r)'
  BY <1>2, ActorKept DEF IInv
<1>5. event' \in [Calls -> Events \cup {NoEvent}]
  BY <1>1, RecordsTyped DEF IInv
<1>6. actor' = [actor EXCEPT ![a] = r]
  BY DEF Go
<1> QED BY <1>1, <1>2, <1>3, <1>4, <1>5, <1>6, ActorStep

LEMMA FaultsTyped == ASSUME IInv PROVE faults \in 0 .. MaxFaults
BY DEF IInv, TypeOK

(* An actor that has nothing to do. *)
LEMMA RestingOK ==
  ASSUME IInv, NEW r \in ActorRecs, r.todo = {}, r.decision = None, r.now <= clock
  PROVE  ActorOK(r)
BY DEF ActorOK

LEMMA ClockAhead == ASSUME IInv PROVE clock \in Instants /\ 0 <= clock /\ clock <= clock
BY NoneApart DEF IInv, TypeOK, Instants

LEMMA ReceiveInv ==
  ASSUME IInv, NEW c \in Calls, Receive(c)
  PROVE  IInv'
<1>1. c \in Actors
  BY DEF Actors
<1>2. PICK r \in ActorRecs : r = [Idle EXCEPT !.at = "save", !.now = clock]
  BY ClockAhead, IdleTyped DEF ActorRecs, Stages
<1>3. r.todo = {} /\ r.decision = None /\ r.now = clock
  BY <1>2 DEF Idle
<1>4. ActorOK(r)
  BY <1>3, RestingOK, ClockAhead
<1>5. Go(c, r) /\ UNCHANGED <<clock, rows>> /\ faults' \in 0 .. MaxFaults
  BY <1>2, FaultsTyped DEF Receive
<1> QED BY <1>1, <1>3, <1>4, <1>5, ReadStep

LEMMA StartTickInv ==
  ASSUME IInv, NEW d \in Drivers, StartTick(d)
  PROVE  IInv'
<1>1. d \in Actors
  BY DEF Actors
<1>2. PICK r \in ActorRecs : r = [Idle EXCEPT !.at = "timers", !.now = clock]
  BY ClockAhead, IdleTyped DEF ActorRecs, Stages
<1>3. r.todo = {} /\ r.decision = None /\ r.now = clock
  BY <1>2 DEF Idle
<1>4. ActorOK(r)
  BY <1>3, RestingOK, ClockAhead
<1>5. Go(d, r) /\ UNCHANGED <<clock, rows>> /\ faults' \in 0 .. MaxFaults
  BY <1>2, FaultsTyped DEF StartTick
<1> QED BY <1>1, <1>3, <1>4, <1>5, ReadStep

(* The record of an actor. *)
LEMMA ActorTyped ==
  ASSUME IInv, NEW a \in Actors
  PROVE  /\ actor[a] \in ActorRecs /\ ActorOK(actor[a])
         /\ actor[a].at \in Stages /\ actor[a].now \in Instants /\ actor[a].todo \subseteq Waits
         /\ actor[a].decision \in Results \cup {None}
         /\ actor[a].at \notin Resolving => actor[a].decision = None
<1>1. actor[a] \in ActorRecs /\ ActorOK(actor[a])
  BY RecordsTyped DEF IInv, ActorsOK
<1> QED BY <1>1 DEF ActorRecs, ActorOK

LEMMA ListMatchingInv ==
  ASSUME IInv, NEW c \in Calls, ListMatching(c)
  PROVE  IInv'
<1>1. c \in Actors
  BY DEF Actors
<1>2. PICK S \in SUBSET Waits :
        S = {w \in Waits : IsActive(w) /\ Kind[w] = "EVENT" /\ Match[w] = Match[c]}
  OBVIOUS
<1>3. S \subseteq armed /\ \A w \in S : Kind[w] = "EVENT"
  BY <1>2 DEF IsActive
<1>4. PICK r \in ActorRecs : r = [actor[c] EXCEPT !.at = "resolveMatches", !.todo = S]
  BY <1>1, ActorTyped DEF ActorRecs, Stages
<1>5. /\ r.at = "resolveMatches" /\ r.todo = S /\ r.now = actor[c].now
      /\ r.decision = None
  BY <1>1, <1>4, ActorTyped DEF ActorRecs, ListMatching, Resolving
<1>6. ActorOK(r)
  <2>1. ActorOK(actor[c])
    BY <1>1, ActorTyped
  <2> QED BY <1>3, <1>5, <2>1 DEF ActorOK
<1>7. Go(c, r) /\ UNCHANGED <<clock, rows>> /\ faults' \in 0 .. MaxFaults
  BY <1>2, <1>4, FaultsTyped DEF ListMatching
<1> QED BY <1>1, <1>5, <1>6, <1>7, ReadStep

LEMMA ListDueTimersInv ==
  ASSUME IInv, NEW d \in Drivers, ListDueTimers(d)
  PROVE  IInv'
<1>1. d \in Actors
  BY DEF Actors
<1>2. PICK D \in SUBSET Waits :
        D = {w \in Waits : IsActive(w) /\ Kind[w] # "EVENT" /\ wakeAt(w) <= actor[d].now}
  OBVIOUS
<1>3. PICK S \in SUBSET Waits : S = Batch("resolveTimers", D)
  BY DEF Batch
<1>4. S \subseteq armed /\ \A w \in S : Kind[w] # "EVENT" /\ wakeAt(w) <= actor[d].now
  <2>1. S \subseteq D
    BY <1>3 DEF Batch
  <2> QED BY <1>2, <2>1 DEF IsActive
<1>5. PICK r \in ActorRecs : r = [actor[d] EXCEPT !.at = "resolveTimers", !.todo = S]
  BY <1>1, ActorTyped DEF ActorRecs, Stages
<1>6. /\ r.at = "resolveTimers" /\ r.todo = S /\ r.now = actor[d].now
      /\ r.decision = None
  BY <1>1, <1>5, ActorTyped DEF ActorRecs, ListDueTimers, Resolving
<1>7. ActorOK(r)
  <2>1. ActorOK(actor[d])
    BY <1>1, ActorTyped
  <2> QED BY <1>4, <1>6, <2>1 DEF ActorOK
<1>8. Go(d, r) /\ UNCHANGED <<clock, rows>> /\ faults' \in 0 .. MaxFaults
  BY <1>2, <1>3, <1>5, FaultsTyped DEF ListDueTimers
<1> QED BY <1>1, <1>6, <1>7, <1>8, ReadStep

LEMMA ListResolvableEventsInv ==
  ASSUME IInv, NEW d \in Drivers, ListResolvableEvents(d)
  PROVE  IInv'
<1>1. d \in Actors
  BY DEF Actors
<1>2. PICK D \in SUBSET Waits :
        D = {w \in Waits : IsActive(w) /\ Kind[w] = "EVENT" /\ IsResolvable(w, actor[d].now)}
  OBVIOUS
<1>3. PICK S \in SUBSET Waits : S = Batch("resolveEvents", D)
  BY DEF Batch
<1>4. S \subseteq armed /\ \A w \in S : Kind[w] = "EVENT"
  <2>1. S \subseteq D
    BY <1>3 DEF Batch
  <2> QED BY <1>2, <2>1 DEF IsActive
<1>5. PICK r \in ActorRecs : r = [actor[d] EXCEPT !.at = "resolveEvents", !.todo = S]
  BY <1>1, ActorTyped DEF ActorRecs, Stages
<1>6. /\ r.at = "resolveEvents" /\ r.todo = S /\ r.now = actor[d].now
      /\ r.decision = None
  BY <1>1, <1>5, ActorTyped DEF ActorRecs, ListResolvableEvents, Resolving
<1>7. ActorOK(r)
  <2>1. ActorOK(actor[d])
    BY <1>1, ActorTyped
  <2> QED BY <1>4, <1>6, <2>1 DEF ActorOK
<1>8. Go(d, r) /\ UNCHANGED <<clock, rows>> /\ faults' \in 0 .. MaxFaults
  BY <1>2, <1>3, <1>5, FaultsTyped DEF ListResolvableEvents
<1> QED BY <1>1, <1>6, <1>7, <1>8, ReadStep

LEMMA ListDoneInv ==
  ASSUME IInv, NEW a \in Actors, ListDone(a)
  PROVE  IInv'
<1>1. actor[a].todo = {} /\ actor[a].decision = None /\ actor[a].now <= clock
  BY ActorTyped DEF ListDone, ActorOK
<1>2. /\ [Idle EXCEPT !.at = "done"] \in ActorRecs
      /\ [Idle EXCEPT !.at = "done"].todo = {} /\ [Idle EXCEPT !.at = "done"].decision = None
      /\ [Idle EXCEPT !.at = "done"].now <= clock
  BY ClockAhead, IdleTyped DEF ActorRecs, Stages, Idle
<1>3. PICK d \in ActorRecs : d = [Idle EXCEPT !.at = "done"]
  BY <1>2
<1>4. PICK e \in ActorRecs : e = [actor[a] EXCEPT !.at = "events"]
  BY ActorTyped DEF ActorRecs, Stages
<1>5. e.todo = {} /\ e.decision = None /\ e.now <= clock
  BY <1>1, <1>4, ActorTyped DEF ActorRecs
<1>6. PICK r \in ActorRecs : Go(a, r) /\ r.todo = {} /\ r.decision = None /\ r.now <= clock
  <2>1. CASE actor[a].at = "resolveMatches"
    BY <1>2, <1>3, <2>1 DEF ListDone
  <2>2. CASE actor[a].at = "resolveTimers"
    BY <1>4, <1>5, <2>2 DEF ListDone
  <2>3. CASE actor[a].at = "resolveEvents"
    BY <2>3, IdleTyped, ClockAhead DEF ListDone
  <2> QED BY <2>1, <2>2, <2>3 DEF ListDone, IsResolving
<1>7. ActorOK(r)
  BY <1>6, RestingOK
<1>8. UNCHANGED <<clock, rows>> /\ faults' \in 0 .. MaxFaults
  BY FaultsTyped DEF ListDone
<1> QED BY <1>6, <1>7, <1>8, ReadStep

LEMMA CrashInv ==
  ASSUME IInv, NEW a \in Actors, Crash(a)
  PROVE  IInv'
<1>1. PICK r \in ActorRecs : r = Thrown(a)
  BY ThrownTyped
<1>2. r.todo = {} /\ r.decision = None /\ r.now <= clock
  BY <1>1, ThrownTyped, ClockAhead
<1>3. ActorOK(r)
  BY <1>2, RestingOK
<1>4. Go(a, r) /\ UNCHANGED <<clock, rows>> /\ faults' \in 0 .. MaxFaults
  BY <1>1, FaultsTyped DEF Crash
<1> QED BY <1>2, <1>3, <1>4, ReadStep

-----------------------------------------------------------------------------
(* The call stores its event, or finds that it is there. *)
LEMMA SaveWorkflowEventInv ==
  ASSUME IInv, NEW c \in Calls, SaveWorkflowEvent(c)
  PROVE  IInv'
<1>0. c \in Actors /\ TypeOK
  BY DEF Actors, IInv
<1>1. PICK n \in Events : n = [receivedAt |-> actor[c].now, committedAt |-> clock]
  BY <1>0, ActorTyped, ClockAhead DEF Events
<1>2. n.receivedAt = actor[c].now /\ n.committedAt = clock /\ n # NoEvent
  BY <1>1, NoneApart
<1>3. \/ event' = event
      \/ c \notin Stored /\ event' = [event EXCEPT ![c] = n]
  BY <1>1 DEF SaveWorkflowEvent
<1>4. event \in [Calls -> Events \cup {NoEvent}]
  BY <1>0, RecordsTyped
<1>5. UNCHANGED <<clock, ended, startedAt, armed, result>> /\ faults' \in 0 .. MaxFaults
  BY FaultsTyped DEF SaveWorkflowEvent
<1>6. Forward /\ EventsOK' /\ event' \in [Calls -> Events \cup {NoEvent}]
  <2>1. CASE event' = event
    <3>1. Forward
      BY <1>0, <1>5, <2>1, StillForward
    <3> QED BY <1>4, <1>5, <2>1, <3>1 DEF IInv, EventsOK, Stored
  <2>2. CASE c \notin Stored /\ event' = [event EXCEPT ![c] = n]
    <3>1. event' \in [Calls -> Events \cup {NoEvent}] /\ event'[c] = n
      BY <1>4, <2>2
    <3>2. \A e \in Calls \ {c} : event'[e] = event[e]
      BY <1>4, <2>2
    <3>3. Stored' = Stored \cup {c}
      BY <1>2, <3>1, <3>2 DEF Stored
    <3>4. \A e \in Stored : e \in Stored' /\ event'[e] = event[e]
      BY <2>2, <3>2, <3>3 DEF Stored
    <3>5. clock \in Nat
      BY ClockAhead, NoneApart
    <3>6. clock <= event'[c].committedAt
      BY <1>2, <3>1, <3>5
    <3>7. Forward
      BY <1>5, <3>3, <3>4, <3>5, <3>6 DEF Forward
    <3>8. actor[c].now <= clock
      BY <1>0, ActorTyped DEF ActorOK
    <3>9. ASSUME NEW e \in Stored'
          PROVE  (event[e].receivedAt <= event[e].committedAt /\ event[e].committedAt <= clock)'
      <4>1. CASE e = c
        BY <1>2, <1>5, <3>1, <3>5, <3>8, <4>1
      <4>2. CASE e # c
        <5>1. e \in Stored /\ event'[e] = event[e]
          BY <3>3, <3>4, <4>2
        <5> QED BY <1>5, <5>1 DEF IInv, EventsOK
      <4> QED BY <4>1, <4>2
    <3>10. EventsOK'
      BY <3>9 DEF EventsOK
    <3> QED BY <3>1, <3>7, <3>10
  <2> QED BY <1>3, <2>1, <2>2
<1>7. actor[c].at = "save"
  BY DEF SaveWorkflowEvent
<1>8. PICK l \in ActorRecs : l = [actor[c] EXCEPT !.at = "list"]
  BY <1>0, ActorTyped DEF ActorRecs, Stages
<1>9. /\ l.at = "list" /\ l.now = actor[c].now /\ l.todo = actor[c].todo
      /\ l.decision = None
  BY <1>0, <1>7, <1>8, ActorTyped DEF ActorRecs, Resolving
<1>10. ActorOK(l)
  <2>1. ActorOK(actor[c])
    BY <1>0, ActorTyped
  <2> QED BY <1>9, <2>1 DEF ActorOK
<1>11. PICK t \in ActorRecs : t = Thrown(c)
  BY <1>0, ThrownTyped
<1>12. t.todo = {} /\ t.decision = None /\ t.now <= clock
  BY <1>0, <1>11, ThrownTyped, ClockAhead
<1>13. ActorOK(t)
  BY <1>12, RestingOK
<1>14. Go(c, t) \/ Go(c, l)
  BY <1>8, <1>11 DEF SaveWorkflowEvent
<1>15. ActorOK(l)' /\ ActorOK(t)'
  BY <1>0, <1>6, <1>10, <1>13, ActorKept
<1>16. actor' = [actor EXCEPT ![c] = t] \/ actor' = [actor EXCEPT ![c] = l]
  BY <1>14 DEF Go
<1> QED BY <1>0, <1>5, <1>6, <1>9, <1>12, <1>15, <1>16, ActorStep

-----------------------------------------------------------------------------
(* What is decided is true: a timer that was listed is due, the first of   *)
(* the candidates comes before any other, and without a candidate no event *)
(* that was durable before is in time.                                     *)

LEMMA OlderIsCandidate ==
  ASSUME IInv, NEW w \in Waits, Kind[w] = "EVENT", NEW now \in Nat, NEW f \in Stored,
         IsInTime(f, w), event[f].committedAt < now
  PROVE  f \in Candidates(w, now)
<1>1. event[f].receivedAt \in Nat /\ event[f].committedAt \in Nat
  BY StoredTyped DEF IInv
<1>2. event[f].receivedAt <= event[f].committedAt
  BY DEF IInv, EventsOK
<1>3. event[f].receivedAt <= now
  BY <1>1, <1>2
<1> QED BY <1>3 DEF Candidates, IsWorkflowEventEligible, IsInTime, eligibleFrom

LEMMA DecisionTyped ==
  ASSUME NEW now \in Instants
  PROVE  /\ \A kind \in {"TIMER", "TIMEOUT"} :
              /\ Resolution(kind, None, now) \in Results
              /\ Resolution(kind, None, now).resolution = kind
              /\ Resolution(kind, None, now).at = now
         /\ \A e \in Calls :
              /\ Resolution("EVENT", e, now) \in Results
              /\ Resolution("EVENT", e, now).resolution = "EVENT"
              /\ Resolution("EVENT", e, now).event = e
              /\ Resolution("EVENT", e, now).at = now
BY DEF Resolution, Results

LEMMA DecidedIsTrue ==
  ASSUME IInv, NEW a \in Actors, NEW w \in Waits, IsNext(a, w),
         NEW d, d = DecideWait(w, actor[a].now), d # None, armedAt(w) <= actor[a].now
  PROVE  d \in Results /\ IsTrue(w, d)
<1> DEFINE now == actor[a].now
<1>1. /\ now \in Instants /\ now \in Nat /\ now <= clock /\ w \in armed
      /\ startedAt[w] \in Nat /\ startedAt[w] <= now
  <2>1. actor[a].now \in Instants /\ ActorOK(actor[a]) /\ w \in actor[a].todo
    BY ActorTyped DEF IsNext
  <2>2. w \in armed /\ actor[a].now <= clock
    BY <2>1 DEF ActorOK
  <2> QED BY <2>1, <2>2, NoneApart, RecordsTyped DEF IInv, armedAt
<1>2. CASE Kind[w] # "EVENT"
  <2>1. d = Resolution("TIMER", None, now)
    BY <1>2 DEF DecideWait
  <2>2. d \in Results /\ d.resolution = "TIMER" /\ d.at = now
    <3> HIDE DEF now
    <3> QED BY <1>1, <2>1, DecisionTyped
  <2>3. wakeAt(w) <= now
    <3>1. ActorOK(actor[a]) /\ w \in actor[a].todo /\ actor[a].at \in Resolving
      BY ActorTyped DEF IsNext, IsResolving, Resolving
    <3>2. actor[a].at = "resolveTimers"
      BY <1>2, <3>1 DEF ActorOK, Resolving
    <3> QED BY <3>1, <3>2 DEF ActorOK
  <2>4. Earned(w, d)
    <3> HIDE DEF now
    <3> QED BY <1>1, <1>2, <2>2, <2>3 DEF Earned
  <2>5. ComesFirst(w, d)
    BY <2>2 DEF ComesFirst
  <2> QED BY <2>2, <2>4, <2>5 DEF IsTrue
<1>3. CASE Kind[w] = "EVENT" /\ Candidates(w, now) # {}
  <2>1. PICK e : e = SelectEvent(Candidates(w, now))
    OBVIOUS
  <2>2. Candidates(w, now) \subseteq Stored
    BY DEF Candidates
  <2>3. e \in Candidates(w, now) /\ \A f \in Candidates(w, now) \ {e} : Earlier(e, f)
    BY <1>3, <2>1, <2>2, FirstEvent DEF IInv
  <2>4. e \in Stored /\ e \in Calls /\ IsWorkflowEventEligible(w, e, now)
    BY <2>3 DEF Candidates, Stored
  <2>5. d = Resolution("EVENT", e, now)
    BY <1>3, <2>1 DEF DecideWait, DecideEventWait
  <2>6. d \in Results /\ d.resolution = "EVENT" /\ d.event = e /\ d.at = now
    BY <1>1, <2>4, <2>5, DecisionTyped
  <2>7. Earned(w, d)
    <3> HIDE DEF now
    <3> QED BY <1>1, <1>3, <2>4, <2>6 DEF Earned, IsWorkflowEventEligible, eligibleFrom
  <2>8. ASSUME NEW f \in Stored, IsInTime(f, w), event[f].committedAt < d.at
        PROVE  d.event = f \/ Earlier(d.event, f)
    <3>1. f \in Candidates(w, now)
      BY <1>1, <1>3, <2>6, <2>8, OlderIsCandidate
    <3> QED BY <2>3, <2>6, <3>1
  <2>9. ComesFirst(w, d)
    BY <2>6, <2>8 DEF ComesFirst
  <2> QED BY <2>6, <2>7, <2>9 DEF IsTrue
<1>4. CASE Kind[w] = "EVENT" /\ Candidates(w, now) = {}
  <2>1. HasDeadline(w) /\ expiresAt(w) <= now /\ d = Resolution("TIMEOUT", None, now)
    BY <1>4 DEF DecideWait, DecideEventWait
  <2>2. d \in Results /\ d.resolution = "TIMEOUT" /\ d.at = now
    <3> HIDE DEF now
    <3> QED BY <1>1, <2>1, DecisionTyped
  <2>3. Earned(w, d)
    <3> HIDE DEF now
    <3> QED BY <1>1, <2>1, <2>2 DEF Earned
  <2>4. ASSUME NEW f \in Stored, IsInTime(f, w), event[f].committedAt < d.at PROVE FALSE
    BY <1>1, <1>4, <2>2, <2>4, OlderIsCandidate
  <2>5. ComesFirst(w, d)
    BY <2>4 DEF ComesFirst
  <2> QED BY <2>2, <2>3, <2>5 DEF IsTrue
<1> QED BY <1>2, <1>3, <1>4

-----------------------------------------------------------------------------
(* Transactions *)

LEMMA WithoutFirstOK ==
  ASSUME IInv, NEW a \in Actors, NEW w \in Waits
  PROVE  /\ WithoutFirst(a, w) \in ActorRecs /\ ActorOK(WithoutFirst(a, w))
         /\ WithoutFirst(a, w).decision = None
<1>1. PICK r \in ActorRecs : r = actor[a]
  BY ActorTyped
<1>2. PICK q \in ActorRecs : q = [r EXCEPT !.todo = r.todo \ {w}, !.decision = None]
  BY <1>1 DEF ActorRecs
<1>3. /\ q.at = r.at /\ q.now = r.now /\ q.todo \subseteq r.todo /\ q.decision = None
  BY <1>2 DEF ActorRecs
<1>4. ActorOK(r)
  BY <1>1, ActorTyped
<1>5. ActorOK(q)
  BY <1>3, <1>4 DEF ActorOK
<1>6. q = WithoutFirst(a, w)
  BY <1>1, <1>2 DEF WithoutFirst
<1> QED BY <1>3, <1>5, <1>6

(* The lock is held, and what is decided is true. *)
LEMMA Decides ==
  ASSUME IInv, NEW a \in Actors, NEW w \in Waits, NEW d \in Results,
         IsNext(a, w), ~IsLocked(RunOf[w]), IsStillOpen(w), IsTrue(w, d),
         Go(a, [actor[a] EXCEPT !.decision = d]), UNCHANGED <<clock, rows, faults>>
  PROVE  IInv'
<1>1. PICK r \in ActorRecs : r = [actor[a] EXCEPT !.decision = d]
  BY ActorTyped DEF ActorRecs
<1>2. /\ r.at = actor[a].at /\ r.now = actor[a].now /\ r.todo = actor[a].todo
      /\ r.decision = d
  BY <1>1, ActorTyped DEF ActorRecs
<1>3. ActorOK(r)
  <2>1. ActorOK(actor[a])
    BY ActorTyped
  <2>2. actor[a].at \in Resolving /\ actor[a].todo # {}
    BY DEF IsNext, IsResolving, Resolving
  <2> QED BY <1>2, <2>1, <2>2 DEF ActorOK
<1>4. UNCHANGED <<clock, ended, startedAt, armed, result, event, faults>>
  BY DEF rows
<1>5. Forward
  BY <1>4, StillForward DEF IInv
<1>6. /\ actor' \in [Actors -> ActorRecs]
      /\ actor'[a] = r
      /\ \A b \in Actors \ {a} : actor'[b] = actor[b]
  BY <1>1, OneActor DEF IInv, Go
<1>7. TypeOK'
  BY <1>4, <1>6 DEF IInv, TypeOK, ActorRecs
<1>8. ActorOK(r)'
  BY <1>3, <1>5, ActorKept DEF IInv
<1>9. ASSUME NEW b \in Actors, NEW v \in Waits, Deciding(b, v)'
      PROVE  \/ b = a /\ v = w
             \/ b # a /\ Deciding(b, v) /\ actor'[b] = actor[b]
  <2>1. CASE b = a
    <3>1. IsNext(a, v)
      BY <1>2, <1>5, <1>6, <1>9, <2>1, NextKept DEF IInv, ActorsOK, Deciding
    <3> QED BY <2>1, <3>1, OneIsNext
  <2>2. CASE b # a
    BY <1>5, <1>6, <1>9, <2>2, DecidingKept
  <2> QED BY <2>1, <2>2
<1>10. ASSUME NEW b \in Actors, NEW v \in Waits, Deciding(b, v)'
       PROVE  /\ IsStillOpen(v)'
              /\ \/ Deciding(b, v) /\ actor'[b].decision = actor[b].decision
                 \/ actor'[b].decision \in Results /\ IsTrue(v, actor'[b].decision)
  <2>1. CASE b = a /\ v = w
    BY <1>2, <1>4, <1>6, <2>1 DEF IsStillOpen
  <2>2. CASE b # a /\ Deciding(b, v) /\ actor'[b] = actor[b]
    BY <1>4, <2>2 DEF IInv, DecisionsOK, IsStillOpen
  <2> QED BY <1>9, <1>10, <2>1, <2>2
<1>11. LocksOK'
  <2>1. ASSUME NEW b \in Actors, NEW v \in Waits, Deciding(b, v), RunOf[v] = RunOf[w]
        PROVE  FALSE
    BY <2>1 DEF Deciding, IsLocked
  <2>2. ASSUME NEW b \in Actors, NEW c \in Actors, NEW u \in Waits, NEW v \in Waits,
               Deciding(b, u)', Deciding(c, v)', RunOf[u] = RunOf[v]
        PROVE  b = c
    <3>1. \/ b = a /\ u = w
          \/ b # a /\ Deciding(b, u)
      BY <1>9, <2>2
    <3>2. \/ c = a /\ v = w
          \/ c # a /\ Deciding(c, v)
      BY <1>9, <2>2
    <3>3. CASE Deciding(b, u) /\ Deciding(c, v)
      BY <2>2, <3>3 DEF IInv, LocksOK
    <3> QED BY <2>1, <2>2, <3>1, <3>2, <3>3
  <2> QED BY <2>2 DEF LocksOK
<1>12. EventsOK'
  BY <1>4 DEF IInv, EventsOK, Stored
<1> QED BY <1>4, <1>5, <1>6, <1>7, <1>8, <1>10, <1>11, <1>12, AnyStep

LEMMA DecideInv ==
  ASSUME IInv, NEW a \in Actors, NEW w \in Waits, Decide(a, w)
  PROVE  IInv'
<1>1. PICK d : d = IF IsStillOpen(w) THEN DecideWait(w, actor[a].now) ELSE None
  OBVIOUS
<1>2. /\ IsNext(a, w) /\ ~IsLocked(RunOf[w]) /\ UNCHANGED <<clock, rows, faults>>
      /\ Go(a, IF d = None THEN WithoutFirst(a, w)
               ELSE IF actor[a].now < armedAt(w) THEN Thrown(a)
               ELSE [actor[a] EXCEPT !.decision = d])
  BY <1>1 DEF Decide
<1>3. faults' \in 0 .. MaxFaults /\ UNCHANGED <<clock, rows>>
  BY <1>2, FaultsTyped
<1>4. CASE d = None
  <2>1. Go(a, WithoutFirst(a, w))
    BY <1>2, <1>4
  <2> QED BY <1>3, <2>1, WithoutFirstOK, ReadStep
<1>5. CASE d # None /\ actor[a].now < armedAt(w)
  <2>1. PICK r \in ActorRecs : r = Thrown(a)
    BY ThrownTyped
  <2>2. r.todo = {} /\ r.decision = None /\ r.now <= clock
    BY <2>1, ThrownTyped, ClockAhead
  <2>3. ActorOK(r)
    BY <2>2, RestingOK
  <2>4. Go(a, r)
    BY <1>2, <1>5, <2>1
  <2> QED BY <1>3, <2>2, <2>3, <2>4, ReadStep
<1>6. CASE d # None /\ ~(actor[a].now < armedAt(w))
  <2>1. IsStillOpen(w) /\ d = DecideWait(w, actor[a].now)
    BY <1>1, <1>6
  <2>2. armedAt(w) <= actor[a].now
    <3>1. actor[a].now \in Nat
      BY ActorTyped, NoneApart
    <3>2. w \in armed
      BY <1>2, ActorTyped DEF IsNext, ActorOK
    <3>3. armedAt(w) \in Nat
      BY <3>2, RecordsTyped, NoneApart DEF IInv, armedAt
    <3> QED BY <1>6, <3>1, <3>3
  <2>3. d \in Results /\ IsTrue(w, d)
    BY <1>2, <1>6, <2>1, <2>2, DecidedIsTrue
  <2>4. Go(a, [actor[a] EXCEPT !.decision = d])
    BY <1>2, <1>6
  <2> QED BY <1>2, <2>1, <2>3, <2>4, Decides
<1> QED BY <1>4, <1>5, <1>6

(* What a transaction writes. *)
LEMMA CommitWrites ==
  ASSUME IInv, NEW a \in Actors, NEW w \in Waits, Commit(a, w)
  PROVE  /\ Deciding(a, w) /\ IsStillOpen(w) /\ w \in armed
         /\ actor[a].decision \in Results /\ IsTrue(w, actor[a].decision)
         /\ result' = [result EXCEPT ![w] = actor[a].decision]
<1>1. Deciding(a, w)
  BY DEF Commit, Deciding
<1>2. IsStillOpen(w) /\ IsTrue(w, actor[a].decision)
  BY <1>1 DEF IInv, DecisionsOK
<1>3. actor[a].decision \in Results
  BY <1>1, ActorTyped DEF Deciding
<1>4. result' = [result EXCEPT ![w] = actor[a].decision]
  BY <1>2 DEF Commit, IsStillOpen
<1>5. w \in armed
  BY <1>2 DEF IsTrue, Earned
<1> QED BY <1>1, <1>2, <1>3, <1>4, <1>5

LEMMA CommitInv ==
  ASSUME IInv, NEW a \in Actors, NEW w \in Waits, Commit(a, w)
  PROVE  IInv'
<1>1. PICK d \in Results : d = actor[a].decision
  BY CommitWrites
<1>2. /\ Deciding(a, w) /\ IsTrue(w, d)
      /\ result' = [result EXCEPT ![w] = d]
  BY <1>1, CommitWrites
<1>3. result \in [Waits -> Results \cup {Unresolved}]
  BY DEF IInv, TypeOK
<1>4. /\ result' \in [Waits -> Results \cup {Unresolved}]
      /\ result'[w] = d
      /\ \A v \in Waits \ {w} : result'[v] = result[v]
  BY <1>2, <1>3
<1>5. PICK r \in ActorRecs : r = WithoutFirst(a, w) /\ ActorOK(r) /\ r.decision = None
  BY WithoutFirstOK
<1>6. UNCHANGED <<clock, ended, startedAt, armed, event, faults>>
  BY DEF Commit
<1>7. /\ actor' \in [Actors -> ActorRecs]
      /\ actor'[a] = r
      /\ \A b \in Actors \ {a} : actor'[b] = actor[b]
  BY <1>5, OneActor DEF IInv, Commit, Go
<1>8. Forward
  BY <1>6, StillForward DEF IInv
<1>9. TypeOK'
  BY <1>4, <1>6, <1>7 DEF IInv, TypeOK, ActorRecs
<1>10. EventsOK'
  BY <1>6 DEF IInv, EventsOK, Stored
<1>11. ActorOK(r)'
  BY <1>5, <1>8, ActorKept DEF IInv
<1>12. ASSUME NEW b \in Actors, NEW v \in Waits, Deciding(b, v)'
       PROVE  /\ Deciding(b, v) /\ actor'[b] = actor[b] /\ IsStillOpen(v)'
  <2>1. b # a
    BY <1>5, <1>7, <1>12 DEF Deciding
  <2>2. actor'[b] = actor[b]
    BY <1>7, <2>1
  <2>3. Deciding(b, v)
    BY <1>8, <1>12, <2>2, DecidingKept
  <2>4. v # w
    BY <1>2, <2>1, <2>3 DEF IInv, LocksOK
  <2>5. IsStillOpen(v)
    BY <2>3 DEF IInv, DecisionsOK
  <2> QED BY <1>4, <1>6, <2>2, <2>3, <2>4, <2>5 DEF IsStillOpen
<1>13. LocksOK'
  <2>1. ASSUME NEW b \in Actors, NEW c \in Actors, NEW u \in Waits, NEW v \in Waits,
               Deciding(b, u)', Deciding(c, v)', RunOf[u] = RunOf[v]
        PROVE  b = c
    BY <1>12, <2>1 DEF IInv, LocksOK
  <2> QED BY <2>1 DEF LocksOK
<1>14. \A v \in Waits : \/ result'[v] = result[v]
                        \/ result'[v] \in Results /\ IsTrue(v, result'[v])
  BY <1>2, <1>4
<1>15. \A b \in Actors : actor'[b] = actor[b] \/ ActorOK(actor[b])'
  BY <1>7, <1>11
<1> QED BY <1>8, <1>9, <1>10, <1>12, <1>13, <1>14, <1>15, AnyStep

-----------------------------------------------------------------------------
(* The steps of the rows *)

LEMMA DecidingIsOpen ==
  ASSUME IInv, NEW a \in Actors, NEW w \in Waits, Deciding(a, w)
  PROVE  RunOf[w] \notin ended
BY DEF IInv, DecisionsOK, IsStillOpen

LEMMA MarkWaitingInv ==
  ASSUME IInv, NEW w \in Waits, NEW now \in Instants, MarkWaiting(w, now)
  PROVE  IInv'
<1>1. /\ startedAt[w] = None /\ startedAt' = [startedAt EXCEPT ![w] = now]
      /\ UNCHANGED <<clock, ended, armed, result, event, actor, faults>>
  BY DEF MarkWaiting
<1>2. startedAt \in [Waits -> Instants \cup {None}] /\ clock \in Nat
  BY ClockAhead, NoneApart DEF IInv, TypeOK
<1>3. /\ startedAt' \in [Waits -> Instants \cup {None}]
      /\ \A v \in Waits \ {w} : startedAt'[v] = startedAt[v]
      /\ startedAt'[w] # None
  BY <1>1, <1>2, NoneApart
<1>4. w \notin armed /\ armed \subseteq Waits
  BY <1>1 DEF IInv, TypeOK
<1>5. armed' \subseteq {v \in Waits : startedAt'[v] # None}
  BY <1>1, <1>3, <1>4 DEF IInv, TypeOK
<1>6. TypeOK'
  BY <1>1, <1>3, <1>5 DEF IInv, TypeOK
<1>7. Forward
  BY <1>1, <1>2, <1>3, <1>4 DEF Forward, Stored
<1> QED BY <1>1, <1>6, <1>7, DecidingIsOpen, RowStep

LEMMA EnsureInv ==
  ASSUME IInv, NEW w \in Waits, EnsureWorkflowWait(w)
  PROVE  IInv'
<1>1. /\ startedAt[w] # None /\ armed' = armed \cup {w}
      /\ UNCHANGED <<clock, ended, startedAt, result, event, actor, faults>>
  BY DEF EnsureWorkflowWait
<1>2. TypeOK'
  BY <1>1 DEF IInv, TypeOK
<1>3. Forward
  BY <1>1, ClockAhead, NoneApart DEF Forward, Stored
<1> QED BY <1>1, <1>2, <1>3, DecidingIsOpen, RowStep

LEMMA EndWorkflowInv ==
  ASSUME IInv, NEW r \in Runs, EndWorkflow(r)
  PROVE  IInv'
<1>1. /\ ~IsLocked(r) /\ ended' = ended \cup {r}
      /\ UNCHANGED <<clock, startedAt, armed, result, event, actor, faults>>
  BY DEF EndWorkflow
<1>2. TypeOK'
  BY <1>1 DEF IInv, TypeOK
<1>3. Forward
  BY <1>1, StillForward DEF IInv
<1>4. ASSUME NEW a \in Actors, NEW w \in Waits, Deciding(a, w) PROVE RunOf[w] \notin ended'
  <2>1. RunOf[w] # r
    BY <1>1, <1>4 DEF Deciding, IsLocked
  <2> QED BY <1>1, <1>4, <2>1, DecidingIsOpen
<1> QED BY <1>1, <1>2, <1>3, <1>4, RowStep

LEMMA AdvanceInv ==
  ASSUME IInv, Advance
  PROVE  IInv'
<1>1. clock' = clock + 1 /\ clock < MaxTime
      /\ UNCHANGED <<ended, startedAt, armed, result, event, actor, faults>>
  BY DEF Advance, rows
<1>2. clock \in Instants /\ clock \in Nat
  BY ClockAhead, NoneApart
<1>3. clock' \in Instants /\ clock' \in Nat /\ clock <= clock'
  BY <1>1, <1>2 DEF Instants
<1>4. TypeOK'
  BY <1>1, <1>3 DEF IInv, TypeOK
<1>5. Forward
  BY <1>1, <1>2, <1>3 DEF Forward, Stored
<1> QED BY <1>1, <1>4, <1>5, DecidingIsOpen, RowStep

-----------------------------------------------------------------------------
(* The invariant *)

LEMMA InitInv ==
  ASSUME Init
  PROVE  IInv
<1>1. 0 \in Instants
  BY DEF Instants
<1>2. TypeOK
  <2>1. actor \in [Actors -> ActorRecs]
    BY IdleTyped DEF Init
  <2> QED BY <1>1, <2>1 DEF Init, TypeOK, ActorRecs
<1>3. Stored = {}
  BY DEF Init, Stored
<1>4. \A a \in Actors : actor[a] = Idle
  BY DEF Init
<1>5. ActorsOK
  <2>1. ASSUME NEW a \in Actors PROVE ActorOK(actor[a])
    BY <1>4, IdleTyped DEF ActorOK, Init
  <2> QED BY <2>1 DEF ActorsOK
<1>6. \A a \in Actors, w \in Waits : ~Deciding(a, w)
  BY <1>4, IdleTyped DEF Deciding
<1>7. ResultsOK
  BY DEF ResultsOK, Init
<1> QED BY <1>2, <1>3, <1>5, <1>6, <1>7 DEF IInv, EventsOK, DecisionsOK, LocksOK

LEMMA StutterInv ==
  ASSUME IInv, UNCHANGED vars
  PROVE  IInv'
<1>1. UNCHANGED <<clock, ended, startedAt, armed, result, event, actor, faults>>
  BY DEF vars
<1>2. TypeOK'
  BY <1>1 DEF IInv, TypeOK
<1>3. Forward
  BY <1>1, StillForward DEF IInv
<1> QED BY <1>1, <1>2, <1>3, DecidingIsOpen, RowStep

LEMMA ResolveInv ==
  ASSUME IInv, NEW a \in Actors, Resolve(a)
  PROVE  IInv'
BY ListDoneInv, DecideInv, CommitInv DEF Resolve

LEMMA NextInv ==
  ASSUME IInv, [Next]_vars
  PROVE  IInv'
<1>1. ASSUME NEW w \in Waits,
             EnsureWorkflowWait(w) \/ \E now \in Instants : MarkWaiting(w, now)
      PROVE  IInv'
  BY <1>1, EnsureInv, MarkWaitingInv
<1>2. ASSUME NEW c \in Calls, Receive(c) \/ Ingest(c) PROVE IInv'
  <2>1. c \in Actors
    BY DEF Actors
  <2> QED BY <1>2, <2>1, ReceiveInv, SaveWorkflowEventInv, ListMatchingInv, ResolveInv DEF Ingest
<1>3. ASSUME NEW d \in Drivers, Drive(d) PROVE IInv'
  <2>1. d \in Actors
    BY DEF Actors
  <2> QED BY <1>3, <2>1, StartTickInv, ListDueTimersInv, ListResolvableEventsInv, ResolveInv
          DEF Drive
<1>4. ASSUME NEW a \in Actors, Crash(a) PROVE IInv'
  BY <1>4, CrashInv
<1>5. ASSUME NEW r \in Runs, EndWorkflow(r) PROVE IInv'
  BY <1>5, EndWorkflowInv
<1> QED BY <1>1, <1>2, <1>3, <1>4, <1>5, AdvanceInv, StutterInv DEF Next

(* The variables stay in their types, and no rows are armed that have not  *)
(* been marked WAITING.                                                    *)
THEOREM WaitsTyped == Spec => []TypeOK
<1>1. Init => IInv
  BY InitInv
<1>2. IInv /\ [Next]_vars => IInv'
  BY NextInv
<1>3. IInv => TypeOK
  BY DEF IInv
<1> QED BY <1>1, <1>2, <1>3, PTL DEF Spec

LEMMA Invariant == Spec => []IInv
<1>1. Init => IInv
  BY InitInv
<1>2. IInv /\ [Next]_vars => IInv'
  BY NextInv
<1> QED BY <1>1, <1>2, PTL DEF Spec

(* What a wait was resolved with, by an ingest call or by a driver's tick, *)
(* is true of it.                                                          *)
THEOREM ResolutionsStayEarned == Spec => []ResolutionsAreEarned
<1>1. IInv => ResolutionsAreEarned
  <2>1. ASSUME IInv, NEW w \in Waits, result[w] # Unresolved
        PROVE  /\ w \in armed /\ startedAt[w] <= result[w].at /\ result[w].at <= clock
               /\ CASE result[w].resolution = "TIMER" ->
                         Kind[w] # "EVENT" /\ wakeAt(w) <= result[w].at
                    [] result[w].resolution = "TIMEOUT" ->
                         HasDeadline(w) /\ expiresAt(w) <= result[w].at
                    [] result[w].resolution = "EVENT" ->
                         LET e == result[w].event
                         IN /\ e \in Stored
                            /\ Match[e] = Match[w] /\ Kind[w] = "EVENT"
                            /\ CreatedAt[RunOf[w]] <= event[e].receivedAt
                            /\ HasDeadline(w) => event[e].receivedAt <= expiresAt(w)
    <3>1. Earned(w, result[w])
      BY <2>1 DEF IInv, ResultsOK, IsTrue
    <3>2. result[w].resolution \in {"TIMER", "EVENT", "TIMEOUT"}
      BY <2>1 DEF IInv, TypeOK, Results
    <3>3. CASE result[w].resolution = "TIMER"
      BY <3>1, <3>3 DEF Earned
    <3>4. CASE result[w].resolution = "TIMEOUT"
      BY <3>1, <3>4 DEF Earned
    <3>5. CASE result[w].resolution = "EVENT"
      BY <3>1, <3>5 DEF Earned
    <3> QED BY <3>2, <3>3, <3>4, <3>5
  <2> QED BY <2>1 DEF ResolutionsAreEarned
<1> QED BY <1>1, Invariant, PTL

(* An event that was in time and durable before a wait was resolved is     *)
(* never overlooked by the resolution.                                     *)
THEOREM NothingIsOverlooked == Spec => []NothingOverlooked
<1>1. IInv => NothingOverlooked
  <2>1. ASSUME IInv, NEW w \in Waits, NEW f \in Stored,
               result[w].resolution \in {"EVENT", "TIMEOUT"}, Match[f] = Match[w],
               CreatedAt[RunOf[w]] <= event[f].receivedAt,
               HasDeadline(w) => event[f].receivedAt <= expiresAt(w),
               event[f].committedAt < result[w].at
        PROVE  /\ result[w].resolution = "EVENT"
               /\ result[w].event = f \/ Earlier(result[w].event, f)
    <3>1. result[w] # Unresolved
      BY <2>1 DEF Unresolved
    <3>2. ComesFirst(w, result[w])
      BY <2>1, <3>1 DEF IInv, ResultsOK, IsTrue
    <3> QED BY <2>1, <3>2 DEF ComesFirst, IsInTime
  <2> QED BY <2>1 DEF NothingOverlooked
<1> QED BY <1>1, Invariant, PTL

-----------------------------------------------------------------------------
(* Waits implement NodeSuspension: arming opens a wait, a commit resolves  *)
(* it, the end of a WorkflowRun ends its waits, and nothing else is seen.  *)

Ended == {w \in Waits : RunOf[w] \in ended}

LEMMA OutcomeKept ==
  ASSUME TypeOK, NEW w \in Waits, w \in armed <=> w \in armed', result'[w] = result[w]
  PROVE  Outcome(w)' = Outcome(w)
<1>1. CASE w \notin armed
  BY <1>1 DEF Outcome
<1>2. CASE w \in armed
  <2>1. result[w].resolution \in {None, "TIMER", "EVENT", "TIMEOUT"}
    BY DEF TypeOK, Results, Unresolved
  <2> QED BY <1>2, <2>1 DEF Outcome
<1> QED BY <1>1, <1>2

LEMMA OutcomeOf ==
  ASSUME TypeOK, NEW w \in Waits
  PROVE  /\ w \notin armed => Outcome(w) = "absent"
         /\ w \in armed /\ result[w] = Unresolved => Outcome(w) = "open"
         /\ w \in armed /\ result[w] # Unresolved => Outcome(w) \in {"satisfied", "refused"}
<1>1. ASSUME w \in armed, result[w] = Unresolved PROVE Outcome(w) = "open"
  <2>1. result[w].resolution = None
    BY <1>1 DEF Unresolved
  <2> QED BY <1>1, <2>1 DEF Outcome
<1>2. ASSUME w \in armed, result[w] # Unresolved PROVE Outcome(w) \in {"satisfied", "refused"}
  <2>1. result[w] \in Results
    BY <1>2 DEF TypeOK
  <2>2. result[w].resolution \in {"TIMER", "EVENT", "TIMEOUT"}
    BY <2>1 DEF Results
  <2> QED BY <1>2, <2>2 DEF Outcome
<1> QED BY <1>1, <1>2 DEF Outcome

LEMMA SuspensionUnseen ==
  ASSUME TypeOK, UNCHANGED <<ended, armed, result>>
  PROVE  /\ [w \in Waits |-> Outcome(w)]' = [w \in Waits |-> Outcome(w)]
         /\ Ended' = Ended
<1>1. \A w \in Waits : Outcome(w)' = Outcome(w)
  BY OutcomeKept
<1> QED BY <1>1 DEF Ended

(* The outcome of one wait changes. *)
LEMMA OutcomeStep ==
  ASSUME NEW w \in Waits, \A v \in Waits \ {w} : Outcome(v)' = Outcome(v)
  PROVE  [v \in Waits |-> Outcome(v)]'
           = [[v \in Waits |-> Outcome(v)] EXCEPT ![w] = Outcome(w)']
OBVIOUS

LEMMA EnsureOpens ==
  ASSUME IInv, NEW w \in Waits, EnsureWorkflowWait(w)
  PROVE  Suspension!Open(w)
<1>1. /\ w \notin armed /\ armed' = armed \cup {w} /\ UNCHANGED <<ended, result>>
  BY DEF EnsureWorkflowWait
<1>2. Outcome(w) = "absent"
  BY <1>1, OutcomeOf DEF IInv
<1>3. result[w] = Unresolved
  BY <1>1 DEF IInv, ResultsOK, IsTrue, Earned
<1>4. Outcome(w)' = "open"
  BY <1>1, <1>3 DEF Outcome, Unresolved
<1>5. \A v \in Waits \ {w} : Outcome(v)' = Outcome(v)
  BY <1>1, OutcomeKept DEF IInv
<1>6. Ended' = Ended
  BY <1>1 DEF Ended
<1> QED BY <1>2, <1>4, <1>5, <1>6, OutcomeStep DEF Suspension!Open, Ended

LEMMA CommitResolves ==
  ASSUME IInv, NEW a \in Actors, NEW w \in Waits, Commit(a, w)
  PROVE  \E outcome \in {"satisfied", "refused"} : Suspension!Resolve(w, outcome)
<1>1. PICK d \in Results : d = actor[a].decision
  BY CommitWrites
<1>2. /\ IsStillOpen(w) /\ w \in armed /\ result' = [result EXCEPT ![w] = d]
      /\ UNCHANGED <<ended, armed>>
  BY <1>1, CommitWrites DEF Commit
<1>3. Outcome(w) = "open" /\ w \notin Ended
  BY <1>2, OutcomeOf DEF IInv, IsStillOpen, Ended
<1>4. result'[w] = d /\ \A v \in Waits \ {w} : result'[v] = result[v]
  BY <1>2 DEF IInv, TypeOK
<1>5. d.resolution \in {"TIMER", "EVENT", "TIMEOUT"}
  BY DEF Results
<1>6. Outcome(w)' \in {"satisfied", "refused"}
  BY <1>2, <1>4, <1>5 DEF Outcome
<1>7. \A v \in Waits \ {w} : Outcome(v)' = Outcome(v)
  BY <1>2, <1>4, OutcomeKept DEF IInv
<1>8. Ended' = Ended
  BY <1>2 DEF Ended
<1>9. Suspension!Resolve(w, Outcome(w)')
  BY <1>3, <1>7, <1>8, OutcomeStep DEF Suspension!Resolve, Ended
<1> QED BY <1>6, <1>9

LEMMA EndWorkflowEnds ==
  ASSUME IInv, NEW r \in Runs, EndWorkflow(r)
  PROVE  Suspension!End
<1>1. ended' = ended \cup {r} /\ UNCHANGED <<armed, result>>
  BY DEF EndWorkflow
<1>2. Ended' \in SUBSET Waits /\ Ended \subseteq Ended'
  BY <1>1 DEF Ended
<1>3. \A v \in Waits : Outcome(v)' = Outcome(v)
  BY <1>1, OutcomeKept DEF IInv
<1>4. [v \in Waits |-> Outcome(v)]' = [v \in Waits |-> Outcome(v)]
  BY <1>3
<1> QED BY <1>2, <1>4 DEF Suspension!End, Ended

LEMMA SuspensionInit ==
  ASSUME Init
  PROVE  Suspension!Init
<1>1. \A w \in Waits : Outcome(w) = "absent"
  BY DEF Init, Outcome
<1>2. Ended = {}
  BY DEF Init, Ended
<1> QED BY <1>1, <1>2 DEF Suspension!Init, Ended

LEMMA SuspensionStep ==
  ASSUME IInv, [Next]_vars
  PROVE  [Suspension!Next]_<<[w \in Waits |-> Outcome(w)], {w \in Waits : RunOf[w] \in ended}>>
<1>1. \/ UNCHANGED <<ended, armed, result>>
      \/ \E w \in Waits : EnsureWorkflowWait(w)
      \/ \E a \in Actors, w \in Waits : Commit(a, w)
      \/ \E r \in Runs : EndWorkflow(r)
  <2>1. ASSUME NEW a \in Actors, Resolve(a)
        PROVE  UNCHANGED <<ended, armed, result>> \/ \E w \in Waits : Commit(a, w)
    BY <2>1 DEF Resolve, ListDone, Decide, rows
  <2>2. Calls \subseteq Actors /\ Drivers \subseteq Actors
    BY DEF Actors
  <2>3. ASSUME NEW c \in Calls, Receive(c) \/ Ingest(c)
        PROVE  \/ UNCHANGED <<ended, armed, result>>
               \/ \E a \in Actors, w \in Waits : Commit(a, w)
    BY <2>1, <2>2, <2>3 DEF Receive, Ingest, SaveWorkflowEvent, ListMatching, rows
  <2>4. ASSUME NEW d \in Drivers, Drive(d)
        PROVE  \/ UNCHANGED <<ended, armed, result>>
               \/ \E a \in Actors, w \in Waits : Commit(a, w)
    BY <2>1, <2>2, <2>4 DEF Drive, StartTick, ListDueTimers, ListResolvableEvents, rows
  <2>5. ASSUME NEW w \in Waits, \E now \in Instants : MarkWaiting(w, now)
        PROVE  UNCHANGED <<ended, armed, result>>
    BY <2>5 DEF MarkWaiting
  <2>6. ASSUME Advance \/ \E a \in Actors : Crash(a) PROVE UNCHANGED <<ended, armed, result>>
    BY <2>6 DEF Advance, Crash, rows
  <2>7. ASSUME UNCHANGED vars PROVE UNCHANGED <<ended, armed, result>>
    BY <2>7 DEF vars
  <2> QED BY <2>3, <2>4, <2>5, <2>6, <2>7 DEF Next
<1>2. CASE UNCHANGED <<ended, armed, result>>
  BY <1>2, SuspensionUnseen DEF IInv, Ended
<1>3. CASE \E w \in Waits : EnsureWorkflowWait(w)
  BY <1>3, EnsureOpens DEF Suspension!Next
<1>4. CASE \E a \in Actors, w \in Waits : Commit(a, w)
  BY <1>4, CommitResolves DEF Suspension!Next
<1>5. CASE \E r \in Runs : EndWorkflow(r)
  BY <1>5, EndWorkflowEnds DEF Suspension!Next
<1> QED BY <1>1, <1>2, <1>3, <1>4, <1>5

(* Whichever ingest calls and drivers race for a wait, it is opened once,  *)
(* and resolved once, for good, before its WorkflowRun has ended.          *)
THEOREM WaitsImplementSuspension == Spec => ImplementsNodeSuspension
<1>1. Init => Suspension!Init
  BY SuspensionInit
<1>2. IInv /\ [Next]_vars
        => [Suspension!Next]_<<[w \in Waits |-> Outcome(w)], {w \in Waits : RunOf[w] \in ended}>>
  BY SuspensionStep
<1> QED BY <1>1, <1>2, Invariant, PTL DEF Spec, ImplementsNodeSuspension, Suspension!Spec
=============================================================================
