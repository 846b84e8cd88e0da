----------------------- MODULE DurableOperationsProofs -----------------------
(* Proofs about DurableOperations for every set of calls, every assignment *)
(* of ids, fingerprints and classes to them, and every bound.              *)
EXTENDS DurableOperations, TLAPS

USE DurableOperationsAssumption, NoneAssumption

RunStatuses == {"QUEUED", "RUNNING", "INTERRUPTED", "BLOCKED", "SUCCEEDED", "FAILED"}
LoopRecs == [at : Stages, state : States, restoredBatch : BOOLEAN,
             next : {"model", "find", "succeeded"}, afterNull : BOOLEAN]
Effects == [attempt : Attempts, call : Calls, owned : BOOLEAN, afterNull : BOOLEAN]

Answered(state) == {c \in Calls : state.results[c] # 0}

ToolStages == {"find", "record", "insertRow", "invoke", "answered"}

(* Attempts that have not started are idle. *)
Future ==
  \A a \in Attempts :
    a > attempt \/ (a = attempt /\ runStatus = "QUEUED") => loop[a] = Idle

(* A loop at its tools has a call pending, and one at its model has none. *)
PendingOK(r) ==
  /\ r.at \in ToolStages => r.state.pending # <<>>
  /\ r.at = "model" => r.state.pending = <<>>
  /\ r.at \in {"fence", "insert"} => (r.next = "find" <=> r.state.pending # <<>>)
Pendings == \A a \in Attempts : PendingOK(loop[a])

(* Rows carry the class of their key; those of writes never FAILED.        *)
RowOK(k, row) ==
  /\ \A c \in Calls : Id[c] = k => row.class = IdempotencyClass[c]
  /\ row.status = "FAILED" => row.class \in {"PURE", "READ_ONLY"}
RowsOK == \A k \in Keys : journal[k] # None => RowOK(k, journal[k])

(* What was invoked, or has a result, has a row. *)
HasRow(c) == journal[Id[c]] # None
LoopHasRows(r) ==
  /\ r.at \in {"invoke", "answered"} => HasRow(Head(r.state.pending))
  /\ \A c \in Answered(r.state) : HasRow(c)
RowsThere ==
  /\ \A a \in Attempts : LoopHasRows(loop[a])
  /\ checkpoint # None => \A c \in Answered(checkpoint) : HasRow(c)
  /\ \A e \in effects : HasRow(e.call)

(* The latest attempt is about to invoke a write that no attempt has       *)
(* invoked while it held the Run, or finds it committed without a result.  *)
WriteIsFresh(r) ==
  /\ r.at \in {"record", "insertRow", "invoke"}
  /\ IsWrite(Head(r.state.pending)) /\ ~r.afterNull
  => \A e \in effects : e.owned /\ ~e.afterNull => Id[e.call] # Id[Head(r.state.pending)]
Fresh == WriteIsFresh(loop[attempt])

(* An answer is of an invocation. *)
AnswerOK(a, r) ==
  r.at = "answered" =>
    \E e \in effects :
      /\ e.attempt = a /\ e.call = Head(r.state.pending)
      /\ r.afterNull => e.afterNull
AnswersOK == \A a \in Attempts : AnswerOK(a, loop[a])

Base ==
  /\ Future /\ Pendings /\ RowsOK /\ RowsThere /\ Fresh /\ AnswersOK
  /\ OwnedWritesAtMostOnce

-----------------------------------------------------------------------------
(* Attempts whose conversation continues the Run's: those that execute     *)
(* calls, which a checkpoint held, and the latest.                         *)
AtTool(r) == r.at \in ToolStages
LiveAs(a, r) == AtTool(r) \/ (a = attempt /\ r.at \in {"fence", "insert", "model"})
Live(a) == LiveAs(a, loop[a])

(* Of two calls that two conversations have pending, one is answered, or   *)
(* comes before, in the conversation that has the other pending, unless    *)
(* they are the same: the conversations proceed through one list.          *)
Before(state, i) == {state.pending[m] : m \in 1 .. i - 1}
Done(state, i) == Answered(state) \cup Before(state, i)
Agree(S, T) ==
  \A i \in DOMAIN S.pending, j \in DOMAIN T.pending :
    \/ S.pending[i] = T.pending[j]
    \/ S.pending[i] \in Done(T, j)
    \/ T.pending[j] \in Done(S, i)

KnownOK ==
  /\ \A a \in Attempts :
       AtTool(loop[a]) => checkpoint # None /\ Known(loop[a].state) \subseteq Known(checkpoint)
  /\ Live(attempt) /\ checkpoint # None => Known(checkpoint) \subseteq Known(loop[attempt].state)

Agreement ==
  \A a \in Attempts : Live(a) =>
    /\ checkpoint # None => Agree(loop[a].state, checkpoint)
    /\ \A b \in Attempts : Live(b) => Agree(loop[a].state, loop[b].state)

(* The row of a write that an attempt is about to invoke, or has invoked,  *)
(* is of its arguments, unless it was found committed without a result.    *)
OfItsArguments(r) ==
  /\ r.at \in {"record", "invoke", "answered"}
  /\ IsWrite(Head(r.state.pending)) /\ ~r.afterNull
  => LET c == Head(r.state.pending) IN
    journal[Id[c]] # None => journal[Id[c]].fingerprint = Fingerprint[c]
RowsMatch == \A a \in Attempts : OfItsArguments(loop[a])

IsResultOf(n, c) == \E e \in effects : e.attempt = n /\ Fingerprint[e.call] = Fingerprint[c]
ResultsOK(state) ==
  \A c \in Answered(state) : ~IsAmbiguous(c) => IsResultOf(state.results[c], c)
Sound ==
  /\ \A a \in Attempts : ResultsOK(loop[a].state)
  /\ checkpoint # None => ResultsOK(checkpoint)
  /\ \A c \in Calls :
       LET row == journal[Id[c]] IN
       /\ ~IsAmbiguous(c) /\ row # None
       /\ row.status = "COMMITTED" /\ row.fingerprint = Fingerprint[c]
          /\ HasResult(row)
       => IsResultOf(row.result, c)

Checkpointed == \A e \in effects : checkpoint # None /\ e.call \in Known(checkpoint)

Deep == KnownOK /\ Agreement /\ RowsMatch /\ Sound /\ Checkpointed

IInv == TypeOK /\ Base /\ (staleInsert \/ Deep)

-----------------------------------------------------------------------------
(* Types *)

LEMMA OneLoop ==
  ASSUME TypeOK, NEW a \in Attempts, NEW r \in LoopRecs, loop' = [loop EXCEPT ![a] = r]
  PROVE  /\ loop' \in [Attempts -> LoopRecs]
         /\ loop'[a] = r
         /\ \A b \in Attempts \ {a} : loop'[b] = loop[b]
BY DEF TypeOK, LoopRecs

LEMMA LoopTyped ==
  ASSUME TypeOK, NEW a \in Attempts
  PROVE  /\ loop[a] \in LoopRecs
         /\ loop[a].state \in States
         /\ loop[a].state.pending \in Seq(Calls)
         /\ loop[a].state.results \in [Calls -> Attempts \cup {0}]
<1>1. loop[a] \in LoopRecs
  BY DEF TypeOK, LoopRecs
<1>2. loop[a].state \in States
  BY <1>1 DEF LoopRecs
<1> QED BY <1>1, <1>2 DEF States

LEMMA NewStateTyped == NewState \in States
<1>1. <<>> \in Seq(Calls)
  OBVIOUS
<1>2. 0 \in 0 .. MaxModelInvocations
  OBVIOUS
<1> QED BY <1>1, <1>2 DEF NewState, States

LEMMA IdleTyped == Idle \in LoopRecs
<1>1. FALSE \in BOOLEAN
  OBVIOUS
<1> QED BY <1>1, NewStateTyped DEF Idle, LoopRecs, Stages

LEMMA CallTyped ==
  ASSUME TypeOK, Pendings, NEW a \in Attempts, loop[a].at \in ToolStages
  PROVE  /\ loop[a].state.pending # <<>>
         /\ Call(a) = Head(loop[a].state.pending)
         /\ Call(a) \in Calls
         /\ Id[Call(a)] \in Keys
<1>1. loop[a].state.pending # <<>>
  BY DEF Pendings, PendingOK
<1>2. Head(loop[a].state.pending) \in Calls
  BY <1>1, LoopTyped
<1> QED BY <1>1, <1>2 DEF Call, Keys

(* The parts that a step of one loop preserves. *)
LEMMA BaseStep ==
  ASSUME TypeOK, Base, NEW a \in Attempts, NEW r \in LoopRecs,
         loop' = [loop EXCEPT ![a] = r], attempt' = attempt,
         runStatus' = "QUEUED" => runStatus = "QUEUED", loop[a].at # "idle",
         RowsOK', \A c \in Calls : HasRow(c) => HasRow(c)',
         effects \subseteq effects', effects \subseteq Effects,
         \A e \in effects' : e \in effects \/ (HasRow(e.call)' /\ (e.owned => a = attempt)),
         checkpoint' # None => \A c \in Answered(checkpoint') : HasRow(c)',
         PendingOK(r), LoopHasRows(r)', a = attempt => WriteIsFresh(r)', AnswerOK(a, r)',
         OwnedWritesAtMostOnce'
  PROVE  Base'
<1>1. /\ loop'[a] = r
      /\ \A b \in Attempts \ {a} : loop'[b] = loop[b]
  BY OneLoop
<1>2. Future'
  <2>1. loop[a] # Idle
    BY DEF Idle
  <2> QED BY <1>1, <2>1 DEF Base, Future
<1>3. Pendings'
  BY <1>1 DEF Base, Pendings
<1>4. RowsThere'
  <2>1. ASSUME NEW b \in Attempts PROVE LoopHasRows(loop[b])'
    <3>1. CASE b = a
      BY <3>1, <1>1
    <3>2. CASE b # a
      <4>1. loop'[b] = loop[b] /\ LoopHasRows(loop[b])
        BY <1>1, <3>2 DEF Base, RowsThere
      <4>2. loop[b].at \in {"invoke", "answered"} => Head(loop[b].state.pending) \in Calls
        BY LoopTyped DEF Base, Pendings, PendingOK, ToolStages
      <4> QED BY <4>1, <4>2 DEF LoopHasRows, Answered
    <3> QED BY <3>1, <3>2
  <2>2. ASSUME NEW e \in effects' PROVE HasRow(e.call)'
    BY DEF Base, RowsThere, Effects
  <2> QED BY <2>1, <2>2 DEF RowsThere
<1>5. Fresh'
  <2>1. CASE a = attempt
    BY <2>1, <1>1 DEF Fresh
  <2>2. CASE a # attempt
    <3>1. loop'[attempt'] = loop[attempt]
      BY <2>2, <1>1 DEF TypeOK
    <3> QED BY <2>2, <3>1 DEF Base, Fresh, WriteIsFresh
  <2> QED BY <2>1, <2>2
<1>6. AnswersOK'
  BY <1>1 DEF Base, AnswersOK, AnswerOK
<1> QED BY <1>2, <1>3, <1>4, <1>5, <1>6 DEF Base

-----------------------------------------------------------------------------
(* Conversations *)

LEMMA AgreeSymmetric ==
  ASSUME NEW S \in States, NEW T \in States, Agree(S, T)
  PROVE  Agree(T, S)
BY DEF Agree

LEMMA AgreeWithItself ==
  ASSUME NEW S \in States
  PROVE  Agree(S, S)
<1>1. S.pending \in Seq(Calls)
  BY DEF States
<1>2. ASSUME NEW i \in DOMAIN S.pending, NEW j \in DOMAIN S.pending
      PROVE  \/ S.pending[i] = S.pending[j]
             \/ S.pending[i] \in Done(S, j)
             \/ S.pending[j] \in Done(S, i)
  <2>1. i \in Nat /\ j \in Nat /\ i >= 1 /\ j >= 1
    BY <1>1
  <2>2. CASE i < j
    BY <2>1, <2>2 DEF Done, Before
  <2>3. CASE j < i
    BY <2>1, <2>3 DEF Done, Before
  <2>4. CASE i = j
    BY <2>4
  <2> QED BY <2>1, <2>2, <2>3, <2>4
<1> QED BY <1>2 DEF Agree

(* What is left of a conversation when its next call has a result. *)
AfterHead(S, n) ==
  [S EXCEPT !.results[Head(S.pending)] = n, !.pending = Tail(S.pending)]

LEMMA AfterHeadFacts ==
  ASSUME NEW S \in States, NEW n \in Attempts, S.pending # <<>>
  PROVE  LET T == AfterHead(S, n) IN
         /\ T \in States
         /\ T.pending = Tail(S.pending)
         /\ T.results = [S.results EXCEPT ![Head(S.pending)] = n]
         /\ Answered(T) = Answered(S) \cup {Head(S.pending)}
<1> DEFINE T == AfterHead(S, n)
<1>1. /\ S.pending \in Seq(Calls)
      /\ S.results \in [Calls -> Attempts \cup {0}]
      /\ S.modelInvocations \in 0 .. MaxModelInvocations
  BY DEF States
<1>2. Head(S.pending) \in Calls /\ Tail(S.pending) \in Seq(Calls)
  BY <1>1
<1>3. T \in States
  BY <1>2 DEF AfterHead, States
<1>5. T.pending = Tail(S.pending)
  BY <1>2 DEF AfterHead, States
<1>6. T.results = [S.results EXCEPT ![Head(S.pending)] = n]
  BY <1>2 DEF AfterHead, States
<1>7. n # 0
  BY DEF Attempts
<1>8. Answered(T) = Answered(S) \cup {Head(S.pending)}
  BY <1>1, <1>2, <1>6, <1>7 DEF Answered
<1> QED BY <1>3, <1>5, <1>6, <1>8

LEMMA AfterHeadKnown ==
  ASSUME NEW S \in States, NEW n \in Attempts, S.pending # <<>>
  PROVE  Known(AfterHead(S, n)) = Known(S)
<1> DEFINE T == AfterHead(S, n)
<1>1. /\ T.pending = Tail(S.pending)
      /\ Answered(T) = Answered(S) \cup {Head(S.pending)}
  BY AfterHeadFacts
<1>2. S.pending \in Seq(Calls)
  BY DEF States
<1>3. CallsIn(S.pending) = CallsIn(Tail(S.pending)) \cup {Head(S.pending)}
  <2> DEFINE p == S.pending
  <2>1. p \in Seq(Calls) /\ p # <<>>
    BY <1>2
  <2> HIDE DEF p
  <2>2. /\ Tail(p) \in Seq(Calls) /\ Len(Tail(p)) = Len(p) - 1
        /\ \A i \in 1 .. Len(p) - 1 : Tail(p)[i] = p[i + 1]
        /\ Head(p) = p[1] /\ Len(p) \in Nat /\ Len(p) >= 1
    BY <2>1
  <2>3. ASSUME NEW i \in 1 .. Len(p) PROVE p[i] \in CallsIn(Tail(p)) \cup {Head(p)}
    <3>1. CASE i = 1
      BY <3>1, <2>2
    <3>2. CASE i # 1
      <4>1. i - 1 \in 1 .. Len(p) - 1 /\ Tail(p)[i - 1] = p[(i - 1) + 1]
        BY <3>2, <2>2
      <4>2. (i - 1) + 1 = i
        OBVIOUS
      <4>3. DOMAIN Tail(p) = 1 .. Len(p) - 1
        BY <2>2
      <4> QED BY <4>1, <4>2, <4>3 DEF CallsIn
    <3> QED BY <3>1, <3>2
  <2>4. ASSUME NEW i \in 1 .. Len(p) - 1 PROVE Tail(p)[i] \in CallsIn(p)
    <3>1. i + 1 \in 1 .. Len(p) /\ DOMAIN p = 1 .. Len(p)
      BY <2>1, <2>2
    <3> QED BY <3>1, <2>2 DEF CallsIn
  <2>5. Head(p) \in CallsIn(p)
    <3>1. 1 \in DOMAIN p
      BY <2>1, <2>2
    <3> QED BY <3>1, <2>2 DEF CallsIn
  <2>6. CallsIn(p) \subseteq CallsIn(Tail(p)) \cup {Head(p)}
    <3>1. DOMAIN p = 1 .. Len(p)
      BY <2>1
    <3> QED BY <3>1, <2>3 DEF CallsIn
  <2>7. CallsIn(Tail(p)) \subseteq CallsIn(p)
    <3>1. DOMAIN Tail(p) = 1 .. Len(p) - 1
      BY <2>2
    <3> QED BY <3>1, <2>4 DEF CallsIn
  <2>8. CallsIn(p) = CallsIn(Tail(p)) \cup {Head(p)}
    BY <2>5, <2>6, <2>7
  <2> QED BY <2>8 DEF p
<1>4. Known(T) = Answered(T) \cup CallsIn(T.pending)
      /\ Known(S) = Answered(S) \cup CallsIn(S.pending)
  BY DEF Known, Answered
<1> HIDE DEF T
<1>5. Known(T) = Known(S)
  BY <1>1, <1>3, <1>4
<1> QED BY <1>5 DEF T

LEMMA AfterHeadAgrees ==
  ASSUME NEW S \in States, NEW n \in Attempts, S.pending # <<>>,
         NEW T \in States, Agree(S, T)
  PROVE  Agree(AfterHead(S, n), T)
<1> DEFINE U == AfterHead(S, n)
<1>1. /\ U \in States
      /\ U.pending = Tail(S.pending)
      /\ Answered(U) = Answered(S) \cup {Head(S.pending)}
  BY AfterHeadFacts
<1> HIDE DEF U
<1> DEFINE p == S.pending
<1>2. p \in Seq(Calls) /\ p # <<>>
  BY DEF States
<1>3. /\ Len(Tail(p)) = Len(p) - 1 /\ Tail(p) \in Seq(Calls)
      /\ \A i \in 1 .. Len(p) - 1 : Tail(p)[i] = p[i + 1]
      /\ Head(p) = p[1] /\ Len(p) \in Nat
  <2> HIDE DEF p
  <2> QED BY <1>2
<1>4. ASSUME NEW i \in DOMAIN U.pending, NEW j \in DOMAIN T.pending
      PROVE  \/ U.pending[i] = T.pending[j]
             \/ U.pending[i] \in Done(T, j)
             \/ T.pending[j] \in Done(U, i)
  <2>1. i \in 1 .. Len(p) - 1 /\ i \in Nat
    BY <1>1, <1>3
  <2>2. i + 1 \in DOMAIN p /\ U.pending[i] = p[i + 1]
    <3> HIDE DEF p
    <3> QED BY <2>1, <1>1, <1>2, <1>3 DEF p
  <2>3. \/ p[i + 1] = T.pending[j]
        \/ p[i + 1] \in Done(T, j)
        \/ T.pending[j] \in Done(S, i + 1)
    BY <2>2 DEF Agree
  <2>4. Done(S, i + 1) \subseteq Done(U, i)
    <3>1. ASSUME NEW m \in 1 .. (i + 1) - 1 PROVE p[m] \in Done(U, i)
      <4>1. CASE m = 1
        BY <4>1, <1>1, <1>3 DEF Done
      <4>2. CASE m # 1
        <5>1. m - 1 \in 1 .. i - 1 /\ m - 1 \in 1 .. Len(p) - 1 /\ (m - 1) + 1 = m
          BY <4>2, <2>1, <1>3
        <5>2. Tail(p)[m - 1] = p[m]
          <6> HIDE DEF p
          <6> QED BY <5>1, <1>3
        <5>3. U.pending[m - 1] \in Before(U, i)
          BY <5>1 DEF Before
        <5> QED BY <5>2, <5>3, <1>1 DEF Done
      <4> QED BY <4>1, <4>2
    <3>2. Before(S, i + 1) \subseteq Done(U, i)
      BY <3>1 DEF Before
    <3>3. Answered(S) \subseteq Done(U, i)
      BY <1>1 DEF Done
    <3> QED BY <3>2, <3>3 DEF Done
  <2> QED BY <2>2, <2>3, <2>4
<1>5. Agree(U, T)
  BY <1>4 DEF Agree
<1> QED BY <1>5 DEF U

(* The first calls of two conversations that agree are one, or one of them *)
(* has a result where the other is due.                                    *)
LEMMA AgreeAtHeads ==
  ASSUME NEW S \in States, NEW T \in States, Agree(S, T),
         S.pending # <<>>, T.pending # <<>>
  PROVE  \/ Head(S.pending) = Head(T.pending)
         \/ Head(S.pending) \in Answered(T)
         \/ Head(T.pending) \in Answered(S)
<1>1. S.pending \in Seq(Calls) /\ T.pending \in Seq(Calls)
  BY DEF States
<1>2. /\ 1 \in DOMAIN S.pending /\ Head(S.pending) = S.pending[1]
      /\ 1 \in DOMAIN T.pending /\ Head(T.pending) = T.pending[1]
  BY <1>1
<1>3. Done(S, 1) = Answered(S) /\ Done(T, 1) = Answered(T)
  <2>1. 1 .. 1 - 1 = {}
    OBVIOUS
  <2> QED BY <2>1 DEF Done, Before
<1> QED BY <1>2, <1>3 DEF Agree

-----------------------------------------------------------------------------
(* The parts about conversations, when a step of one loop leaves the       *)
(* checkpoint as it is.                                                    *)
LEMMA KnownStep ==
  ASSUME TypeOK, KnownOK, NEW a \in Attempts, NEW r \in LoopRecs,
         loop' = [loop EXCEPT ![a] = r], UNCHANGED <<attempt, checkpoint>>,
         AtTool(r) => checkpoint # None /\ Known(r.state) \subseteq Known(checkpoint),
         LiveAs(a, r) /\ a = attempt /\ checkpoint # None =>
           Known(checkpoint) \subseteq Known(r.state)
  PROVE  KnownOK'
<1>1. /\ loop'[a] = r
      /\ \A b \in Attempts \ {a} : loop'[b] = loop[b]
  BY OneLoop
<1>2. ASSUME NEW b \in Attempts, AtTool(loop'[b])
      PROVE  checkpoint # None /\ Known(loop'[b].state) \subseteq Known(checkpoint)
  BY <1>1, <1>2 DEF KnownOK
<1>3. ASSUME LiveAs(attempt, loop'[attempt]), checkpoint # None
      PROVE  Known(checkpoint) \subseteq Known(loop'[attempt].state)
  <2>1. attempt \in Attempts
    BY DEF TypeOK
  <2> QED BY <1>1, <1>3, <2>1 DEF KnownOK, Live
<1> QED BY <1>2, <1>3 DEF KnownOK, AtTool, Live, LiveAs, Known, CallsIn

LEMMA AgreementStep ==
  ASSUME TypeOK, Agreement, NEW a \in Attempts, NEW r \in LoopRecs,
         loop' = [loop EXCEPT ![a] = r], UNCHANGED <<attempt, checkpoint>>,
         LiveAs(a, r) =>
           /\ checkpoint # None => Agree(r.state, checkpoint)
           /\ \A b \in Attempts \ {a} : Live(b) => Agree(r.state, loop[b].state)
  PROVE  Agreement'
<1>1. /\ loop'[a] = r
      /\ \A b \in Attempts \ {a} : loop'[b] = loop[b]
  BY OneLoop
<1>2. \A b \in Attempts : loop[b].state \in States
  BY LoopTyped
<1>3. r.state \in States
  BY DEF LoopRecs
<1>4. ASSUME NEW b \in Attempts, LiveAs(b, loop'[b])
      PROVE  /\ checkpoint # None => Agree(loop'[b].state, checkpoint)
             /\ \A d \in Attempts :
                  LiveAs(d, loop'[d]) => Agree(loop'[b].state, loop'[d].state)
  <2>1. CASE b = a
    <3>1. ASSUME NEW d \in Attempts, LiveAs(d, loop'[d])
          PROVE  Agree(loop'[b].state, loop'[d].state)
      BY <1>1, <1>3, <1>4, <2>1, <3>1, AgreeWithItself DEF Live
    <3> QED BY <1>1, <1>4, <2>1, <3>1
  <2>2. CASE b # a
    <3>1. loop'[b] = loop[b] /\ Live(b)
      BY <1>1, <1>4, <2>2 DEF Live
    <3>2. ASSUME NEW d \in Attempts, LiveAs(d, loop'[d])
          PROVE  Agree(loop'[b].state, loop'[d].state)
      <4>1. CASE d = a
        <5>1. Agree(r.state, loop[b].state)
          BY <1>1, <2>2, <3>1, <3>2, <4>1
        <5> QED BY <5>1, <1>1, <1>2, <1>3, <3>1, <4>1, AgreeSymmetric
      <4>2. CASE d # a
        BY <1>1, <3>1, <3>2, <4>2 DEF Agreement, Live
      <4> QED BY <4>1, <4>2
    <3> QED BY <3>1, <3>2 DEF Agreement
  <2> QED BY <2>1, <2>2
<1> QED BY <1>4 DEF Agreement, Live, LiveAs, AtTool

LEMMA QuietStep ==
  ASSUME IInv, NEW a \in Attempts, NEW r \in LoopRecs,
         loop' = [loop EXCEPT ![a] = r], loop[a].at # "idle",
         UNCHANGED <<attempt, journal, checkpoint, effects, staleInsert>>,
         runStatus' \in RunStatuses, runStatus' = "QUEUED" => runStatus = "QUEUED",
         issued' \subseteq Calls,
         PendingOK(r), LoopHasRows(r), a = attempt => WriteIsFresh(r), AnswerOK(a, r),
         staleInsert \/
           /\ AtTool(r) => checkpoint # None /\ Known(r.state) \subseteq Known(checkpoint)
           /\ LiveAs(a, r) /\ a = attempt /\ checkpoint # None =>
                Known(checkpoint) \subseteq Known(r.state)
           /\ LiveAs(a, r) =>
                /\ checkpoint # None => Agree(r.state, checkpoint)
                /\ \A b \in Attempts \ {a} : Live(b) => Agree(r.state, loop[b].state)
           /\ OfItsArguments(r)
           /\ ResultsOK(r.state)
  PROVE  IInv'
<1>1. TypeOK /\ Base /\ (staleInsert \/ Deep)
  BY DEF IInv
<1>2. /\ loop'[a] = r
      /\ \A b \in Attempts \ {a} : loop'[b] = loop[b]
      /\ loop' \in [Attempts -> LoopRecs]
  BY <1>1, OneLoop
<1>3. TypeOK'
  BY <1>1, <1>2 DEF TypeOK, LoopRecs, RunStatuses
<1>4. Base'
  <2>1. RowsOK'
    BY <1>1 DEF Base, RowsOK, RowOK
  <2>2. \A c \in Calls : HasRow(c) => HasRow(c)'
    BY DEF HasRow
  <2>3. effects \subseteq Effects
    BY <1>1 DEF TypeOK, Effects
  <2>4. checkpoint' # None => \A c \in Answered(checkpoint') : HasRow(c)'
    BY <1>1 DEF Base, RowsThere, HasRow
  <2>5. LoopHasRows(r)' /\ (a = attempt => WriteIsFresh(r)') /\ AnswerOK(a, r)'
    BY DEF LoopHasRows, HasRow, WriteIsFresh, AnswerOK
  <2>6. OwnedWritesAtMostOnce'
    BY <1>1 DEF Base, OwnedWritesAtMostOnce
  <2> QED BY <1>1, <2>1, <2>2, <2>3, <2>4, <2>5, <2>6, BaseStep
<1>5. CASE staleInsert
  BY <1>3, <1>4, <1>5 DEF IInv
<1>6. CASE ~staleInsert
  <2>1. KnownOK'
    BY <1>1, <1>6, KnownStep DEF Deep
  <2>2. Agreement'
    BY <1>1, <1>6, AgreementStep DEF Deep
  <2>3. RowsMatch'
    <3>1. \A b \in Attempts : OfItsArguments(loop'[b])
      BY <1>1, <1>2, <1>6 DEF Deep, RowsMatch
    <3> QED BY <3>1 DEF RowsMatch, OfItsArguments
  <2>4. Sound'
    <3>1. \A b \in Attempts : ResultsOK(loop'[b].state)
      BY <1>1, <1>2, <1>6 DEF Deep, Sound
    <3> QED BY <1>1, <1>6, <3>1 DEF Deep, Sound, ResultsOK, IsResultOf, IsAmbiguous
  <2>5. Checkpointed'
    BY <1>1, <1>6 DEF Deep, Checkpointed
  <2> QED BY <1>3, <1>4, <2>1, <2>2, <2>3, <2>4, <2>5 DEF IInv, Deep
<1> QED BY <1>5, <1>6

(* A loop ends, or is lost. *)
LEMMA DropStep ==
  ASSUME IInv, NEW a \in Attempts, loop[a].at # "idle", NEW x \in {"failed", "gone"},
         loop' = [loop EXCEPT ![a] = [Idle EXCEPT !.at = x]],
         UNCHANGED <<attempt, journal, checkpoint, issued, effects, staleInsert>>,
         runStatus' \in RunStatuses, runStatus' = "QUEUED" => runStatus = "QUEUED"
  PROVE  IInv'
<1> DEFINE r == [Idle EXCEPT !.at = x]
<1>1. r \in LoopRecs /\ r.at = x /\ r.state = NewState
  BY IdleTyped DEF LoopRecs, Stages, Idle
<1>2. issued \subseteq Calls
  BY DEF IInv, TypeOK
<1> HIDE DEF r
<1>3. ~AtTool(r) /\ ~LiveAs(a, r) /\ PendingOK(r) /\ OfItsArguments(r)
  BY <1>1 DEF AtTool, LiveAs, ToolStages, PendingOK, OfItsArguments
<1>4. Answered(r.state) = {}
  BY <1>1 DEF Answered, NewState
<1>5. LoopHasRows(r) /\ WriteIsFresh(r) /\ AnswerOK(a, r) /\ ResultsOK(r.state)
  BY <1>1, <1>4 DEF LoopHasRows, WriteIsFresh, AnswerOK, ResultsOK
<1>6. loop' = [loop EXCEPT ![a] = r]
  BY DEF r
<1> QED BY <1>1, <1>2, <1>3, <1>5, <1>6, QuietStep

(* A loop goes on with the conversation that it has. *)
LEMMA GotoStep ==
  ASSUME IInv, NEW a \in Attempts, NEW x \in Stages, Goto(a, x), loop[a].at # "idle",
         UNCHANGED <<runStatus, attempt, journal, checkpoint, issued, effects, staleInsert>>,
         x \in ToolStages => loop[a].at \in ToolStages,
         x \in {"fence", "insert", "model"} => loop[a].at = "fence" /\ x = "insert",
         x \in {"record", "invoke", "answered"} => OfItsArguments([loop[a] EXCEPT !.at = x]) \/ staleInsert,
         x \in {"invoke", "answered"} => HasRow(Call(a)),
         a = attempt => WriteIsFresh([loop[a] EXCEPT !.at = x]),
         x # "answered"
  PROVE  IInv'
<1> DEFINE r == [loop[a] EXCEPT !.at = x]
<1>1. TypeOK /\ Base /\ (staleInsert \/ Deep)
  BY DEF IInv
<1>2. /\ r \in LoopRecs /\ r.at = x /\ r.state = loop[a].state
      /\ r.next = loop[a].next
  BY <1>1, LoopTyped DEF LoopRecs
<1>3. loop' = [loop EXCEPT ![a] = r]
  BY <1>1 DEF Goto, TypeOK
<1>4. /\ staleInsert \/ OfItsArguments(r)
      /\ a = attempt => WriteIsFresh(r)
  BY <1>2 DEF OfItsArguments
<1>5. runStatus \in RunStatuses /\ issued \subseteq Calls
  BY <1>1 DEF TypeOK, RunStatuses
<1> HIDE DEF r
<1>6. PendingOK(loop[a]) /\ LoopHasRows(loop[a])
  BY <1>1 DEF Base, Pendings, RowsThere
<1>7. PendingOK(r)
  BY <1>2, <1>6 DEF PendingOK, ToolStages
<1>8. LoopHasRows(r) /\ AnswerOK(a, r)
  BY <1>2, <1>6 DEF LoopHasRows, AnswerOK, Call
<1>9. (AtTool(r) => AtTool(loop[a])) /\ (LiveAs(a, r) => Live(a))
  BY <1>2 DEF AtTool, LiveAs, Live
<1>10. staleInsert \/
           /\ AtTool(r) => checkpoint # None /\ Known(r.state) \subseteq Known(checkpoint)
           /\ LiveAs(a, r) /\ a = attempt /\ checkpoint # None =>
                Known(checkpoint) \subseteq Known(r.state)
           /\ LiveAs(a, r) =>
                /\ checkpoint # None => Agree(r.state, checkpoint)
                /\ \A b \in Attempts \ {a} : Live(b) => Agree(r.state, loop[b].state)
           /\ OfItsArguments(r)
           /\ ResultsOK(r.state)
  BY <1>1, <1>2, <1>4, <1>9 DEF Deep, KnownOK, Agreement, Sound
<1> QED BY <1>2, <1>3, <1>4, <1>5, <1>7, <1>8, <1>10, QuietStep

-----------------------------------------------------------------------------
(* A call has its result. *)

AfterRec(a, n) ==
  [at |-> IF loop[a].restoredBatch /\ Tail(loop[a].state.pending) # <<>> THEN "find" ELSE "fence",
   state |-> AfterHead(loop[a].state, n),
   restoredBatch |-> loop[a].restoredBatch,
   next |-> NextStage(Tail(loop[a].state.pending)),
   afterNull |-> FALSE]

LEMMA AfterCallTyped ==
  ASSUME TypeOK, Pendings, NEW a \in Attempts, loop[a].at \in ToolStages,
         NEW n \in Attempts, AfterCall(a, n)
  PROVE  /\ AfterRec(a, n) \in LoopRecs
         /\ loop' = [loop EXCEPT ![a] = AfterRec(a, n)]
         /\ PendingOK(AfterRec(a, n))
<1>1. loop[a].state \in States /\ loop[a].state.pending # <<>> /\ loop[a].restoredBatch \in BOOLEAN
  BY LoopTyped, CallTyped DEF LoopRecs
<1>2. AfterHead(loop[a].state, n) \in States
      /\ AfterHead(loop[a].state, n).pending = Tail(loop[a].state.pending)
  BY <1>1, AfterHeadFacts
<1>6. FALSE \in BOOLEAN
  OBVIOUS
<1>3. AfterRec(a, n) \in LoopRecs
  BY <1>1, <1>2, <1>6 DEF AfterRec, LoopRecs, Stages, NextStage
<1>4. loop' = [loop EXCEPT ![a] = AfterRec(a, n)]
  BY DEF AfterCall, AfterRec, AfterHead, Call
<1>5. PendingOK(AfterRec(a, n))
  BY <1>2 DEF PendingOK, AfterRec, NextStage, ToolStages
<1> QED BY <1>3, <1>4, <1>5

LEMMA AfterCallBase ==
  ASSUME TypeOK, Base, NEW a \in Attempts, loop[a].at \in ToolStages,
         NEW n \in Attempts, HasRow(Call(a))
  PROVE  /\ LoopHasRows(AfterRec(a, n))
         /\ WriteIsFresh(AfterRec(a, n))
         /\ AnswerOK(a, AfterRec(a, n))
<1>1. loop[a].state \in States /\ loop[a].state.pending # <<>> /\ Call(a) = Head(loop[a].state.pending)
  BY LoopTyped, CallTyped DEF Base
<1>2. Answered(AfterHead(loop[a].state, n)) = Answered(loop[a].state) \cup {Call(a)}
  BY <1>1, AfterHeadFacts
<1>3. AfterRec(a, n).at \in {"find", "fence"} /\ AfterRec(a, n).state = AfterHead(loop[a].state, n)
  BY DEF AfterRec
<1>4. \A c \in Answered(loop[a].state) : HasRow(c)
  BY DEF Base, RowsThere, LoopHasRows
<1> QED BY <1>2, <1>3, <1>4 DEF LoopHasRows, WriteIsFresh, AnswerOK

LEMMA AfterCallDeep ==
  ASSUME TypeOK, Base, KnownOK, Agreement,
         NEW a \in Attempts, loop[a].at \in ToolStages, NEW n \in Attempts
  PROVE  LET r == AfterRec(a, n) IN
         /\ AtTool(r) => checkpoint # None /\ Known(r.state) \subseteq Known(checkpoint)
         /\ LiveAs(a, r) /\ a = attempt /\ checkpoint # None =>
              Known(checkpoint) \subseteq Known(r.state)
         /\ LiveAs(a, r) =>
              /\ checkpoint # None => Agree(r.state, checkpoint)
              /\ \A b \in Attempts \ {a} : Live(b) => Agree(r.state, loop[b].state)
<1> DEFINE r == AfterRec(a, n)
           S == loop[a].state
<1>1. S \in States /\ S.pending # <<>>
  BY LoopTyped, CallTyped DEF Base
<1>2. r.state = AfterHead(S, n)
  BY DEF AfterRec
<1>3. Known(r.state) = Known(S)
  BY <1>1, <1>2, AfterHeadKnown
<1>4. Live(a) /\ AtTool(loop[a])
  BY DEF Live, LiveAs, AtTool
<1>5. AtTool(r) => checkpoint # None /\ Known(r.state) \subseteq Known(checkpoint)
  BY <1>3, <1>4 DEF KnownOK
<1>6. a = attempt /\ checkpoint # None => Known(checkpoint) \subseteq Known(r.state)
  BY <1>3, <1>4 DEF KnownOK
<1>7. checkpoint # None => Agree(r.state, checkpoint)
  <2>1. checkpoint # None => checkpoint \in States /\ Agree(S, checkpoint)
    BY <1>4 DEF Agreement, TypeOK
  <2> QED BY <2>1, <1>1, <1>2, AfterHeadAgrees
<1>8. ASSUME NEW b \in Attempts, Live(b)
      PROVE  Agree(r.state, loop[b].state)
  <2>1. Agree(S, loop[b].state) /\ loop[b].state \in States
    BY <1>4, <1>8, LoopTyped DEF Agreement
  <2> QED BY <2>1, <1>1, <1>2, AfterHeadAgrees
<1> QED BY <1>5, <1>6, <1>7, <1>8

LEMMA AfterCallResults ==
  ASSUME TypeOK, Base, Sound, NEW a \in Attempts, loop[a].at \in ToolStages,
         NEW n \in Attempts, ~IsAmbiguous(Call(a)) => IsResultOf(n, Call(a))
  PROVE  OfItsArguments(AfterRec(a, n)) /\ ResultsOK(AfterRec(a, n).state)
<1> DEFINE S == loop[a].state
           T == AfterHead(S, n)
<1>1. S \in States /\ S.pending # <<>> /\ Call(a) = Head(S.pending) /\ Call(a) \in Calls
      /\ S.results \in [Calls -> Attempts \cup {0}]
  BY LoopTyped, CallTyped DEF Base
<1>2. /\ T.results = [S.results EXCEPT ![Call(a)] = n]
      /\ Answered(T) = Answered(S) \cup {Call(a)}
  BY <1>1, AfterHeadFacts
<1>3. AfterRec(a, n).at \in {"find", "fence"} /\ AfterRec(a, n).state = T
  BY DEF AfterRec
<1>4. ResultsOK(S)
  BY DEF Sound
<1>5. T.results[Call(a)] = n
      /\ \A c \in Calls \ {Call(a)} : T.results[c] = S.results[c]
  BY <1>1, <1>2
<1>6. ASSUME NEW c \in Answered(T), ~IsAmbiguous(c) PROVE IsResultOf(T.results[c], c)
  <2>1. CASE c = Call(a)
    BY <2>1, <1>5, <1>6
  <2>2. CASE c # Call(a)
    <3>1. c \in Answered(S) /\ c \in Calls
      BY <2>2, <1>2 DEF Answered
    <3> QED BY <3>1, <2>2, <1>4, <1>5, <1>6 DEF ResultsOK
  <2> QED BY <2>1, <2>2
<1> HIDE DEF T
<1>7. ResultsOK(T)
  BY <1>6 DEF ResultsOK
<1>8. OfItsArguments(AfterRec(a, n))
  BY <1>3 DEF OfItsArguments
<1> QED BY <1>3, <1>7, <1>8

-----------------------------------------------------------------------------
(* Actions *)

LEMMA RestoreInv ==
  ASSUME IInv, NEW a \in Attempts, Restore(a)
  PROVE  IInv'
<1>1. TypeOK /\ Base /\ (staleInsert \/ Deep)
  BY DEF IInv
<1>2. runStatus \in RunStatuses /\ issued \subseteq Calls /\ loop[a].at # "idle"
  BY <1>1 DEF TypeOK, RunStatuses, Restore
<1>3. CASE checkpoint = None
  <2> DEFINE r == [Idle EXCEPT !.at = "fence"]
  <2>1. r \in LoopRecs /\ r.at = "fence" /\ r.state = NewState /\ r.next = "model"
    BY IdleTyped DEF LoopRecs, Stages, Idle
  <2>2. loop' = [loop EXCEPT ![a] = r]
    BY <1>3 DEF Restore
  <2> HIDE DEF r
  <2>3. Answered(r.state) = {} /\ r.state.pending = <<>>
    BY <2>1 DEF Answered, NewState
  <2>4. /\ PendingOK(r) /\ LoopHasRows(r) /\ WriteIsFresh(r) /\ AnswerOK(a, r)
        /\ OfItsArguments(r) /\ ResultsOK(r.state) /\ ~AtTool(r)
    BY <2>1, <2>3 DEF PendingOK, LoopHasRows, WriteIsFresh, AnswerOK, OfItsArguments,
                      ResultsOK, AtTool, ToolStages
  <2>5. ASSUME NEW b \in Attempts PROVE Agree(r.state, loop[b].state)
    <3>1. DOMAIN r.state.pending = {}
      BY <2>3
    <3> QED BY <3>1 DEF Agree
  <2> QED BY <1>2, <1>3, <2>1, <2>2, <2>4, <2>5, QuietStep DEF Restore
<1>4. CASE checkpoint # None
  <2> DEFINE r == [Idle EXCEPT !.at = NextStage(checkpoint.pending),
                               !.state = checkpoint,
                               !.restoredBatch = checkpoint.pending # <<>>]
  <2>1. checkpoint \in States
    BY <1>1, <1>4 DEF TypeOK
  <2>2. /\ r.at = NextStage(checkpoint.pending) /\ r.state = checkpoint
        /\ r.at \in {"model", "find"}
    BY DEF NextStage, Idle
  <2>3. r \in LoopRecs
    <3>1. (checkpoint.pending # <<>>) \in BOOLEAN
      BY Zenon
    <3> QED BY <3>1, <2>1, <2>2, IdleTyped DEF LoopRecs, Stages, Idle, NextStage
  <2>4. loop' = [loop EXCEPT ![a] = r]
    BY <1>4 DEF Restore
  <2> HIDE DEF r
  <2>5. PendingOK(r)
    BY <2>2 DEF PendingOK, ToolStages, NextStage
  <2>6. LoopHasRows(r) /\ WriteIsFresh(r) /\ AnswerOK(a, r) /\ OfItsArguments(r)
    BY <1>1, <1>4, <2>2 DEF LoopHasRows, WriteIsFresh, AnswerOK, OfItsArguments, Base, RowsThere
  <2>7. CASE staleInsert
    BY <1>2, <2>3, <2>4, <2>5, <2>6, <2>7, QuietStep DEF Restore
  <2>8. CASE ~staleInsert
    <3>1. Deep
      BY <1>1, <2>8
    <3>2. ResultsOK(r.state)
      BY <1>4, <2>2, <3>1 DEF Deep, Sound
    <3>3. Agree(r.state, checkpoint)
      BY <2>1, <2>2, AgreeWithItself
    <3>4. ASSUME NEW b \in Attempts, Live(b) PROVE Agree(r.state, loop[b].state)
      <4>1. Agree(loop[b].state, checkpoint) /\ loop[b].state \in States
        BY <1>1, <1>4, <3>1, <3>4, LoopTyped DEF Deep, Agreement
      <4> QED BY <4>1, <2>1, <2>2, AgreeSymmetric
    <3> QED BY <1>2, <1>4, <2>2, <2>3, <2>4, <2>5, <2>6, <3>2, <3>3, <3>4, QuietStep DEF Restore
  <2> QED BY <2>7, <2>8
<1> QED BY <1>3, <1>4

LEMMA FenceInv ==
  ASSUME IInv, NEW a \in Attempts, CheckpointFence(a)
  PROVE  IInv'
<1>1. runStatus \in RunStatuses /\ loop[a].at = "fence"
  BY DEF IInv, TypeOK, RunStatuses, CheckpointFence
<1>2. CASE Owns(a)
  <2>1. WriteIsFresh([loop[a] EXCEPT !.at = "insert"])
    <3>1. loop[a] \in LoopRecs
      BY LoopTyped DEF IInv
    <3>2. [loop[a] EXCEPT !.at = "insert"].at = "insert"
      BY <3>1 DEF LoopRecs
    <3> QED BY <3>2 DEF WriteIsFresh
  <2> QED BY <1>1, <1>2, <2>1, GotoStep DEF CheckpointFence, Stages, ToolStages
<1>3. CASE ~Owns(a)
  BY <1>1, <1>3, DropStep DEF CheckpointFence, Fail
<1> QED BY <1>2, <1>3

LEMMA GiveUpInv ==
  ASSUME IInv, NEW a \in Attempts, StepFails(a) \/ PersistTerminal(a) \/ WorkerGone(a)
  PROVE  IInv'
<1>1. runStatus \in RunStatuses
  BY DEF IInv, TypeOK, RunStatuses
<1>2. CASE StepFails(a)
  BY <1>1, <1>2, DropStep DEF StepFails, Fail
<1>3. CASE PersistTerminal(a)
  BY <1>1, <1>3, DropStep DEF PersistTerminal, Leave, RunStatuses
<1>4. CASE WorkerGone(a)
  BY <1>1, <1>4, DropStep DEF WorkerGone, Leave
<1> QED BY <1>2, <1>3, <1>4

LEMMA AgreeWhenAnswered ==
  ASSUME NEW S \in States, NEW T \in States, Known(T) \subseteq Answered(S)
  PROVE  Agree(S, T)
<1>1. ASSUME NEW j \in DOMAIN T.pending PROVE T.pending[j] \in Answered(S)
  BY <1>1 DEF Known, CallsIn
<1> QED BY <1>1 DEF Agree, Done

LEMMA CompletionInv ==
  ASSUME IInv, NEW a \in Attempts, NEW list \in Seq(Calls), NEW next \in {"find", "succeeded"},
         next = "find" <=> list # <<>>,
         issued' \subseteq Calls, Completion(a, "fence", list, next)
  PROVE  IInv'
<1> DEFINE S == loop[a].state
           T == [S EXCEPT !.modelInvocations = S.modelInvocations + 1, !.pending = list]
           r == [Idle EXCEPT !.at = "fence", !.next = next, !.state = T]
<1>1. TypeOK /\ Base /\ (staleInsert \/ Deep) /\ runStatus \in RunStatuses
  BY DEF IInv, TypeOK, RunStatuses
<1>2. loop[a].at = "model" /\ S \in States /\ S.pending = <<>>
  BY <1>1, LoopTyped DEF Completion, Base, Pendings, PendingOK
<1>3. S.modelInvocations + 1 \in 0 .. MaxModelInvocations
  BY <1>2 DEF Completion, MayInvokeModel, States
<1>4. T \in States /\ T.results = S.results /\ T.pending = list
  BY <1>2, <1>3 DEF States
<1>5. loop' = [loop EXCEPT ![a] = r]
  BY DEF Completion
<1> HIDE DEF T
<1>6. r \in LoopRecs /\ r.at = "fence" /\ r.state = T /\ r.next = next
  BY <1>4, IdleTyped DEF LoopRecs, Stages, Idle
<1> HIDE DEF r
<1>7. Answered(T) = Answered(S) /\ Known(S) = Answered(S) /\ Answered(T) \subseteq Known(T)
  <2>1. CallsIn(S.pending) = {}
    BY <1>2 DEF CallsIn
  <2> QED BY <1>4, <2>1 DEF Answered, Known
<1>8. PendingOK(r) /\ WriteIsFresh(r) /\ AnswerOK(a, r) /\ OfItsArguments(r) /\ ~AtTool(r)
  BY <1>4, <1>6 DEF PendingOK, WriteIsFresh, AnswerOK, OfItsArguments, AtTool, ToolStages
<1>9. LoopHasRows(r)
  BY <1>1, <1>6, <1>7 DEF LoopHasRows, Base, RowsThere
<1>10. CASE staleInsert
  BY <1>1, <1>2, <1>5, <1>6, <1>8, <1>9, <1>10, QuietStep DEF Completion
<1>11. CASE ~staleInsert
  <2>1. Deep
    BY <1>1, <1>11
  <2>2. ResultsOK(T)
    BY <1>4, <1>7, <2>1 DEF Deep, Sound, ResultsOK
  <2>3. ASSUME a = attempt, checkpoint # None
        PROVE  /\ Known(checkpoint) \subseteq Known(T)
               /\ Agree(T, checkpoint)
               /\ \A b \in Attempts \ {a} : Live(b) => Agree(T, loop[b].state)
    <3>1. Known(checkpoint) \subseteq Answered(T)
      BY <1>2, <1>7, <2>1, <2>3 DEF Deep, KnownOK, Live, LiveAs
    <3>2. checkpoint \in States
      BY <1>1, <2>3 DEF TypeOK
    <3>3. ASSUME NEW b \in Attempts \ {a}, Live(b) PROVE Agree(T, loop[b].state)
      <4>1. Known(loop[b].state) \subseteq Known(checkpoint)
        BY <2>1, <2>3, <3>3 DEF Deep, KnownOK, Live, LiveAs
      <4> QED BY <1>1, <1>4, <3>1, <4>1, LoopTyped, AgreeWhenAnswered
    <3> QED BY <1>4, <1>7, <3>1, <3>2, <3>3, AgreeWhenAnswered
  <2>4. ASSUME a = attempt, checkpoint = None
        PROVE  \A b \in Attempts \ {a} : ~Live(b)
    BY <2>1, <2>4 DEF Deep, KnownOK, Live, LiveAs
  <2>5. LiveAs(a, r) => a = attempt
    BY <1>8 DEF LiveAs
  <2> QED BY <1>1, <1>2, <1>5, <1>6, <1>8, <1>9, <2>2, <2>3, <2>4, <2>5, QuietStep DEF Completion
<1> QED BY <1>10, <1>11

LEMMA ModelInv ==
  ASSUME IInv, NEW a \in Attempts, ModelAnswers(a) \/ ModelCallsTools(a)
  PROVE  IInv'
<1>1. issued \subseteq Calls
  BY DEF IInv, TypeOK
<1>2. CASE ModelAnswers(a)
  <2>1. <<>> \in Seq(Calls)
    OBVIOUS
  <2> QED BY <1>1, <1>2, <2>1, CompletionInv DEF ModelAnswers
<1>3. CASE ModelCallsTools(a)
  <2>1. PICK batch \in Batches :
          /\ issued' = issued \cup CallsIn(batch)
          /\ Completion(a, "fence", batch, "find")
    BY <1>3 DEF ModelCallsTools, StageOnToolCalls
  <2>2. batch \in Seq(Calls) /\ batch # <<>>
    OBVIOUS
  <2>3. issued' \subseteq Calls
    BY <1>1, <2>1, <2>2 DEF CallsIn
  <2> QED BY <2>1, <2>2, <2>3, CompletionInv
<1> QED BY <1>2, <1>3

LEMMA WriteRow ==
  ASSUME TypeOK, Base, NEW a \in Attempts, loop[a].at \in ToolStages, Row(a) # None
  PROVE  /\ Row(a) \in Rows
         /\ Row(a).class = IdempotencyClass[Call(a)]
         /\ Row(a).status = "FAILED" => ~IsWrite(Call(a))
         /\ HasResult(Row(a)) => Row(a).result \in Attempts
<1>1. Call(a) \in Calls /\ Id[Call(a)] \in Keys
  BY CallTyped DEF Base
<1>2. Row(a) \in Rows /\ RowOK(Id[Call(a)], Row(a))
  BY <1>1 DEF TypeOK, Row, Base, RowsOK
<1> QED BY <1>1, <1>2 DEF RowOK, IsWrite, Rows, HasResult

LEMMA FindInv ==
  ASSUME IInv, NEW a \in Attempts, FindOperation(a)
  PROVE  IInv'
<1>1. /\ TypeOK /\ Base /\ (staleInsert \/ Deep)
      /\ runStatus \in RunStatuses /\ issued \subseteq Calls
  BY DEF IInv, TypeOK, RunStatuses
<1>2. loop[a].at = "find" /\ loop[a].at \in ToolStages
  BY DEF FindOperation, ToolStages
<1>3. /\ Call(a) = Head(loop[a].state.pending) /\ Call(a) \in Calls
      /\ Row(a) = journal[Id[Call(a)]] /\ loop[a] \in LoopRecs
  BY <1>1, <1>2, CallTyped, LoopTyped DEF Base, Row
<1>4. CASE Fail(a)
  BY <1>1, <1>2, <1>4, DropStep DEF FindOperation, Fail
<1>5. CASE Goto(a, "record") /\ (Row(a) = None \/ ~IsWrite(Call(a)))
  <2> DEFINE r == [loop[a] EXCEPT !.at = "record"]
  <2>1. r.at = "record" /\ r.state = loop[a].state
    BY <1>3 DEF LoopRecs
  <2> HIDE DEF r
  <2>2. OfItsArguments(r)
    BY <1>3, <1>5, <2>1 DEF OfItsArguments
  <2>3. WriteIsFresh(r)
    BY <1>1, <1>3, <1>5, <2>1 DEF WriteIsFresh, Base, RowsThere, HasRow
  <2> QED BY <1>2, <1>5, <2>2, <2>3, GotoStep DEF FindOperation, Stages, ToolStages, r
<1>6. CASE Goto(a, "invoke") /\ Row(a) # None /\ ~IsWrite(Call(a))
  <2> DEFINE r == [loop[a] EXCEPT !.at = "invoke"]
  <2>1. r.at = "invoke" /\ r.state = loop[a].state
    BY <1>3 DEF LoopRecs
  <2> HIDE DEF r
  <2>2. OfItsArguments(r) /\ WriteIsFresh(r)
    BY <1>3, <1>6, <2>1 DEF OfItsArguments, WriteIsFresh
  <2>3. HasRow(Call(a))
    BY <1>3, <1>6 DEF HasRow
  <2> QED BY <1>2, <1>6, <2>2, <2>3, GotoStep DEF FindOperation, Stages, ToolStages, r
<1>7. CASE /\ Row(a) # None /\ Row(a).status = "COMMITTED" /\ HasResult(Row(a))
           /\ Matches(Row(a), Call(a)) /\ AfterCall(a, Row(a).result)
  <2> DEFINE n == Row(a).result
  <2>1. n \in Attempts /\ HasRow(Call(a))
    BY <1>1, <1>2, <1>3, <1>7, WriteRow DEF HasRow
  <2>2. PICK m \in Attempts : m = n
    BY <2>1
  <2> HIDE DEF n
  <2>3. AfterCall(a, m)
    BY <1>7, <2>2 DEF n
  <2>4. ~staleInsert /\ ~IsAmbiguous(Call(a)) => IsResultOf(m, Call(a))
    BY <1>1, <1>3, <1>7, <2>2 DEF n, Deep, Sound, Matches
  <2>5. PICK r \in LoopRecs : r = AfterRec(a, m)
    BY <1>1, <1>2, <2>3, AfterCallTyped DEF Base
  <2>6. loop' = [loop EXCEPT ![a] = r] /\ PendingOK(r)
    BY <1>1, <1>2, <2>3, <2>5, AfterCallTyped DEF Base
  <2>7. LoopHasRows(r) /\ WriteIsFresh(r) /\ AnswerOK(a, r)
    BY <1>1, <1>2, <2>1, <2>5, AfterCallBase
  <2>8. staleInsert \/ (OfItsArguments(r) /\ ResultsOK(r.state))
    BY <1>1, <1>2, <2>4, <2>5, AfterCallResults DEF Deep
  <2>9. staleInsert \/
           /\ AtTool(r) => checkpoint # None /\ Known(r.state) \subseteq Known(checkpoint)
           /\ LiveAs(a, r) /\ a = attempt /\ checkpoint # None =>
                Known(checkpoint) \subseteq Known(r.state)
           /\ LiveAs(a, r) =>
                /\ checkpoint # None => Agree(r.state, checkpoint)
                /\ \A b \in Attempts \ {a} : Live(b) => Agree(r.state, loop[b].state)
    BY <1>1, <1>2, <2>5, AfterCallDeep DEF Deep
  <2> QED BY <1>1, <1>2, <2>6, <2>7, <2>8, <2>9, QuietStep DEF FindOperation
<1>11. CASE loop' = [loop EXCEPT ![a].at = "record", ![a].afterNull = TRUE]
  <2>1. [loop[a] EXCEPT !.at = "record", !.afterNull = TRUE] \in LoopRecs
    BY <1>3 DEF LoopRecs, Stages
  <2>2. PICK r \in LoopRecs : r = [loop[a] EXCEPT !.at = "record", !.afterNull = TRUE]
    BY <2>1
  <2>3. r.at = "record" /\ r.afterNull /\ r.state = loop[a].state
    BY <1>3, <2>2 DEF LoopRecs
  <2>4. loop' = [loop EXCEPT ![a] = r]
    BY <1>1, <1>11, <2>2 DEF TypeOK
  <2>5. PendingOK(r) /\ LoopHasRows(r)
    BY <1>1, <1>2, <2>3 DEF Base, Pendings, PendingOK, RowsThere, LoopHasRows, ToolStages
  <2>6. WriteIsFresh(r) /\ AnswerOK(a, r) /\ OfItsArguments(r)
    BY <2>3 DEF WriteIsFresh, AnswerOK, OfItsArguments
  <2>7. AtTool(r) /\ AtTool(loop[a]) /\ Live(a)
    BY <1>2, <2>3 DEF AtTool, Live, LiveAs, ToolStages
  <2>8. staleInsert \/
           /\ AtTool(r) => checkpoint # None /\ Known(r.state) \subseteq Known(checkpoint)
           /\ LiveAs(a, r) /\ a = attempt /\ checkpoint # None =>
                Known(checkpoint) \subseteq Known(r.state)
           /\ LiveAs(a, r) =>
                /\ checkpoint # None => Agree(r.state, checkpoint)
                /\ \A b \in Attempts \ {a} : Live(b) => Agree(r.state, loop[b].state)
           /\ OfItsArguments(r)
           /\ ResultsOK(r.state)
    BY <1>1, <2>3, <2>6, <2>7 DEF Deep, KnownOK, Agreement, Sound
  <2> QED BY <1>1, <1>2, <2>4, <2>5, <2>6, <2>8, QuietStep DEF FindOperation
<1>8. \/ Fail(a)
      \/ Goto(a, "record") /\ (Row(a) = None \/ (Row(a) # None /\ Row(a).status = "FAILED"))
      \/ /\ Goto(a, "invoke") /\ Row(a) # None
         /\ IsSideEffectSafeToAutoReplay(Row(a).class, "PENDING")
      \/ /\ Row(a) # None /\ Row(a).status = "COMMITTED" /\ HasResult(Row(a))
         /\ Matches(Row(a), Call(a)) /\ AfterCall(a, Row(a).result)
      \/ loop' = [loop EXCEPT ![a].at = "record", ![a].afterNull = TRUE]
  BY Zenon DEF FindOperation
<1>9. Row(a) # None /\ Row(a).status = "FAILED" => ~IsWrite(Call(a))
  BY <1>1, <1>2, WriteRow
<1>10. Row(a) # None /\ IsSideEffectSafeToAutoReplay(Row(a).class, "PENDING") => ~IsWrite(Call(a))
  BY <1>1, <1>2, WriteRow DEF IsSideEffectSafeToAutoReplay, IsWrite
<1> QED BY <1>4, <1>5, <1>6, <1>7, <1>8, <1>9, <1>10, <1>11

LEMMA RecordInv ==
  ASSUME IInv, NEW a \in Attempts, RecordPending(a)
  PROVE  IInv'
<1>1. /\ TypeOK /\ Base /\ (staleInsert \/ Deep)
  BY DEF IInv
<1>2. loop[a].at = "record" /\ loop[a].at \in ToolStages
  BY DEF RecordPending, ToolStages
<1>3. PICK x \in {"insertRow", "invoke"} :
        /\ Goto(a, x)
        /\ x = "invoke" => Row(a) # None
  BY DEF RecordPending
<1> DEFINE r == [loop[a] EXCEPT !.at = x]
<1>4. /\ r.at = x /\ r.state = loop[a].state /\ r.afterNull = loop[a].afterNull
      /\ Call(a) = Head(loop[a].state.pending)
  <2>1. loop[a] \in LoopRecs
    BY <1>1, LoopTyped
  <2> QED BY <2>1 DEF LoopRecs, Call
<1> HIDE DEF r
<1>5. x = "invoke" => HasRow(Call(a))
  BY <1>3 DEF HasRow, Row
<1>6. staleInsert \/ OfItsArguments(r)
  <2>1. staleInsert \/ OfItsArguments(loop[a])
    BY <1>1 DEF Deep, RowsMatch
  <2> QED BY <1>2, <1>4, <2>1 DEF OfItsArguments
<1>7. a = attempt => WriteIsFresh(r)
  BY <1>1, <1>2, <1>4 DEF WriteIsFresh, Base, Fresh
<1> QED BY <1>2, <1>3, <1>5, <1>6, <1>7, GotoStep DEF RecordPending, Stages, ToolStages, r

LEMMA InsertInv ==
  ASSUME IInv, NEW a \in Attempts, CheckpointInsert(a)
  PROVE  IInv'
<1> DEFINE S == loop[a].state
           x == loop[a].next
<1>1. /\ TypeOK /\ Base /\ (staleInsert \/ Deep)
      /\ loop[a].at = "insert" /\ loop[a] \in LoopRecs /\ S \in States
      /\ checkpoint' = S
  BY LoopTyped DEF IInv, CheckpointInsert
<1>2. x \in {"model", "find", "succeeded"} /\ PendingOK(loop[a])
  BY <1>1 DEF LoopRecs, Base, Pendings
<1>12. [loop[a] EXCEPT !.at = x] \in LoopRecs
  BY <1>1, <1>2 DEF LoopRecs, Stages
<1>13. PICK r \in LoopRecs : r = [loop[a] EXCEPT !.at = x]
  BY <1>12
<1>3. r.at = x /\ r.state = S
  BY <1>1, <1>13 DEF LoopRecs
<1>4. loop' = [loop EXCEPT ![a] = r]
  BY <1>1, <1>13 DEF CheckpointInsert, Goto, TypeOK
<1>5. PendingOK(r)
  BY <1>1, <1>2, <1>3 DEF PendingOK, ToolStages
<1>6. /\ loop'[a] = r
      /\ \A b \in Attempts \ {a} : loop'[b] = loop[b]
      /\ loop' \in [Attempts -> LoopRecs]
  BY <1>1, <1>3, <1>4, OneLoop
<1>7. TypeOK'
  <2>1. (staleInsert \/ ~Owns(a)) \in BOOLEAN
    OBVIOUS
  <2> QED BY <1>1, <1>6, <2>1 DEF TypeOK, LoopRecs, CheckpointInsert
<1>8. \A c \in Answered(S) : HasRow(c)
  BY <1>1 DEF Base, RowsThere, LoopHasRows
<1>9. Base'
  <2>1. RowsOK' /\ OwnedWritesAtMostOnce'
    BY <1>1 DEF CheckpointInsert, Base, RowsOK, RowOK, OwnedWritesAtMostOnce
  <2>2. \A c \in Calls : HasRow(c)' <=> HasRow(c)
    BY DEF HasRow, CheckpointInsert
  <2>3. effects' = effects /\ effects \subseteq Effects
    BY <1>1 DEF TypeOK, Effects, CheckpointInsert
  <2>4. checkpoint' # None => \A c \in Answered(checkpoint') : HasRow(c)'
    BY <1>1, <1>8, <2>2 DEF Answered
  <2>5. LoopHasRows(r)' /\ WriteIsFresh(r)' /\ AnswerOK(a, r)'
    BY <1>2, <1>3, <1>8, <2>2 DEF LoopHasRows, WriteIsFresh, AnswerOK, Answered
  <2> QED BY <1>1, <1>3, <1>4, <1>5, <2>1, <2>2, <2>3, <2>4, <2>5, BaseStep DEF CheckpointInsert
<1>10. CASE staleInsert'
  BY <1>7, <1>9, <1>10 DEF IInv
<1>11. CASE ~staleInsert'
  <2>1. ~staleInsert /\ a = attempt /\ attempt' = attempt /\ UNCHANGED <<journal, effects>>
    BY <1>11 DEF CheckpointInsert, Owns
  <2>2. Deep /\ Live(a)
    BY <1>1, <2>1 DEF Live, LiveAs
  <2>3. checkpoint # None => Known(checkpoint) \subseteq Known(S)
    BY <2>1, <2>2 DEF Deep, KnownOK
  <2>4. checkpoint' # None
    BY <1>1
  <2>5. KnownOK'
    <3>1. ASSUME NEW b \in Attempts, AtTool(loop'[b])
          PROVE  Known(loop'[b].state) \subseteq Known(S)
      <4>1. CASE b = a
        BY <4>1, <1>3, <1>6
      <4>2. CASE b # a
        BY <4>2, <1>6, <2>2, <2>3, <3>1 DEF Deep, KnownOK
      <4> QED BY <4>1, <4>2
    <3>2. Known(S) \subseteq Known(loop'[attempt'].state)
      BY <1>3, <1>6, <2>1
    <3> QED BY <1>1, <2>4, <3>1, <3>2 DEF KnownOK, AtTool
  <2>6. Agreement'
    <3>1. ASSUME NEW b \in Attempts, LiveAs(b, loop'[b])
          PROVE  /\ Live(b) /\ loop'[b].state = loop[b].state
                 /\ Agree(loop'[b].state, S)
      <4>1. CASE b = a
        BY <4>1, <1>1, <1>3, <1>6, <2>2, AgreeWithItself
      <4>2. CASE b # a
        BY <4>2, <1>6, <2>2, <3>1 DEF Deep, Agreement, Live
      <4> QED BY <4>1, <4>2
    <3>2. ASSUME NEW b \in Attempts, LiveAs(b, loop'[b]),
                 NEW d \in Attempts, LiveAs(d, loop'[d])
          PROVE  Agree(loop'[b].state, loop'[d].state)
      <4>1. Agree(loop[b].state, loop[d].state)
        BY <2>2, <3>1, <3>2 DEF Deep, Agreement
      <4> QED BY <3>1, <3>2, <4>1
    <3> QED BY <1>1, <2>1, <3>1, <3>2 DEF Agreement, Live, LiveAs, AtTool
  <2>7. RowsMatch'
    <3>1. ASSUME NEW b \in Attempts PROVE OfItsArguments(loop'[b])
      <4>1. CASE b = a
        BY <4>1, <1>2, <1>3, <1>6 DEF OfItsArguments
      <4>2. CASE b # a
        BY <4>2, <1>6, <2>2 DEF Deep, RowsMatch
      <4> QED BY <4>1, <4>2
    <3> QED BY <2>1, <3>1 DEF RowsMatch, OfItsArguments
  <2>8. Sound'
    <3>1. \A b \in Attempts : ResultsOK(loop[b].state)
      BY <2>2 DEF Deep, Sound
    <3>2. \A b \in Attempts : ResultsOK(loop'[b].state)
      BY <1>3, <1>6, <3>1
    <3>3. ResultsOK(checkpoint')
      BY <1>1, <3>1
    <3> QED BY <2>1, <2>2, <3>2, <3>3 DEF Deep, Sound, ResultsOK, IsResultOf, IsAmbiguous
  <2>9. Checkpointed'
    BY <1>1, <2>1, <2>2, <2>3, <2>4 DEF Deep, Checkpointed
  <2> QED BY <1>7, <1>9, <2>5, <2>6, <2>7, <2>8, <2>9 DEF IInv, Deep
<1> QED BY <1>10, <1>11

(* One row of the journal changes. *)
LEMMA OneRow ==
  ASSUME TypeOK, RowsOK, NEW k \in Keys, NEW row \in Rows, RowOK(k, row),
         journal' = [journal EXCEPT ![k] = row]
  PROVE  /\ journal' \in [Keys -> Rows \cup {None}]
         /\ journal'[k] = row
         /\ \A j \in Keys \ {k} : journal'[j] = journal[j]
         /\ RowsOK'
         /\ \A c \in Calls : HasRow(c) => HasRow(c)'
         /\ \A c \in Calls : Id[c] = k => HasRow(c)'
<1>1. journal \in [Keys -> Rows \cup {None}]
  BY DEF TypeOK
<1>2. /\ journal' \in [Keys -> Rows \cup {None}]
      /\ journal'[k] = row
      /\ \A j \in Keys \ {k} : journal'[j] = journal[j]
  BY <1>1
<1>3. RowsOK'
  BY <1>2 DEF RowsOK, RowOK
<1>4. \A c \in Calls : Id[c] \in Keys
  BY DEF Keys
<1>5. row # None
  OBVIOUS
<1>6. \A c \in Calls : HasRow(c) => HasRow(c)'
  BY <1>2, <1>4, <1>5 DEF HasRow
<1>7. \A c \in Calls : Id[c] = k => HasRow(c)'
  BY <1>2, <1>5 DEF HasRow
<1> QED BY <1>2, <1>3, <1>6, <1>7

LEMMA InsertRowInv ==
  ASSUME IInv, NEW a \in Attempts, InsertRow(a)
  PROVE  IInv'
<1>1. /\ TypeOK /\ Base /\ (staleInsert \/ Deep)
      /\ runStatus \in RunStatuses
      /\ loop[a].at = "insertRow" /\ loop[a].at \in ToolStages
  BY DEF IInv, TypeOK, RunStatuses, InsertRow, ToolStages
<1>2. CASE Row(a) # None
  BY <1>1, <1>2, DropStep DEF InsertRow, Fail
<1>3. CASE Row(a) = None
  <2>14. Call(a) \in Calls /\ Id[Call(a)] \in Keys /\ Call(a) = Head(loop[a].state.pending)
    BY <1>1, CallTyped DEF Base
  <2>15. PICK c \in Calls : c = Call(a)
    BY <2>14
  <2> DEFINE k == Id[c]
             row == [status |-> "PENDING", class |-> IdempotencyClass[c],
                     fingerprint |-> Fingerprint[c], result |-> 0]
  <2>1. /\ k \in Keys /\ c = Head(loop[a].state.pending)
        /\ loop[a] \in LoopRecs
    BY <1>1, <2>14, <2>15, LoopTyped
  <2>2. row \in Rows /\ RowOK(k, row)
    BY <2>1 DEF Rows, Statuses, RowOK
  <2>3. journal' = [journal EXCEPT ![k] = row] /\ Goto(a, "invoke")
    BY <1>3, <2>15 DEF InsertRow
  <2>4. row.status = "PENDING" /\ row.fingerprint = Fingerprint[c]
    OBVIOUS
  <2>16. [loop[a] EXCEPT !.at = "invoke"] \in LoopRecs
    BY <2>1 DEF LoopRecs, Stages
  <2>17. PICK r \in LoopRecs : r = [loop[a] EXCEPT !.at = "invoke"]
    BY <2>16
  <2>5. r.at = "invoke" /\ r.state = loop[a].state /\ r.afterNull = loop[a].afterNull
    BY <2>1, <2>17 DEF LoopRecs
  <2>6. loop' = [loop EXCEPT ![a] = r]
    BY <1>1, <2>3, <2>17 DEF Goto, TypeOK
  <2> HIDE DEF row
  <2>7. /\ journal' \in [Keys -> Rows \cup {None}]
        /\ journal'[k] = row
        /\ \A j \in Keys \ {k} : journal'[j] = journal[j]
        /\ RowsOK'
        /\ \A d \in Calls : HasRow(d) => HasRow(d)'
        /\ HasRow(c)'
    BY <1>1, <2>1, <2>2, <2>3, OneRow DEF Base
  <2>8. /\ loop'[a] = r
        /\ \A b \in Attempts \ {a} : loop'[b] = loop[b]
        /\ loop' \in [Attempts -> LoopRecs]
    BY <1>1, <2>5, <2>6, OneLoop
  <2>9. TypeOK'
    BY <1>1, <2>7, <2>8 DEF InsertRow, TypeOK, LoopRecs
  <2>10. UNCHANGED <<runStatus, attempt, checkpoint, effects, staleInsert>>
    BY DEF InsertRow
  <2>11. Base'
    <3>1. effects \subseteq Effects
      BY <1>1 DEF TypeOK, Effects
    <3>2. checkpoint' # None => \A d \in Answered(checkpoint') : HasRow(d)'
      BY <1>1, <2>7, <2>10 DEF Base, RowsThere, Answered
    <3>3. OwnedWritesAtMostOnce'
      BY <1>1, <2>10 DEF Base, OwnedWritesAtMostOnce
    <3>4. PendingOK(loop[a]) /\ LoopHasRows(loop[a])
      BY <1>1 DEF Base, Pendings, RowsThere
    <3>5. PendingOK(r) /\ AnswerOK(a, r)'
      BY <1>1, <2>5, <3>4 DEF PendingOK, AnswerOK, ToolStages
    <3>6. LoopHasRows(r)'
      BY <2>1, <2>5, <2>7, <3>4 DEF LoopHasRows, Answered
    <3>7. a = attempt => WriteIsFresh(r)'
      BY <1>1, <2>5, <2>10 DEF Base, Fresh, WriteIsFresh
    <3> QED BY <1>1, <2>5, <2>6, <2>7, <2>10, <3>1, <3>2, <3>3, <3>5, <3>6, <3>7, BaseStep
  <2>12. CASE staleInsert
    BY <2>9, <2>10, <2>11, <2>12 DEF IInv
  <2>13. CASE ~staleInsert
    <3>1. Deep /\ AtTool(loop[a]) /\ Live(a) /\ AtTool(r) /\ LiveAs(a, r)
      BY <1>1, <2>5, <2>13 DEF AtTool, Live, LiveAs, ToolStages
    <3>2. KnownOK'
      BY <1>1, <2>5, <2>6, <2>10, <3>1, KnownStep DEF Deep, KnownOK
    <3>3. Agreement'
      BY <1>1, <2>5, <2>6, <2>10, <3>1, AgreementStep DEF Deep, Agreement
    <3>4. ASSUME NEW b \in Attempts \ {a}, loop[b].at \in {"record", "invoke", "answered"},
                 Id[Head(loop[b].state.pending)] = k
          PROVE  Head(loop[b].state.pending) = c
      <4>1. AtTool(loop[b]) /\ Live(b) /\ loop[b].at \in ToolStages
        BY <3>4 DEF AtTool, Live, LiveAs, ToolStages
      <4>2. /\ Agree(loop[a].state, loop[b].state)
            /\ loop[a].state \in States /\ loop[b].state \in States
            /\ loop[a].state.pending # <<>> /\ loop[b].state.pending # <<>>
        BY <1>1, <3>1, <4>1, LoopTyped, CallTyped DEF Deep, Agreement, Base
      <4>3. journal[k] = None
        BY <1>3, <2>15 DEF Row
      <4>4. ~HasRow(c) /\ ~HasRow(Head(loop[b].state.pending))
        BY <3>4, <4>3 DEF HasRow
      <4>5. c \notin Answered(loop[b].state) /\ Head(loop[b].state.pending) \notin Answered(loop[a].state)
        BY <1>1, <4>4 DEF Base, RowsThere, LoopHasRows
      <4> QED BY <2>1, <4>2, <4>5, AgreeAtHeads
    <3>5. RowsMatch'
      <4>1. ASSUME NEW b \in Attempts PROVE OfItsArguments(loop[b])'
        <5>1. CASE b = a
          BY <5>1, <2>1, <2>4, <2>5, <2>7, <2>8 DEF OfItsArguments
        <5>2. CASE b # a
          <6> DEFINE d == Head(loop[b].state.pending)
          <6>1. OfItsArguments(loop[b]) /\ loop'[b] = loop[b]
            BY <2>8, <3>1, <5>2 DEF Deep, RowsMatch
          <6>2. CASE loop[b].at \notin {"record", "invoke", "answered"}
            BY <6>1, <6>2 DEF OfItsArguments
          <6>3. CASE loop[b].at \in {"record", "invoke", "answered"}
            <7>1. d \in Calls /\ Id[d] \in Keys
              BY <1>1, <6>3, CallTyped DEF Base, ToolStages
            <7>2. CASE Id[d] = k
              BY <2>4, <2>7, <3>4, <5>2, <6>1, <6>3, <7>2 DEF OfItsArguments
            <7>3. CASE Id[d] # k
              BY <2>7, <6>1, <7>1, <7>3 DEF OfItsArguments
            <7> QED BY <7>2, <7>3
          <6> QED BY <6>2, <6>3
        <5> QED BY <5>1, <5>2
      <4> QED BY <4>1 DEF RowsMatch
    <3>6. Sound'
      <4>1. \A b \in Attempts : ResultsOK(loop'[b].state)
        BY <2>5, <2>8, <3>1 DEF Deep, Sound
      <4>2. ASSUME NEW d \in Calls, ~IsAmbiguous(d), journal'[Id[d]] # None,
                   journal'[Id[d]].status = "COMMITTED",
                   journal'[Id[d]].fingerprint = Fingerprint[d],
                   HasResult(journal'[Id[d]])
            PROVE  IsResultOf(journal'[Id[d]].result, d)
        <5>1. Id[d] \in Keys /\ Id[d] # k
          BY <2>4, <2>7, <4>2 DEF Keys
        <5> QED BY <5>1, <2>7, <3>1, <4>2 DEF Deep, Sound
      <4> QED BY <2>10, <3>1, <4>1, <4>2 DEF Deep, Sound, ResultsOK, IsResultOf, IsAmbiguous
    <3>7. Checkpointed'
      BY <2>10, <3>1 DEF Deep, Checkpointed
    <3> QED BY <2>9, <2>11, <3>2, <3>3, <3>5, <3>6, <3>7 DEF IInv, Deep
  <2> QED BY <2>12, <2>13
<1> QED BY <1>2, <1>3

LEMMA InvokeInv ==
  ASSUME IInv, NEW a \in Attempts, InvokeTool(a)
  PROVE  IInv'
<1>1. /\ TypeOK /\ Base /\ (staleInsert \/ Deep)
      /\ runStatus \in RunStatuses
      /\ loop[a].at = "invoke" /\ loop[a].at \in ToolStages
      /\ loop[a] \in LoopRecs
  BY LoopTyped DEF IInv, TypeOK, RunStatuses, InvokeTool, ToolStages
<1>2. [loop[a] EXCEPT !.at = "answered"] \in LoopRecs
  BY <1>1 DEF LoopRecs, Stages
<1>4. PICK r \in LoopRecs : r = [loop[a] EXCEPT !.at = "answered"]
  BY <1>2
<1>5. r.at = "answered" /\ r.state = loop[a].state /\ r.afterNull = loop[a].afterNull
  BY <1>1, <1>4 DEF LoopRecs
<1>6. loop' = [loop EXCEPT ![a] = r]
  BY <1>1, <1>4 DEF InvokeTool, Goto, TypeOK
<1>7. /\ loop'[a] = r
      /\ \A b \in Attempts \ {a} : loop'[b] = loop[b]
      /\ loop' \in [Attempts -> LoopRecs]
  BY <1>1, <1>6, OneLoop
<1>8. Call(a) \in Calls /\ Call(a) = Head(loop[a].state.pending)
  BY <1>1, CallTyped DEF Base
<1>9. PICK c \in Calls : c = Call(a)
  BY <1>8
<1>10. PICK o \in BOOLEAN : o <=> Owns(a)
  <2>1. Owns(a) \in BOOLEAN
    BY DEF Owns
  <2> QED BY <2>1
<1> DEFINE n == loop[a].afterNull
           effect == [attempt |-> a, call |-> c, owned |-> o, afterNull |-> n]
<1>11. effect \in Effects /\ effects' = effects \cup {effect}
  <2>1. Owns(a) = o
    BY <1>10 DEF Owns
  <2>2. n \in BOOLEAN
    BY <1>1 DEF LoopRecs
  <2> QED BY <1>9, <2>1, <2>2 DEF InvokeTool, Effects
<1>12. PICK e \in Effects : e = effect
  BY <1>11
<1>13. /\ e.attempt = a /\ e.call = c /\ (e.owned => a = attempt)
       /\ e.afterNull = loop[a].afterNull
       /\ effects' = effects \cup {e}
  BY <1>10, <1>11, <1>12 DEF Owns
<1>14. UNCHANGED <<runStatus, attempt, journal, checkpoint, issued, staleInsert>>
  BY DEF InvokeTool
<1>15. effects \subseteq Effects
  BY <1>1 DEF TypeOK, Effects
<1>16. TypeOK'
  BY <1>1, <1>7, <1>13, <1>14, <1>15 DEF TypeOK, LoopRecs, Effects
<1>17. PendingOK(loop[a]) /\ LoopHasRows(loop[a])
  BY <1>1 DEF Base, Pendings, RowsThere
<1>18. HasRow(c)
  BY <1>1, <1>8, <1>9, <1>17 DEF LoopHasRows
<1>19. \A d \in Calls : HasRow(d) <=> HasRow(d)'
  BY <1>14 DEF HasRow
<1>20. Base'
  <2>1. RowsOK'
    BY <1>1, <1>14 DEF Base, RowsOK, RowOK
  <2>2. \A f \in effects' : f \in effects \/ (HasRow(f.call)' /\ (f.owned => a = attempt))
    BY <1>13, <1>18, <1>19
  <2>3. checkpoint' # None => \A d \in Answered(checkpoint') : HasRow(d)'
    BY <1>1, <1>14, <1>19 DEF Base, RowsThere, Answered
  <2>4. PendingOK(r)
    BY <1>1, <1>5, <1>17 DEF PendingOK, ToolStages
  <2>5. LoopHasRows(r)'
    BY <1>8, <1>9, <1>17, <1>5, <1>18, <1>19 DEF LoopHasRows, Answered
  <2>6. WriteIsFresh(r)'
    BY <1>5 DEF WriteIsFresh
  <2>7. AnswerOK(a, r)'
    BY <1>5, <1>8, <1>9, <1>13 DEF AnswerOK
  <2>8. OwnedWritesAtMostOnce'
    <3>1. ASSUME NEW f \in effects, f.owned, IsWrite(f.call), e.owned,
                 ~f.afterNull, ~e.afterNull, Id[f.call] = Id[e.call]
          PROVE  FALSE
      <4>1. f.call \in Calls
        BY <1>15 DEF Effects
      <4>2. IdempotencyClass[f.call] = IdempotencyClass[c]
        BY <1>13, <3>1, <4>1
      <4>3. IsWrite(c)
        BY <3>1, <4>2 DEF IsWrite
      <4>4. Id[f.call] # Id[c]
        BY <1>1, <1>8, <1>9, <1>13, <3>1, <4>3 DEF Base, Fresh, WriteIsFresh
      <4> QED BY <1>13, <3>1, <4>4
    <3>2. ASSUME NEW f \in effects, f.owned, IsWrite(e.call), e.owned,
                 ~f.afterNull, ~e.afterNull, Id[f.call] = Id[e.call]
          PROVE  FALSE
      <4>1. f.call \in Calls
        BY <1>15 DEF Effects
      <4>2. IdempotencyClass[f.call] = IdempotencyClass[c]
        BY <1>13, <3>2, <4>1
      <4> QED BY <1>13, <3>1, <3>2, <4>2 DEF IsWrite
    <3>3. OwnedWritesAtMostOnce
      BY <1>1 DEF Base
    <3>4. ASSUME NEW f \in effects', NEW g \in effects', f.owned, g.owned,
                 ~f.afterNull, ~g.afterNull, IsWrite(f.call), IsWrite(g.call), Id[f.call] = Id[g.call]
          PROVE  f = g
      <4>1. CASE f \in effects /\ g \in effects
        BY <3>3, <3>4, <4>1 DEF OwnedWritesAtMostOnce
      <4>2. CASE f \notin effects
        BY <1>13, <3>1, <3>4, <4>2
      <4>3. CASE g \notin effects
        BY <1>13, <3>1, <3>4, <4>3
      <4> QED BY <4>1, <4>2, <4>3
    <3> QED BY <3>4 DEF OwnedWritesAtMostOnce
  <2> QED BY <1>1, <1>5, <1>6, <1>13, <1>14, <1>15, <1>19, <2>1, <2>2, <2>3, <2>4, <2>5,
             <2>6, <2>7, <2>8, BaseStep
<1>21. CASE staleInsert
  BY <1>14, <1>16, <1>20, <1>21 DEF IInv
<1>22. CASE ~staleInsert
  <2>1. Deep /\ AtTool(loop[a]) /\ Live(a) /\ AtTool(r) /\ LiveAs(a, r)
    BY <1>1, <1>5, <1>22 DEF AtTool, Live, LiveAs, ToolStages
  <2>2. KnownOK'
    BY <1>1, <1>5, <1>6, <1>14, <2>1, KnownStep DEF Deep, KnownOK
  <2>3. Agreement'
    BY <1>1, <1>5, <1>6, <1>14, <2>1, AgreementStep DEF Deep, Agreement
  <2>4. RowsMatch'
    <3>1. \A b \in Attempts : OfItsArguments(loop[b])
      BY <2>1 DEF Deep, RowsMatch
    <3>2. OfItsArguments(r)
      BY <1>1, <1>5, <3>1 DEF OfItsArguments
    <3>3. \A b \in Attempts : OfItsArguments(loop'[b])
      BY <1>7, <3>1, <3>2
    <3> QED BY <1>14, <3>3 DEF RowsMatch, OfItsArguments
  <2>5. Sound'
    <3>1. \A b \in Attempts : ResultsOK(loop'[b].state)
      BY <1>5, <1>7, <2>1 DEF Deep, Sound
    <3>2. \A d \in Calls : IsAmbiguous(d) => IsAmbiguous(d)'
      BY <1>13 DEF IsAmbiguous
    <3>3. \A m : \A d \in Calls : IsResultOf(m, d) => IsResultOf(m, d)'
      BY <1>13 DEF IsResultOf
    <3>4. \A S \in States : ResultsOK(S) => ResultsOK(S)'
      BY <3>2, <3>3 DEF ResultsOK, Answered
    <3>5. ASSUME NEW b \in Attempts PROVE ResultsOK(loop[b].state)'
      <4>1. loop'[b].state \in States /\ ResultsOK(loop'[b].state)
        BY <1>7, <3>1 DEF LoopRecs
      <4>2. PICK S \in States : S = loop'[b].state
        BY <4>1
      <4>3. ResultsOK(S)'
        BY <3>4, <4>1, <4>2
      <4> QED BY <4>2, <4>3
    <3>7. checkpoint # None => ResultsOK(checkpoint)'
      <4>1. SUFFICES ASSUME checkpoint # None PROVE ResultsOK(checkpoint)'
        OBVIOUS
      <4>2. PICK S \in States : S = checkpoint
        BY <1>1, <4>1 DEF TypeOK
      <4>3. ResultsOK(S)'
        BY <2>1, <3>4, <4>1, <4>2 DEF Deep, Sound
      <4> QED BY <1>14, <4>2, <4>3
    <3>6. ASSUME NEW d \in Calls, ~IsAmbiguous(d)', journal[Id[d]] # None,
                 journal[Id[d]].status = "COMMITTED",
                 journal[Id[d]].fingerprint = Fingerprint[d], HasResult(journal[Id[d]])
          PROVE  IsResultOf(journal[Id[d]].result, d)'
      <4>1. ~IsAmbiguous(d)
        BY <3>2, <3>6
      <4>2. IsResultOf(journal[Id[d]].result, d)
        BY <2>1, <3>6, <4>1 DEF Deep, Sound
      <4> QED BY <1>13, <1>14, <4>2 DEF IsResultOf
    <3> QED BY <1>14, <3>5, <3>6, <3>7 DEF Sound, HasResult
  <2>6. Checkpointed'
    <3>1. checkpoint # None /\ Known(loop[a].state) \subseteq Known(checkpoint)
      BY <2>1 DEF Deep, KnownOK
    <3>2. c \in Known(loop[a].state)
      <4>1. loop[a].state.pending \in Seq(Calls) /\ loop[a].state.pending # <<>>
        BY <1>1, LoopTyped, CallTyped DEF Base
      <4>2. 1 \in DOMAIN loop[a].state.pending /\ c = loop[a].state.pending[1]
        BY <1>8, <1>9, <4>1
      <4> QED BY <4>2 DEF Known, CallsIn
    <3> QED BY <1>13, <1>14, <2>1, <3>1, <3>2 DEF Deep, Checkpointed
  <2> QED BY <1>16, <1>20, <2>2, <2>3, <2>4, <2>5, <2>6 DEF IInv, Deep
<1> QED BY <1>21, <1>22

(* An invocation is settled in the journal. *)
LEMMA SettleStep ==
  ASSUME IInv, NEW a \in Attempts, loop[a].at = "answered", NEW c \in Calls, c = Call(a),
         NEW row \in Rows, row.class = Row(a).class, row.fingerprint = Row(a).fingerprint,
         row.status = "FAILED" => row.class \in {"PURE", "READ_ONLY"},
         row.status = "COMMITTED" /\ HasResult(row) => row.result = a,
         journal' = [journal EXCEPT ![Id[c]] = row],
         NEW r \in LoopRecs, loop' = [loop EXCEPT ![a] = r],
         UNCHANGED <<runStatus, attempt, checkpoint, issued, effects, staleInsert>>,
         PendingOK(r), LoopHasRows(r), r.at \in {"find", "fence", "failed"},
         staleInsert \/
           /\ AtTool(r) => checkpoint # None /\ Known(r.state) \subseteq Known(checkpoint)
           /\ LiveAs(a, r) /\ a = attempt /\ checkpoint # None =>
                Known(checkpoint) \subseteq Known(r.state)
           /\ LiveAs(a, r) =>
                /\ checkpoint # None => Agree(r.state, checkpoint)
                /\ \A b \in Attempts \ {a} : Live(b) => Agree(r.state, loop[b].state)
           /\ ResultsOK(r.state)
  PROVE  IInv'
<1> DEFINE k == Id[c]
<1>1. /\ TypeOK /\ Base /\ (staleInsert \/ Deep)
      /\ loop[a].at \in ToolStages
  BY DEF IInv, ToolStages
<1>2. k \in Keys /\ c = Head(loop[a].state.pending) /\ Row(a) = journal[k]
  BY <1>1, CallTyped DEF Base, Row
<1>3. journal[k] # None
  <2>1. HasRow(Head(loop[a].state.pending))
    BY DEF IInv, Base, RowsThere, LoopHasRows
  <2> QED BY <1>2, <2>1 DEF HasRow
<1>4. RowOK(k, row)
  <2>1. RowOK(k, journal[k])
    BY <1>1, <1>2, <1>3 DEF Base, RowsOK
  <2> QED BY <1>2, <2>1 DEF RowOK
<1>5. /\ journal' \in [Keys -> Rows \cup {None}]
      /\ journal'[k] = row
      /\ \A j \in Keys \ {k} : journal'[j] = journal[j]
      /\ RowsOK'
      /\ \A d \in Calls : HasRow(d) => HasRow(d)'
  BY <1>1, <1>2, <1>4, OneRow DEF Base
<1>6. /\ loop'[a] = r
      /\ \A b \in Attempts \ {a} : loop'[b] = loop[b]
      /\ loop' \in [Attempts -> LoopRecs]
  BY <1>1, OneLoop
<1>7. TypeOK'
  BY <1>1, <1>5, <1>6 DEF TypeOK, LoopRecs
<1>8. Base'
  <2>1. effects \subseteq Effects
    BY <1>1 DEF TypeOK, Effects
  <2>2. checkpoint' # None => \A d \in Answered(checkpoint') : HasRow(d)'
    BY <1>1, <1>5 DEF Base, RowsThere, Answered
  <2>3. OwnedWritesAtMostOnce'
    BY <1>1 DEF Base, OwnedWritesAtMostOnce
  <2>4. LoopHasRows(r)' /\ WriteIsFresh(r)' /\ AnswerOK(a, r)'
    BY <1>5 DEF LoopHasRows, WriteIsFresh, AnswerOK, Answered
  <2> QED BY <1>1, <1>5, <2>1, <2>2, <2>3, <2>4, BaseStep
<1>9. CASE staleInsert
  BY <1>7, <1>8, <1>9 DEF IInv
<1>10. CASE ~staleInsert
  <2>1. Deep
    BY <1>1, <1>10
  <2>2. KnownOK'
    BY <1>1, <1>10, <2>1, KnownStep DEF Deep
  <2>3. Agreement'
    BY <1>1, <1>10, <2>1, AgreementStep DEF Deep
  <2>4. RowsMatch'
    <3>1. ASSUME NEW b \in Attempts PROVE OfItsArguments(loop[b])'
      <4>1. CASE b = a
        BY <4>1, <1>6 DEF OfItsArguments
      <4>2. CASE b # a
        <5> DEFINE d == Head(loop[b].state.pending)
        <5>1. OfItsArguments(loop[b]) /\ loop'[b] = loop[b]
          BY <1>6, <2>1, <4>2 DEF Deep, RowsMatch
        <5>2. CASE loop[b].at \notin {"record", "invoke", "answered"}
          BY <5>1, <5>2 DEF OfItsArguments
        <5>3. CASE loop[b].at \in {"record", "invoke", "answered"}
          <6>1. d \in Calls /\ Id[d] \in Keys
            BY <1>1, <5>3, CallTyped DEF Base, ToolStages
          <6>2. CASE Id[d] = k
            <7>1. journal'[Id[d]].fingerprint = journal[Id[d]].fingerprint /\ journal[Id[d]] # None
              BY <1>2, <1>3, <1>5, <6>2
            <7> QED BY <5>1, <5>3, <7>1 DEF OfItsArguments
          <6>3. CASE Id[d] # k
            BY <1>5, <5>1, <6>1, <6>3 DEF OfItsArguments
          <6> QED BY <6>2, <6>3
        <5> QED BY <5>2, <5>3
      <4> QED BY <4>1, <4>2
    <3> QED BY <3>1 DEF RowsMatch
  <2>5. Sound'
    <3>1. \A b \in Attempts : ResultsOK(loop'[b].state)
      BY <1>6, <1>10, <2>1 DEF Deep, Sound
    <3>2. ASSUME NEW d \in Calls, ~IsAmbiguous(d), journal'[Id[d]] # None,
                 journal'[Id[d]].status = "COMMITTED",
                 journal'[Id[d]].fingerprint = Fingerprint[d],
                 HasResult(journal'[Id[d]])
          PROVE  IsResultOf(journal'[Id[d]].result, d)
      <4>1. CASE Id[d] = k
        <5>1. row.status = "COMMITTED" /\ journal[k].fingerprint = Fingerprint[d]
              /\ journal'[Id[d]].result = a
          BY <1>2, <1>5, <3>2, <4>1
        <5>2. IdempotencyClass[d] = IdempotencyClass[c]
          BY <4>1
        <5>3. Fingerprint[c] = Fingerprint[d]
          <6>3. CASE loop[a].afterNull
            <7>2. AnswerOK(a, loop[a])
              BY <1>1 DEF Base, AnswersOK
            <7>3. PICK e \in effects : e.call = c /\ e.afterNull
              BY <1>2, <6>3, <7>2, Zenon DEF AnswerOK
            <7>1. \E f \in effects : Id[f.call] = Id[d] /\ f.afterNull
              BY <4>1, <7>3, Zenon
            <7> QED BY <3>2, <4>1, <7>1 DEF IsAmbiguous
          <6>1. CASE IsWrite(d) /\ ~loop[a].afterNull
            <7>1. IsWrite(c)
              BY <5>2, <6>1 DEF IsWrite
            <7>2. OfItsArguments(loop[a])
              BY <2>1 DEF Deep, RowsMatch
            <7> QED BY <1>2, <1>3, <5>1, <6>1, <7>1, <7>2 DEF OfItsArguments
          <6>2. CASE ~IsWrite(d)
            BY <3>2, <4>1, <6>2 DEF IsAmbiguous
          <6> QED BY <6>1, <6>2, <6>3
        <5>4. \E e \in effects : e.attempt = a /\ e.call = c
          BY <1>1, <1>2 DEF Base, AnswersOK, AnswerOK
        <5> QED BY <5>1, <5>3, <5>4 DEF IsResultOf
      <4>2. CASE Id[d] # k
        <5>1. Id[d] \in Keys
          BY DEF Keys
        <5> QED BY <1>5, <2>1, <3>2, <4>2, <5>1 DEF Deep, Sound
      <4> QED BY <4>1, <4>2
    <3> QED BY <2>1, <3>1, <3>2 DEF Deep, Sound, ResultsOK, IsResultOf, IsAmbiguous
  <2>6. Checkpointed'
    BY <2>1 DEF Deep, Checkpointed
  <2> QED BY <1>7, <1>8, <2>2, <2>3, <2>4, <2>5, <2>6 DEF IInv, Deep
<1> QED BY <1>9, <1>10

LEMMA SettleInv ==
  ASSUME IInv, NEW a \in Attempts, NEW answer \in Answers, SettleOperation(a, answer)
  PROVE  IInv'
<1>1. /\ TypeOK /\ Base /\ (staleInsert \/ Deep)
      /\ loop[a].at = "answered" /\ loop[a].at \in ToolStages
  BY DEF IInv, SettleOperation, ToolStages
<1>2. Call(a) \in Calls /\ Id[Call(a)] \in Keys /\ Call(a) = Head(loop[a].state.pending)
  BY <1>1, CallTyped DEF Base
<1>3. PICK c \in Calls : c = Call(a)
  BY <1>2
<1>4. Row(a) # None /\ HasRow(c) /\ Row(a) = journal[Id[c]]
  BY <1>1, <1>2, <1>3 DEF Base, RowsThere, LoopHasRows, HasRow, Row
<1>5. Row(a) \in Rows /\ Row(a).class = IdempotencyClass[c]
  BY <1>1, <1>3, <1>4, WriteRow
<1>6. journal \in [Keys -> Rows \cup {None}]
  BY <1>1 DEF TypeOK
<1>7. UNCHANGED <<runStatus, attempt, checkpoint, issued, effects, staleInsert>>
  BY DEF SettleOperation
<1>8. CASE answer \in {"output", "null"}
  <2> DEFINE result == IF answer = "null" THEN 0 ELSE a
  <2>1. [Row(a) EXCEPT !.status = "COMMITTED", !.result = result] \in Rows
    BY <1>5 DEF Rows, Statuses
  <2>2. PICK row \in Rows : row = [Row(a) EXCEPT !.status = "COMMITTED", !.result = result]
    BY <2>1
  <2>3. /\ row.status = "COMMITTED" /\ (HasResult(row) => row.result = a)
        /\ row.class = Row(a).class /\ row.fingerprint = Row(a).fingerprint
    BY <1>5, <2>2 DEF Rows, HasResult
  <2>4. journal' = [journal EXCEPT ![Id[c]] = row]
    BY <1>2, <1>3, <1>4, <1>6, <1>8, <2>2 DEF SettleOperation
  <2>5. AfterCall(a, a)
    BY <1>8 DEF SettleOperation
  <2>6. PICK r \in LoopRecs : r = AfterRec(a, a)
    BY <1>1, <2>5, AfterCallTyped DEF Base
  <2>7. loop' = [loop EXCEPT ![a] = r] /\ PendingOK(r)
    BY <1>1, <2>5, <2>6, AfterCallTyped DEF Base
  <2>8. LoopHasRows(r) /\ r.at \in {"find", "fence", "failed"}
    <3>1. LoopHasRows(r)
      BY <1>1, <1>3, <1>4, <2>6, AfterCallBase
    <3> QED BY <2>6, <3>1 DEF AfterRec
  <2>9. IsResultOf(a, Call(a))
    BY <1>1, <1>2 DEF Base, AnswersOK, AnswerOK, IsResultOf
  <2>10. staleInsert \/ ResultsOK(r.state)
    BY <1>1, <2>6, <2>9, AfterCallResults DEF Deep
  <2>11. staleInsert \/
           /\ AtTool(r) => checkpoint # None /\ Known(r.state) \subseteq Known(checkpoint)
           /\ LiveAs(a, r) /\ a = attempt /\ checkpoint # None =>
                Known(checkpoint) \subseteq Known(r.state)
           /\ LiveAs(a, r) =>
                /\ checkpoint # None => Agree(r.state, checkpoint)
                /\ \A b \in Attempts \ {a} : Live(b) => Agree(r.state, loop[b].state)
    BY <1>1, <2>6, AfterCallDeep DEF Deep
  <2> QED BY <1>1, <1>3, <1>7, <2>3, <2>4, <2>7, <2>8, <2>10, <2>11, SettleStep
<1>9. CASE answer \notin {"output", "null"}
  <2> DEFINE s == JournalFailureDisposition(IdempotencyClass[c], answer)
  <2>1. /\ s \in {"FAILED", "UNCERTAIN"}
        /\ s = "FAILED" => IdempotencyClass[c] \in {"PURE", "READ_ONLY"}
    BY DEF JournalFailureDisposition
  <2> HIDE DEF s
  <2>2. [Row(a) EXCEPT !.status = s] \in Rows
    BY <1>5, <2>1 DEF Rows, Statuses
  <2>3. PICK row \in Rows : row = [Row(a) EXCEPT !.status = s]
    BY <2>2
  <2>4. /\ row.status = s
        /\ row.class = Row(a).class /\ row.fingerprint = Row(a).fingerprint
    BY <1>5, <2>3 DEF Rows
  <2>5. journal' = [journal EXCEPT ![Id[c]] = row]
    BY <1>2, <1>3, <1>4, <1>6, <1>9, <2>3 DEF SettleOperation, s
  <2>6. [Idle EXCEPT !.at = "failed"] \in LoopRecs
    BY IdleTyped DEF LoopRecs, Stages
  <2>7. PICK r \in LoopRecs : r = [Idle EXCEPT !.at = "failed"]
    BY <2>6
  <2>8. r.at = "failed" /\ r.state = NewState
    BY <2>7 DEF Idle
  <2>9. loop' = [loop EXCEPT ![a] = r]
    BY <1>9, <2>7 DEF SettleOperation, Fail
  <2>10. Answered(r.state) = {}
    BY <2>8 DEF Answered, NewState
  <2>11. PendingOK(r) /\ LoopHasRows(r) /\ ~AtTool(r) /\ ~LiveAs(a, r) /\ ResultsOK(r.state)
    BY <2>8, <2>10 DEF PendingOK, LoopHasRows, AtTool, LiveAs, ToolStages, ResultsOK
  <2> QED BY <1>1, <1>3, <1>5, <1>7, <2>1, <2>4, <2>5, <2>8, <2>9, <2>11, SettleStep
<1> QED BY <1>8, <1>9

(* A step of the Run's row that changes no loop. *)
LEMMA RowStep ==
  ASSUME IInv, UNCHANGED <<journal, checkpoint, loop, issued, effects, staleInsert>>,
         runStatus' \in RunStatuses, attempt' \in Attempts,
         \/ attempt' = attempt /\ runStatus' # "QUEUED"
         \/ attempt' = attempt + 1
  PROVE  IInv'
<1>1. /\ TypeOK /\ Base /\ (staleInsert \/ Deep) /\ attempt \in Nat
  BY DEF IInv, TypeOK, Attempts
<1>2. TypeOK'
  BY <1>1 DEF TypeOK, RunStatuses
<1>3. Future'
  BY <1>1 DEF Base, Future, Attempts
<1>4. attempt' # attempt => loop[attempt'].at = "idle"
  BY <1>1 DEF Base, Future, Attempts, Idle
<1>5. Fresh'
  BY <1>1, <1>4 DEF Base, Fresh, WriteIsFresh
<1>6. Base'
  BY <1>1, <1>3, <1>5 DEF Base, Pendings, RowsOK, RowOK, RowsThere, LoopHasRows, HasRow,
                          AnswersOK, AnswerOK, OwnedWritesAtMostOnce
<1>7. \A a \in Attempts : Live(a)' => Live(a)
  BY <1>1, <1>4 DEF Live, LiveAs, AtTool
<1>8. CASE staleInsert
  BY <1>2, <1>6, <1>8 DEF IInv
<1>9. CASE ~staleInsert
  <2>1. Deep
    BY <1>1, <1>9
  <2>2. KnownOK'
    <3>1. Live(attempt)' => attempt' = attempt \/ AtTool(loop[attempt'])
      BY <1>4 DEF Live, LiveAs, AtTool
    <3>2. ~AtTool(loop[attempt']) \/ attempt' = attempt
      BY <1>4 DEF AtTool, ToolStages
    <3>3. Live(attempt)' => attempt' = attempt /\ Live(attempt)
      BY <3>1, <3>2 DEF Live, LiveAs, AtTool
    <3> QED BY <2>1, <3>3 DEF Deep, KnownOK, AtTool, Known, CallsIn
  <2>3. Agreement'
    BY <1>7, <2>1 DEF Deep, Agreement
  <2>4. RowsMatch' /\ Sound' /\ Checkpointed'
    BY <2>1 DEF Deep, RowsMatch, OfItsArguments, Sound, ResultsOK, IsResultOf, IsAmbiguous,
                Checkpointed
  <2> QED BY <1>2, <1>6, <2>2, <2>3, <2>4 DEF IInv, Deep
<1> QED BY <1>8, <1>9

LEMMA AcquireInv ==
  ASSUME IInv, AcquireLease
  PROVE  IInv'
<1> DEFINE a == attempt
<1>1. /\ TypeOK /\ Base /\ (staleInsert \/ Deep) /\ a \in Attempts
      /\ loop[a] = Idle /\ loop[a] \in LoopRecs
  BY LoopTyped DEF IInv, TypeOK, Base, Future, AcquireLease
<1>2. [Idle EXCEPT !.at = "restore"] \in LoopRecs
  BY IdleTyped DEF LoopRecs, Stages
<1>3. PICK r \in LoopRecs : r = [Idle EXCEPT !.at = "restore"]
  BY <1>2
<1>4. r.at = "restore" /\ r.state = NewState
  BY <1>3 DEF Idle
<1>5. loop' = [loop EXCEPT ![a] = r]
  BY <1>1, <1>3 DEF AcquireLease, Goto, TypeOK
<1>6. /\ loop'[a] = r
      /\ \A b \in Attempts \ {a} : loop'[b] = loop[b]
      /\ loop' \in [Attempts -> LoopRecs]
  BY <1>1, <1>5, OneLoop
<1>7. UNCHANGED <<attempt, journal, checkpoint, issued, effects, staleInsert>> /\ runStatus' = "RUNNING"
  BY DEF AcquireLease
<1>8. TypeOK'
  BY <1>1, <1>6, <1>7 DEF TypeOK, LoopRecs
<1>9. Answered(r.state) = {}
  BY <1>4 DEF Answered, NewState
<1>10. PendingOK(r) /\ LoopHasRows(r) /\ ~AtTool(r) /\ ~LiveAs(a, r) /\ ResultsOK(r.state)
       /\ OfItsArguments(r) /\ WriteIsFresh(r) /\ AnswerOK(a, r)
  BY <1>4, <1>9 DEF PendingOK, LoopHasRows, AtTool, LiveAs, ToolStages, ResultsOK,
                    OfItsArguments, WriteIsFresh, AnswerOK
<1>11. Future'
  BY <1>1, <1>6, <1>7 DEF Base, Future, Attempts
<1>12. Pendings'
  BY <1>1, <1>6, <1>10 DEF Base, Pendings
<1>13. RowsThere'
  <2>1. \A b \in Attempts : LoopHasRows(loop'[b])
    BY <1>1, <1>6, <1>10 DEF Base, RowsThere
  <2> QED BY <1>1, <1>7, <2>1 DEF Base, RowsThere, LoopHasRows, HasRow
<1>14. Fresh'
  BY <1>4, <1>6, <1>7 DEF Fresh, WriteIsFresh
<1>15. AnswersOK'
  <2>1. \A b \in Attempts : AnswerOK(b, loop'[b])
    BY <1>1, <1>6, <1>10 DEF Base, AnswersOK
  <2> QED BY <1>7, <2>1 DEF AnswersOK, AnswerOK
<1>16. Base'
  BY <1>1, <1>7, <1>11, <1>12, <1>13, <1>14, <1>15 DEF Base, RowsOK, RowOK, OwnedWritesAtMostOnce
<1>17. CASE staleInsert
  BY <1>7, <1>8, <1>16, <1>17 DEF IInv
<1>18. CASE ~staleInsert
  <2>1. Deep
    BY <1>1, <1>18
  <2>2. KnownOK' /\ Agreement'
    BY <1>1, <1>5, <1>7, <1>10, <2>1, KnownStep, AgreementStep DEF Deep
  <2>3. RowsMatch'
    <3>1. \A b \in Attempts : OfItsArguments(loop'[b])
      BY <1>6, <1>10, <2>1 DEF Deep, RowsMatch
    <3> QED BY <1>7, <3>1 DEF RowsMatch, OfItsArguments
  <2>4. Sound'
    <3>1. \A b \in Attempts : ResultsOK(loop'[b].state)
      BY <1>6, <1>10, <2>1 DEF Deep, Sound
    <3> QED BY <1>7, <2>1, <3>1 DEF Deep, Sound, ResultsOK, IsResultOf, IsAmbiguous
  <2>5. Checkpointed'
    BY <1>7, <2>1 DEF Deep, Checkpointed
  <2> QED BY <1>8, <1>16, <2>2, <2>3, <2>4, <2>5 DEF IInv, Deep
<1> QED BY <1>17, <1>18

LEMMA TickerInv ==
  ASSUME IInv, FailExpiredLease \/ RecoverInterruptedRun
  PROVE  IInv'
<1>1. attempt \in Attempts /\ attempt \in Nat
  BY DEF IInv, TypeOK, Attempts
<1>2. CASE FailExpiredLease
  BY <1>1, <1>2, RowStep DEF FailExpiredLease, RunStatuses
<1>3. CASE RecoverInterruptedRun
  <2>1. CASE attempt' = attempt /\ runStatus' = "BLOCKED"
    BY <1>1, <1>3, <2>1, RowStep DEF RecoverInterruptedRun, RunStatuses
  <2>2. CASE attempt' = attempt + 1 /\ runStatus' = "QUEUED" /\ attempt < MaxAttempts
    <3>1. attempt' \in Attempts
      BY <1>1, <2>2 DEF Attempts
    <3> QED BY <1>1, <1>3, <2>2, <3>1, RowStep DEF RecoverInterruptedRun, RunStatuses
  <2> QED BY <1>3, <2>1, <2>2 DEF RecoverInterruptedRun
<1> QED BY <1>2, <1>3

LEMMA InitInv == Init => IInv
<1> SUFFICES ASSUME Init PROVE IInv
  OBVIOUS
<1>1. 1 \in Attempts
  BY DEF Attempts
<1>2. TypeOK
  <2>1. staleInsert \in BOOLEAN
    BY DEF Init
  <2>2. journal \in [Keys -> Rows \cup {None}]
    BY DEF Init
  <2>3. loop \in [Attempts -> LoopRecs]
    BY IdleTyped DEF Init
  <2> QED BY <1>1, <2>1, <2>2, <2>3 DEF Init, TypeOK, LoopRecs
<1>3. \A a \in Attempts : loop[a] = Idle
  BY DEF Init
<1>4. Idle.at = "idle" /\ Idle.state = NewState
  BY DEF Idle
<1>5. Answered(NewState) = {}
  BY DEF Answered, NewState
<1>6. \A a \in Attempts :
        /\ PendingOK(loop[a]) /\ LoopHasRows(loop[a]) /\ WriteIsFresh(loop[a])
        /\ AnswerOK(a, loop[a]) /\ ~Live(a) /\ ~AtTool(loop[a])
        /\ OfItsArguments(loop[a]) /\ ResultsOK(loop[a].state)
  BY <1>3, <1>4, <1>5 DEF PendingOK, LoopHasRows, WriteIsFresh, AnswerOK, Live, LiveAs, AtTool,
                          ToolStages, OfItsArguments, ResultsOK
<1>7. Base
  <2>1. RowsOK
    BY DEF Init, RowsOK
  <2> QED BY <1>1, <1>3, <1>6, <2>1 DEF Init, Base, Future, Pendings, RowsThere, Fresh, AnswersOK,
                                 OwnedWritesAtMostOnce
<1>8. Deep
  <2>1. \A c \in Calls : journal[Id[c]] = None
    BY DEF Init, Keys
  <2> QED BY <1>1, <1>6, <2>1 DEF Init, Deep, KnownOK, Agreement, RowsMatch, Sound, Checkpointed
<1> QED BY <1>2, <1>7, <1>8 DEF IInv

LEMMA NextInv == IInv /\ [Next]_vars => IInv'
<1> SUFFICES ASSUME IInv, [Next]_vars PROVE IInv'
  OBVIOUS
<1>1. CASE AcquireLease
  BY <1>1, AcquireInv
<1>2. ASSUME NEW a \in Attempts, Step(a) PROVE IInv'
  BY <1>2, RestoreInv, FenceInv, InsertInv, GiveUpInv, ModelInv, FindInv, RecordInv,
     InsertRowInv, InvokeInv, SettleInv DEF Step
<1>3. CASE FailExpiredLease \/ RecoverInterruptedRun
  BY <1>3, TickerInv
<1>4. CASE UNCHANGED vars
  <2>1. attempt \in Attempts /\ runStatus \in RunStatuses
    BY DEF IInv, TypeOK, RunStatuses
  <2>2. TypeOK'
    BY <1>4 DEF IInv, TypeOK, vars
  <2>3. Base'
    BY <1>4 DEF IInv, Base, Future, Pendings, RowsOK, RowOK, RowsThere, LoopHasRows, HasRow,
                Fresh, WriteIsFresh, AnswersOK, AnswerOK, OwnedWritesAtMostOnce, vars
  <2>4. staleInsert' \/ Deep'
    <3>1. CASE staleInsert
      BY <1>4, <3>1 DEF vars
    <3>2. CASE ~staleInsert
      <4>1. Deep
        BY <3>2 DEF IInv
      <4>2. KnownOK' /\ Agreement'
        BY <1>4, <4>1 DEF Deep, KnownOK, Agreement, Live, LiveAs, AtTool, vars
      <4>3. RowsMatch' /\ Sound' /\ Checkpointed'
        BY <1>4, <4>1 DEF Deep, RowsMatch, OfItsArguments, Sound, ResultsOK, IsResultOf,
                          IsAmbiguous, Checkpointed, vars
      <4> QED BY <4>2, <4>3 DEF Deep
    <3> QED BY <3>1, <3>2
  <2> QED BY <2>2, <2>3, <2>4 DEF IInv
<1> QED BY <1>1, <1>2, <1>3, <1>4 DEF Next

(* The state of a Run's execution is always of its type, whatever          *)
(* attempts do beside each other.                                          *)
THEOREM OperationsTyped == Spec => []TypeOK
<1>1. IInv => TypeOK
  BY DEF IInv
<1> QED BY <1>1, InitInv, NextInv, PTL DEF Spec

(* The journal keeps the attempts that hold the Run from repeating a write *)
(* (executeToolBatch in the declarative run loop).                         *)
THEOREM OwnedWritesNeverRepeat == Spec => []OwnedWritesAtMostOnce
<1>1. IInv => OwnedWritesAtMostOnce
  BY DEF IInv, Base
<1> QED BY <1>1, InitInv, NextInv, PTL DEF Spec

(* The latest checkpoint holds every call that an attempt invoked while it *)
(* held the Run, unless an interrupted attempt has inserted a checkpoint.  *)
THEOREM EffectsStayCheckpointed == Spec => []EffectsAreCheckpointed
<1>1. IInv => EffectsAreCheckpointed
  BY DEF IInv, Deep, Checkpointed, EffectsAreCheckpointed
<1> QED BY <1>1, InitInv, NextInv, PTL DEF Spec

(* A result in a conversation was returned by an invocation of the same    *)
(* tool with the same arguments, with the exceptions that the property     *)
(* names.                                                                  *)
THEOREM ResultsStayOfTheirCalls == Spec => []ResultsAreOfTheirCalls
<1>1. IInv => ResultsAreOfTheirCalls
  BY DEF IInv, Deep, Sound, ResultsOK, IsResultOf, Answered, ResultsAreOfTheirCalls
<1> QED BY <1>1, InitInv, NextInv, PTL DEF Spec
=============================================================================
