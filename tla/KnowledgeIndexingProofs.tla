----------------------- MODULE KnowledgeIndexingProofs ----------------------
(* Proofs about KnowledgeIndexing for every document, every number of      *)
(* deliveries and retries and every number of faults.                      *)
EXTENDS KnowledgeIndexing, FiniteSetTheorems, WellFoundedInduction, TLAPS

USE KnowledgeAssumption

(* The next ordinal is one of those ahead: a set of numbers has a least.   *)
LEMMA NextOrdinalAhead ==
  ASSUME TypeOK, NEW d \in Deliveries, handler[d].todo # {}
  PROVE  NextOrdinal(d) \in handler[d].todo /\ NextOrdinal(d) \in Ordinals
<1> DEFINE T == handler[d].todo
<1>1. T \subseteq Ordinals /\ T \subseteq Nat
  BY DEF TypeOK
<1>2. \E n \in T : \A k \in T : ~(<<k, n>> \in OpToRel(<, Nat))
  <2> HIDE DEF T
  <2> QED BY <1>1, WFMin, NatLessThanWellFounded, handler[d].todo # {} DEF T
<1>3. \E n \in T : \A k \in T : n <= k
  <2>1. PICK n \in T : \A k \in T : ~(<<k, n>> \in OpToRel(<, Nat))
    BY <1>2
  <2>2. ASSUME NEW k \in T PROVE n <= k
    <3>1. k \in Nat /\ n \in Nat
      BY <1>1
    <3>2. ~(k < n)
      BY <2>1, <3>1 DEF OpToRel
    <3> QED BY <3>1, <3>2
  <2> QED BY <2>2
<1> QED BY <1>1, <1>3 DEF NextOrdinal

-----------------------------------------------------------------------------
(* What a handler relies on at each stage.  Chunks and vectors are never   *)
(* taken away, so what it has found or stored is still there, whoever else *)
(* is at work; and the copy of the row it will write back is RUNNING.      *)
HandlerOK(d) ==
  /\ handler[d].at \in Working => handler[d].row.status = "RUNNING"
  /\ handler[d].at \in {"extract", "chunk", "save"} => Ordinals \ handler[d].todo \subseteq chunks
  /\ handler[d].at = "save" => handler[d].todo # {}
  /\ handler[d].at \in {"list", "embed", "count", "ready"} => chunks = Ordinals
  /\ handler[d].at = "embed" => Ordinals \ handler[d].todo \subseteq vectors
  /\ handler[d].at \in {"count", "ready"} => vectors = Ordinals

IInv ==
  /\ TypeOK
  /\ \A d \in Deliveries : HandlerOK(d)
  /\ ReadyIsComplete

(* The part of TypeOK that steps of handlers can disturb. *)
Recs == [at : Stages, row : Rows, todo : SUBSET Ordinals, listed : SUBSET Ordinals]

LEMMA InitIInv == Init => IInv
<1> SUFFICES ASSUME Init PROVE IInv
  OBVIOUS
<1>1. NoRow \in Rows
  BY DEF NoRow, Rows
<1>2. TypeOK
  BY <1>1 DEF Init, TypeOK, Stages, Working
<1> QED BY <1>2 DEF Init, IInv, HandlerOK, ReadyIsComplete, Working, NoRow

(* A handler that does not move goes on relying on what it did. *)
LEMMA HandlerStable ==
  ASSUME NEW d \in Deliveries, HandlerOK(d), handler'[d] = handler[d],
         chunks \subseteq chunks', vectors \subseteq vectors',
         chunks' \subseteq Ordinals, vectors' \subseteq Ordinals
  PROVE  HandlerOK(d)'
BY DEF HandlerOK

(* A step of one handler that keeps the queue and the callers as they are. *)
LEMMA HandlerStep ==
  ASSUME IInv, NEW d \in Deliveries, NEW r,
         handler' = [handler EXCEPT ![d] = r], r \in Recs,
         index' \in Rows, UNCHANGED rest,
         chunks \subseteq chunks', vectors \subseteq vectors',
         chunks' \subseteq Ordinals, vectors' \subseteq chunks',
         HandlerOK(d)', ReadyIsComplete'
  PROVE  IInv'
<1>1. handler' \in [Deliveries -> Recs]
  BY DEF IInv, TypeOK, Recs
<1>2. TypeOK'
  BY <1>1 DEF IInv, TypeOK, Recs, rest
<1>3. ASSUME NEW e \in Deliveries PROVE HandlerOK(e)'
  <2>1. CASE e = d
    BY <2>1
  <2>2. CASE e # d
    <3>1. handler'[e] = handler[e]
      BY <2>2 DEF IInv, TypeOK
    <3>2. HandlerOK(e) /\ vectors' \subseteq Ordinals
      BY DEF IInv
    <3> QED BY <3>1, <3>2, HandlerStable
  <2> QED BY <2>1, <2>2
<1> QED BY <1>2, <1>3 DEF IInv

(* A step that leaves the handlers and what they have stored alone. *)
LEMMA OtherStep ==
  ASSUME IInv, UNCHANGED <<handler, chunks, vectors>>, TypeOK', ReadyIsComplete'
  PROVE  IInv'
<1>1. ASSUME NEW e \in Deliveries PROVE HandlerOK(e)'
  <2>1. HandlerOK(e) /\ chunks' \subseteq Ordinals /\ vectors' \subseteq Ordinals
    BY DEF IInv, TypeOK
  <2> QED BY <2>1, HandlerStable
<1> QED BY <1>1 DEF IInv

(* The record of a handler before the step. *)
LEMMA RecTyped ==
  ASSUME IInv, NEW d \in Deliveries
  PROVE  /\ handler[d] \in Recs
         /\ HandlerOK(d)
         /\ handler[d].row \in Rows
         /\ index \in Rows
         /\ chunks \subseteq Ordinals /\ vectors \subseteq chunks
BY DEF IInv, TypeOK, Recs
(* A handler goes to another stage. *)
LEMMA GoRec ==
  ASSUME IInv, NEW d \in Deliveries, NEW at \in Stages, Go(d, at)
  PROVE  /\ handler' = [handler EXCEPT ![d] = [handler[d] EXCEPT !.at = at]]
         /\ [handler[d] EXCEPT !.at = at] \in Recs
         /\ handler'[d] = [handler[d] EXCEPT !.at = at]
         /\ handler'[d].at = at /\ handler'[d].row = handler[d].row
         /\ handler'[d].todo = handler[d].todo /\ handler'[d].listed = handler[d].listed
BY RecTyped DEF Go, IInv, TypeOK, Recs

(* Going to a stage that relies on nothing, with the rows as they were. *)
Resting == {"find", "claim", "failed", "settle", "done"}

LEMMA GoResting ==
  ASSUME IInv, NEW d \in Deliveries, NEW at \in Resting, Go(d, at),
         UNCHANGED <<chunks, vectors, rest>>, index' \in Rows, ReadyIsComplete'
  PROVE  IInv'
<1>1. at \in Stages /\ at \notin Working
  BY DEF Resting, Stages, Working
<1>2. HandlerOK(d)'
  BY <1>1, GoRec DEF HandlerOK, Resting, Working
<1> DEFINE r == [handler[d] EXCEPT !.at = at]
<1>3. r \in Recs /\ handler' = [handler EXCEPT ![d] = r]
  BY <1>1, GoRec
<1>4. chunks \subseteq chunks' /\ vectors \subseteq vectors' /\ chunks' \subseteq Ordinals
      /\ vectors' \subseteq chunks' /\ UNCHANGED rest
  BY RecTyped
<1> HIDE DEF r
<1> QED BY <1>2, <1>3, <1>4, HandlerStep

LEMMA SameRow ==
  ASSUME IInv, UNCHANGED <<index, chunks, vectors>>
  PROVE  ReadyIsComplete' /\ index' \in Rows
BY DEF IInv, TypeOK, ReadyIsComplete

LEMMA FindIndexInv ==
  ASSUME IInv, NEW d \in Deliveries, FindIndex(d)
  PROVE  IInv'
<1>1. (IF index.status = "READY" THEN "settle" ELSE "claim") \in Resting
  BY DEF Resting
<1> QED BY <1>1, SameRow, GoResting DEF FindIndex

LEMMA ClaimInv ==
  ASSUME IInv, NEW d \in Deliveries, ClaimIndexLease(d)
  PROVE  IInv'
<1>1. CASE ~MayClaim
  BY <1>1, SameRow, GoResting DEF ClaimIndexLease, Resting
<1>2. CASE MayClaim
  <2> DEFINE claimed == [index EXCEPT !.status = "RUNNING", !.token = d]
             r == [at |-> StageOfClaim(claimed), row |-> claimed, todo |-> Ordinals,
                   listed |-> {}]
  <2>1. claimed \in Rows /\ claimed.status = "RUNNING"
    BY DEF IInv, TypeOK, Rows
  <2>2. StageOfClaim(claimed) \in {"chunk", "extract"}
    BY DEF StageOfClaim
  <2>3. index' = claimed /\ handler' = [handler EXCEPT ![d] = r]
        /\ UNCHANGED <<chunks, vectors, rest>>
    BY <1>2 DEF ClaimIndexLease
  <2> HIDE DEF claimed
  <2>4. r \in Recs
    BY <2>1, <2>2 DEF Recs, Stages, Working
  <2>5. handler'[d] = r
    BY <2>3 DEF IInv, TypeOK
  <2>6. HandlerOK(d)'
    BY <2>1, <2>2, <2>5 DEF HandlerOK
  <2>7. ReadyIsComplete'
    BY <2>1, <2>3 DEF ReadyIsComplete
  <2> HIDE DEF r
  <2> QED BY <2>1, <2>3, <2>4, <2>6, <2>7, RecTyped, HandlerStep
<1> QED BY <1>1, <1>2

LEMMA ExtractInv ==
  ASSUME IInv, NEW d \in Deliveries, Extract(d)
  PROVE  IInv'
<1> DEFINE current == [handler[d].row EXCEPT !.extracted = TRUE]
           r == [handler[d] EXCEPT !.at = "chunk", !.row = current]
<1>1. current \in Rows /\ current.status = "RUNNING"
  BY RecTyped DEF HandlerOK, Rows, Extract, Working
<1>2. handler' = [handler EXCEPT ![d] = r] /\ index' = current
      /\ UNCHANGED <<chunks, vectors, rest>>
  BY DEF Extract, IInv, TypeOK
<1> HIDE DEF current
<1>3. r \in Recs /\ r.at = "chunk" /\ r.row = current /\ r.todo = handler[d].todo
  BY <1>1, RecTyped DEF Recs, Stages, Working
<1>4. handler'[d] = r
  BY <1>2 DEF IInv, TypeOK
<1>5. Ordinals \ handler[d].todo \subseteq chunks
  BY RecTyped DEF HandlerOK, Extract
<1>6. HandlerOK(d)' /\ ReadyIsComplete'
  BY <1>1, <1>2, <1>3, <1>4, <1>5 DEF HandlerOK, ReadyIsComplete
<1> HIDE DEF r
<1> QED BY <1>1, <1>2, <1>3, <1>6, RecTyped, HandlerStep

LEMMA FindChunkInv ==
  ASSUME IInv, NEW d \in Deliveries, FindChunk(d)
  PROVE  IInv'
<1>0. Ordinals \ handler[d].todo \subseteq chunks /\ handler[d].row.status = "RUNNING"
  BY RecTyped DEF FindChunk, HandlerOK, Working
<1>1. CASE handler[d].todo = {} \/ NextOrdinal(d) \notin chunks
  <2>1. PICK at \in {"list", "save"} :
          /\ Go(d, at)
          /\ at = "list" => handler[d].todo = {}
          /\ at = "save" => handler[d].todo # {}
    BY <1>1 DEF FindChunk
  <2> DEFINE r == [handler[d] EXCEPT !.at = at]
  <2>2. at \in Stages
    BY DEF Stages, Working
  <2>3. r \in Recs /\ handler' = [handler EXCEPT ![d] = r] /\ UNCHANGED <<chunks, vectors, rest>>
    BY <2>1, <2>2, GoRec DEF FindChunk
  <2>4. at = "list" => chunks = Ordinals
    BY <1>0, <2>1, RecTyped
  <2>5. HandlerOK(d)'
    BY <1>0, <2>1, <2>2, <2>3, <2>4, GoRec DEF HandlerOK
  <2> HIDE DEF r
  <2> QED BY <2>3, <2>5, RecTyped, SameRow, HandlerStep DEF FindChunk
<1>2. CASE handler[d].todo # {} /\ NextOrdinal(d) \in chunks
  <2> DEFINE r == [handler[d] EXCEPT !.todo = handler[d].todo \ {NextOrdinal(d)}]
  <2>1. handler' = [handler EXCEPT ![d] = r] /\ UNCHANGED <<chunks, vectors, rest>>
    BY <1>2, RecTyped DEF FindChunk, IInv, TypeOK
  <2>2. /\ r \in Recs /\ r.at = "chunk" /\ r.row = handler[d].row
        /\ r.todo = handler[d].todo \ {NextOrdinal(d)}
    BY RecTyped DEF Recs, FindChunk
  <2>3. handler'[d] = r
    BY <2>1 DEF IInv, TypeOK
  <2> HIDE DEF r
  <2>4. HandlerOK(d)'
    BY <1>0, <1>2, <2>1, <2>2, <2>3 DEF HandlerOK
  <2> QED BY <2>1, <2>2, <2>4, RecTyped, SameRow, HandlerStep DEF FindChunk
<1> QED BY <1>1, <1>2

LEMMA SaveChunkInv ==
  ASSUME IInv, NEW d \in Deliveries, SaveChunk(d)
  PROVE  IInv'
<1>0. /\ Ordinals \ handler[d].todo \subseteq chunks /\ handler[d].row.status = "RUNNING"
      /\ handler[d].todo # {}
  BY RecTyped DEF SaveChunk, HandlerOK, Working
<1>1. NextOrdinal(d) \in Ordinals
  BY <1>0, NextOrdinalAhead DEF IInv
<1>2. CASE NextOrdinal(d) \in chunks
  BY <1>2, SameRow, GoResting DEF SaveChunk, Resting
<1>3. CASE NextOrdinal(d) \notin chunks
  <2> DEFINE r == [handler[d] EXCEPT !.at = "chunk", !.todo = handler[d].todo \ {NextOrdinal(d)}]
  <2>1. /\ handler' = [handler EXCEPT ![d] = r] /\ UNCHANGED <<index, vectors, rest>>
        /\ chunks' = chunks \cup {NextOrdinal(d)}
    BY <1>3, RecTyped DEF SaveChunk, IInv, TypeOK
  <2>2. /\ r \in Recs /\ r.at = "chunk" /\ r.row = handler[d].row
        /\ r.todo = handler[d].todo \ {NextOrdinal(d)}
    BY RecTyped DEF Recs, Stages, Working
  <2>3. handler'[d] = r
    BY <2>1 DEF IInv, TypeOK
  <2> HIDE DEF r
  <2>4. HandlerOK(d)'
    BY <1>0, <2>1, <2>2, <2>3 DEF HandlerOK
  <2>5. ReadyIsComplete'
    BY <1>1, <2>1 DEF IInv, ReadyIsComplete
  <2>6. chunks' \subseteq Ordinals /\ vectors' \subseteq chunks' /\ index' \in Rows
    BY <1>1, <2>1, RecTyped
  <2> QED BY <2>1, <2>2, <2>4, <2>5, <2>6, HandlerStep
<1> QED BY <1>2, <1>3

LEMMA ListChunksInv ==
  ASSUME IInv, NEW d \in Deliveries, ListChunks(d)
  PROVE  IInv'
<1> DEFINE r == [handler[d] EXCEPT !.at = "embed", !.todo = chunks, !.listed = chunks]
<1>1. handler' = [handler EXCEPT ![d] = r] /\ UNCHANGED <<index, chunks, vectors, rest>>
  BY RecTyped DEF ListChunks, IInv, TypeOK
<1>2. r \in Recs /\ r.at = "embed" /\ r.row = handler[d].row /\ r.todo = chunks
  BY RecTyped DEF Recs, Stages, Working
<1>3. handler'[d] = r
  BY <1>1 DEF IInv, TypeOK
<1> HIDE DEF r
<1>4. chunks = Ordinals /\ handler[d].row.status = "RUNNING"
  BY RecTyped DEF ListChunks, HandlerOK, Working
<1>5. HandlerOK(d)'
  BY <1>1, <1>2, <1>3, <1>4 DEF HandlerOK
<1> QED BY <1>1, <1>2, <1>5, RecTyped, SameRow, HandlerStep

LEMMA UpsertInv ==
  ASSUME IInv, NEW d \in Deliveries, UpsertVector(d)
  PROVE  IInv'
<1>0. /\ chunks = Ordinals /\ handler[d].row.status = "RUNNING"
      /\ Ordinals \ handler[d].todo \subseteq vectors
  BY RecTyped DEF UpsertVector, HandlerOK, Working
<1>1. CASE handler[d].todo = {}
  <2>1. Go(d, "count") /\ UNCHANGED <<index, chunks, vectors, rest>> /\ "count" \in Stages
    BY <1>1 DEF UpsertVector, Stages, Working
  <2> DEFINE r == [handler[d] EXCEPT !.at = "count"]
  <2>2. r \in Recs /\ handler' = [handler EXCEPT ![d] = r]
    BY <2>1, GoRec
  <2>3. vectors = Ordinals
    BY <1>0, <1>1, RecTyped
  <2>4. HandlerOK(d)'
    BY <1>0, <2>1, <2>3, GoRec DEF HandlerOK
  <2> HIDE DEF r
  <2> QED BY <2>1, <2>2, <2>4, RecTyped, SameRow, HandlerStep
<1>2. CASE handler[d].todo # {}
  <2> DEFINE r == [handler[d] EXCEPT !.todo = handler[d].todo \ {NextOrdinal(d)}]
  <2>1. /\ handler' = [handler EXCEPT ![d] = r] /\ UNCHANGED <<index, chunks, rest>>
        /\ vectors' = vectors \cup {NextOrdinal(d)}
    BY <1>2, RecTyped DEF UpsertVector, IInv, TypeOK
  <2>2. /\ r \in Recs /\ r.at = "embed" /\ r.row = handler[d].row
        /\ r.todo = handler[d].todo \ {NextOrdinal(d)}
    BY RecTyped DEF Recs, UpsertVector
  <2>3. handler'[d] = r
    BY <2>1 DEF IInv, TypeOK
  <2> HIDE DEF r
  <2>4. NextOrdinal(d) \in Ordinals
    BY <1>2, NextOrdinalAhead DEF IInv
  <2>5. HandlerOK(d)'
    BY <1>0, <2>1, <2>2, <2>3 DEF HandlerOK
  <2>6. vectors' \subseteq chunks' /\ index' \in Rows /\ chunks' \subseteq Ordinals
    BY <1>0, <2>1, <2>4, RecTyped
  <2>7. ReadyIsComplete'
    BY <1>0, <2>1, <2>4, RecTyped DEF IInv, ReadyIsComplete
  <2> QED BY <2>1, <2>2, <2>5, <2>6, <2>7, HandlerStep
<1> QED BY <1>1, <1>2

LEMMA CountVectorsInv ==
  ASSUME IInv, NEW d \in Deliveries, CountVectors(d)
  PROVE  IInv'
<1>0. chunks = Ordinals /\ vectors = Ordinals /\ handler[d].row.status = "RUNNING"
  BY RecTyped DEF CountVectors, HandlerOK, Working
<1>1. CASE Cardinality(vectors) = Cardinality(handler[d].listed)
  <2>1. Go(d, "ready") /\ UNCHANGED <<index, chunks, vectors, rest>> /\ "ready" \in Stages
    BY <1>1 DEF CountVectors, Stages, Working
  <2> DEFINE r == [handler[d] EXCEPT !.at = "ready"]
  <2>2. r \in Recs /\ handler' = [handler EXCEPT ![d] = r]
    BY <2>1, GoRec
  <2>3. HandlerOK(d)'
    BY <1>0, <2>1, GoRec DEF HandlerOK
  <2> HIDE DEF r
  <2> QED BY <2>1, <2>2, <2>3, RecTyped, SameRow, HandlerStep
<1>2. CASE Cardinality(vectors) # Cardinality(handler[d].listed)
  BY <1>2, SameRow, GoResting DEF CountVectors, Resting
<1> QED BY <1>1, <1>2

LEMMA MarkReadyInv ==
  ASSUME IInv, NEW d \in Deliveries, MarkReady(d)
  PROVE  IInv'
<1>1. chunks = Ordinals /\ vectors = Ordinals
  BY RecTyped DEF MarkReady, HandlerOK
<1>2. index' \in Rows
  BY RecTyped DEF MarkReady, Rows
<1>3. ReadyIsComplete'
  BY <1>1 DEF MarkReady, ReadyIsComplete
<1>4. "settle" \in Resting
  BY DEF Resting
<1> QED BY <1>2, <1>3, <1>4, GoResting DEF MarkReady

LEMMA StepThrowsInv ==
  ASSUME IInv, NEW d \in Deliveries, StepThrows(d)
  PROVE  IInv'
<1>1. "failed" \in Resting
  BY DEF Resting
<1> QED BY <1>1, SameRow, GoResting DEF StepThrows

LEMMA FailureFindInv ==
  ASSUME IInv, NEW d \in Deliveries, FailureFind(d)
  PROVE  IInv'
<1> DEFINE r == [handler[d] EXCEPT !.at = StageOfFailure, !.row = index]
<1>1. StageOfFailure \in {"mark", "settle"}
  BY DEF StageOfFailure
<1>2. handler' = [handler EXCEPT ![d] = r] /\ UNCHANGED <<index, chunks, vectors, rest>>
  BY DEF FailureFind, IInv, TypeOK
<1>3. r \in Recs /\ r.at = StageOfFailure
  BY <1>1, RecTyped DEF Recs, Stages, Working
<1>4. handler'[d] = r
  BY <1>2 DEF IInv, TypeOK
<1> HIDE DEF r
<1>5. HandlerOK(d)'
  BY <1>1, <1>3, <1>4 DEF HandlerOK, Working
<1> QED BY <1>2, <1>3, <1>5, RecTyped, SameRow, HandlerStep

LEMMA MarkFailedInv ==
  ASSUME IInv, NEW d \in Deliveries, MarkFailed(d)
  PROVE  IInv'
<1>1. index' \in Rows
  BY RecTyped DEF MarkFailed, Rows
<1>2. ReadyIsComplete'
  BY RecTyped DEF MarkFailed, ReadyIsComplete, Rows
<1>3. "settle" \in Resting
  BY DEF Resting
<1> QED BY <1>1, <1>2, <1>3, GoResting DEF MarkFailed

-----------------------------------------------------------------------------
(* The queue, the callers and the faults *)

Jobs == [state : {"absent", "waiting", "active", "kept"},
         lock : Deliveries \cup {None}, stalls : 0 .. MaxStalls]

(* A step of a handler and of its job: the handler comes to rely on less. *)
LEMMA GoWithJob ==
  ASSUME IInv, NEW d \in Deliveries, NEW at \in Resting, Go(d, at),
         UNCHANGED <<index, stored, creator, retry>>,
         job' \in Jobs, faults' \in 0 .. MaxFaults
  PROVE  IInv'
<1>1. at \in Stages /\ at \notin Working
  BY DEF Resting, Stages, Working
<1>2. handler' \in [Deliveries -> Recs]
  <2> DEFINE r == [handler[d] EXCEPT !.at = at]
  <2>1. r \in Recs /\ handler' = [handler EXCEPT ![d] = r]
    BY <1>1, GoRec
  <2>2. handler \in [Deliveries -> Recs]
    BY DEF IInv, TypeOK, Recs
  <2> HIDE DEF r
  <2> QED BY <2>1, <2>2
<1>3. TypeOK'
  BY <1>2 DEF IInv, TypeOK, Recs, stored, Jobs
<1>4. ASSUME NEW e \in Deliveries PROVE HandlerOK(e)'
  <2>1. CASE e = d
    BY <1>1, <2>1, GoRec DEF HandlerOK, Resting, Working
  <2>2. CASE e # d
    <3>1. handler'[e] = handler[e]
      BY <2>2 DEF Go, IInv, TypeOK
    <3>2. HandlerOK(e) /\ chunks' \subseteq Ordinals /\ vectors' \subseteq Ordinals
          /\ UNCHANGED <<chunks, vectors>>
      BY DEF IInv, TypeOK, stored
    <3> QED BY <3>1, <3>2, HandlerStable
  <2> QED BY <2>1, <2>2
<1>5. ReadyIsComplete'
  BY DEF IInv, ReadyIsComplete, stored
<1> QED BY <1>3, <1>4, <1>5 DEF IInv

LEMMA AddJobTyped == ASSUME IInv PROVE AddJob \in Jobs
BY DEF AddJob, Jobs, IInv, TypeOK

LEMMA DeliverInv ==
  ASSUME IInv, NEW d \in Deliveries, Deliver(d)
  PROVE  IInv'
<1>1. job' \in Jobs /\ faults' \in 0 .. MaxFaults
  BY DEF Deliver, Jobs, IInv, TypeOK
<1>2. Go(d, "find") /\ "find" \in Resting
  BY DEF Deliver, Go, Resting
<1> QED BY <1>1, <1>2, GoWithJob DEF Deliver

LEMMA SettleInv ==
  ASSUME IInv, NEW d \in Deliveries, Settle(d)
  PROVE  IInv'
<1>1. job' \in Jobs /\ faults' \in 0 .. MaxFaults
  BY DEF Settle, Jobs, IInv, TypeOK
<1>2. Go(d, "done") /\ "done" \in Resting
  BY DEF Settle, Go, Resting
<1> QED BY <1>1, <1>2, GoWithJob DEF Settle

LEMMA FaultTyped == ASSUME IInv, Fault PROVE faults' \in 0 .. MaxFaults
BY DEF Fault, IInv, TypeOK

LEMMA DiesInv ==
  ASSUME IInv, NEW d \in Deliveries, WorkerDies(d) \/ FailureLost(d)
  PROVE  IInv'
<1>1. job' \in Jobs /\ faults' \in 0 .. MaxFaults
  BY FaultTyped DEF WorkerDies, FailureLost, Jobs, IInv, TypeOK
<1>2. "done" \in Resting /\ "settle" \in Resting
  BY DEF Resting
<1>3. CASE WorkerDies(d)
  BY <1>1, <1>2, <1>3, GoWithJob DEF WorkerDies
<1>4. CASE FailureLost(d)
  BY <1>1, <1>2, <1>4, GoWithJob DEF FailureLost
<1> QED BY <1>3, <1>4

LEMMA StallInv ==
  ASSUME IInv, Stall
  PROVE  IInv'
<1>1. job' \in Jobs
  <2>1. CASE MayRedeliver
    BY <2>1 DEF Stall, MayRedeliver, Jobs, IInv, TypeOK
  <2>2. CASE ~MayRedeliver
    BY <2>2 DEF Stall, Jobs, IInv, TypeOK
  <2> QED BY <2>1, <2>2
<1>2. TypeOK' /\ ReadyIsComplete' /\ UNCHANGED <<handler, chunks, vectors>>
  BY <1>1 DEF Stall, stored, Jobs, IInv, TypeOK, ReadyIsComplete
<1> QED BY <1>2, OtherStep

LEMMA LeaseExpiresInv ==
  ASSUME IInv, NEW d \in Deliveries, LeaseExpires(d)
  PROVE  IInv'
<1>1. TypeOK' /\ ReadyIsComplete' /\ UNCHANGED <<handler, chunks, vectors>>
  BY DEF LeaseExpires, IInv, TypeOK, ReadyIsComplete
<1> QED BY <1>1, OtherStep

LEMMA CreatorInv ==
  ASSUME IInv, SaveIndex \/ EnqueueIndex \/ EnqueueLost
  PROVE  IInv'
<1>1. CASE SaveIndex
  <2>1. index' \in Rows /\ index'.status = "PENDING"
    BY <1>1 DEF SaveIndex, NewRow, Rows
  <2>2. TypeOK' /\ ReadyIsComplete' /\ UNCHANGED <<handler, chunks, vectors>>
    BY <1>1, <2>1 DEF SaveIndex, stored, IInv, TypeOK, ReadyIsComplete
  <2> QED BY <2>2, OtherStep
<1>2. CASE EnqueueIndex
  <2>1. TypeOK' /\ ReadyIsComplete' /\ UNCHANGED <<handler, chunks, vectors>>
    BY <1>2, AddJobTyped DEF EnqueueIndex, Jobs, stored, IInv, TypeOK, ReadyIsComplete
  <2> QED BY <2>1, OtherStep
<1>3. CASE EnqueueLost
  <2>1. TypeOK' /\ ReadyIsComplete' /\ UNCHANGED <<handler, chunks, vectors>>
    BY <1>3, FaultTyped DEF EnqueueLost, stored, IInv, TypeOK, ReadyIsComplete
  <2> QED BY <2>1, OtherStep
<1> QED BY <1>1, <1>2, <1>3

LEMMA RetryInv ==
  ASSUME IInv, NEW q \in Retries, Retry(q)
  PROVE  IInv'
<1>1. CASE RetryFind(q)
  <2>1. [at |-> "update", row |-> index]
          \in [at : {"find", "update", "enqueue", "done"}, row : Rows]
    BY DEF IInv, TypeOK
  <2>2. TypeOK' /\ ReadyIsComplete' /\ UNCHANGED <<handler, chunks, vectors>>
    BY <1>1, <2>1 DEF RetryFind, stored, IInv, TypeOK, ReadyIsComplete
  <2> QED BY <2>2, OtherStep
<1>2. CASE RetryUpdate(q)
  <2>1. retry[q].row \in Rows
    BY DEF IInv, TypeOK
  <2>2. index' \in Rows /\ index'.status = "PENDING"
    BY <1>2, <2>1 DEF RetryUpdate, Rows
  <2>3. TypeOK' /\ ReadyIsComplete' /\ UNCHANGED <<handler, chunks, vectors>>
    BY <1>2, <2>2 DEF RetryUpdate, stored, IInv, TypeOK, ReadyIsComplete
  <2> QED BY <2>3, OtherStep
<1>3. CASE RetryEnqueue(q)
  <2>1. TypeOK' /\ ReadyIsComplete' /\ UNCHANGED <<handler, chunks, vectors>>
    BY <1>3, AddJobTyped DEF RetryEnqueue, Jobs, stored, IInv, TypeOK, ReadyIsComplete
  <2> QED BY <2>1, OtherStep
<1> QED BY <1>1, <1>2, <1>3 DEF Retry

-----------------------------------------------------------------------------
LEMMA NextInv == IInv /\ [Next]_vars => IInv'
<1> SUFFICES ASSUME IInv, [Next]_vars PROVE IInv'
  OBVIOUS
<1>1. CASE UNCHANGED vars
  <2>1. TypeOK' /\ ReadyIsComplete' /\ UNCHANGED <<handler, chunks, vectors>>
    BY <1>1 DEF vars, IInv, TypeOK, ReadyIsComplete
  <2> QED BY <2>1, OtherStep
<1>2. ASSUME NEW d \in Deliveries, Ingest(d) PROVE IInv'
  BY <1>2, FindIndexInv, ClaimInv, ExtractInv, FindChunkInv, SaveChunkInv, ListChunksInv,
     UpsertInv, CountVectorsInv, MarkReadyInv, FailureFindInv, MarkFailedInv, SettleInv
     DEF Ingest
<1>3. ASSUME NEW d \in Deliveries,
             Deliver(d) \/ StepThrows(d) \/ LeaseExpires(d) \/ WorkerDies(d) \/ FailureLost(d)
      PROVE  IInv'
  BY <1>3, DeliverInv, StepThrowsInv, LeaseExpiresInv, DiesInv
<1>4. CASE SaveIndex \/ EnqueueIndex \/ EnqueueLost \/ Stall
  BY <1>4, CreatorInv, StallInv
<1>5. ASSUME NEW q \in Retries, Retry(q) PROVE IInv'
  BY <1>5, RetryInv
<1> QED BY <1>1, <1>2, <1>3, <1>4, <1>5 DEF Next

(* The inductive invariant holds of every behaviour of the queue, the      *)
(* knowledge workers and the endpoints.                                    *)
THEOREM IInvHolds == Spec => []IInv
BY InitIInv, NextInv, PTL DEF Spec

(* The index row, the job and every handler keep the shapes that the       *)
(* schema and the code give them.                                          *)
THEOREM TypeOKHolds == Spec => []TypeOK
<1>1. IInv => TypeOK
  BY DEF IInv
<1> QED BY <1>1, IInvHolds, PTL

(* An index that markReady writes READY has all its chunks and vectors,    *)
(* and keeps them whatever stale handlers and retries write afterwards.    *)
THEOREM ReadyIsCompleteHolds == Spec => []ReadyIsComplete
<1>1. IInv => ReadyIsComplete
  BY DEF IInv
<1> QED BY <1>1, IInvHolds, PTL

-----------------------------------------------------------------------------
(* READY stays.  BullMQ's default allows one redelivery, so at most two     *)
(* handlers ever start (QueueOK).  As long as no lease has run out, one     *)
(* that may still write its copy of the row is alone: the row names it, or  *)
(* the other handler has come to its end (AloneOK).                         *)

Started(d) == handler[d].at # "idle"
Over(d)    == handler[d].at \in {"settle", "done"}
Active(d)  == handler[d].at \in Working \cup {"failed", "mark"}

QueueOK ==
  /\ \A d \in Deliveries :
       Started(d) => /\ job.state # "absent"
                     /\ job.stalls = 0 => job.state # "waiting"
  /\ \A d, e \in Deliveries :
       Started(d) /\ Started(e) /\ d # e => job.stalls # 0 /\ job.state # "waiting"
  /\ \A d, e, f \in Deliveries :
       Started(d) /\ Started(e) /\ Started(f) => d = e \/ e = f \/ d = f

(* Only a handler that has failed writes FAILED, and only FAILED is retried. *)
FailedOK ==
  (index.status = "FAILED" \/ \E q \in Retries : retry[q].at # "find")
    => \E d \in Deliveries : Over(d)

CreatorOK == creator = "save" => job.state = "absent" /\ index.status = "absent"

TokensOK == \A d \in Deliveries : handler[d].at \in Working => handler[d].row.token = d

AloneOK ==
  expired = {} =>
    /\ \A d \in Deliveries :
         Active(d) => \/ index.status = "RUNNING" /\ index.token = d
                      \/ \E e \in Deliveries : Over(e)
    /\ index.status = "READY" => \A d \in Deliveries : ~Active(d)

RInv == IInv /\ QueueOK /\ FailedOK /\ CreatorOK /\ TokensOK /\ AloneOK

(* A handler at work shares its Run of the index with nobody. *)
LEMMA OneActive ==
  ASSUME RInv, expired = {}, NEW d \in Deliveries, NEW e \in Deliveries,
         Active(d), Active(e)
  PROVE  d = e
<1>1. CASE index.status = "RUNNING" /\ index.token = d /\ index.token = e
  BY <1>1
<1>2. CASE \E o \in Deliveries : Over(o)
  <2>1. PICK o \in Deliveries : Over(o)
    BY <1>2
  <2>2. o # d /\ o # e /\ Started(o) /\ Started(d) /\ Started(e)
    BY <2>1 DEF Over, Active, Started, Working
  <2> QED BY <2>2 DEF RInv, QueueOK
<1> QED BY <1>1, <1>2 DEF RInv, AloneOK

(* What a step of a handler does to its place, its copy and the row. *)
HandlerMoves(d) ==
  /\ \A e \in Deliveries \ {d} : handler'[e] = handler[e]
  /\ Started(d)'
  /\ Over(d) => Over(d)'
  /\ handler'[d].at \in Working => handler'[d].row.token = d
  /\ \/ index' = index /\ (Active(d)' => Active(d))
     \/ /\ MayClaim /\ Started(d) /\ ~Over(d)
        /\ index'.status = "RUNNING" /\ index'.token = d
     \/ Active(d) /\ index'.status = "RUNNING" /\ index'.token = d
     \/ Active(d) /\ Over(d)' /\ index'.status \in {"READY", "FAILED"}

HandlerAction(d) ==
  Deliver(d) \/ Ingest(d) \/ StepThrows(d) \/ WorkerDies(d) \/ FailureLost(d)

LEMMA GoMoves ==
  ASSUME RInv, NEW d \in Deliveries, NEW at \in Stages, Go(d, at), UNCHANGED index,
         at # "idle", Over(d) => at = "done",
         at \in Working \cup {"failed", "mark"} => handler[d].at \in Working
  PROVE  HandlerMoves(d)
<1>1. handler'[d].at = at /\ handler'[d].row = handler[d].row
  BY GoRec DEF RInv
<1>2. \A e \in Deliveries \ {d} : handler'[e] = handler[e]
  BY DEF Go, RInv, IInv, TypeOK
<1> QED BY <1>1, <1>2 DEF HandlerMoves, Started, Over, Active, RInv, TokensOK, Working

LEMMA HandlerMovesOK ==
  ASSUME RInv, NEW d \in Deliveries, HandlerAction(d)
  PROVE  HandlerMoves(d)
<1>0. Working \cup {"find", "claim", "failed", "mark", "settle", "done"} \subseteq Stages
  BY DEF Stages
<1>1. CASE Deliver(d)
  <2>1. Go(d, "find") /\ UNCHANGED index /\ ~Over(d)
    BY <1>1 DEF Deliver, Go, Over
  <2> QED BY <1>0, <2>1, GoMoves DEF Working
<1>2. CASE FindIndex(d)
  BY <1>0, <1>2, GoMoves DEF FindIndex, Over, Working
<1>3. CASE ClaimIndexLease(d) /\ MayClaim
  <2> DEFINE claimed == [index EXCEPT !.status = "RUNNING", !.token = d]
             r == [at |-> StageOfClaim(claimed), row |-> claimed, todo |-> Ordinals,
                   listed |-> {}]
  <2>1. claimed.status = "RUNNING" /\ claimed.token = d
    BY DEF RInv, IInv, TypeOK, Rows
  <2>2. index' = claimed /\ handler' = [handler EXCEPT ![d] = r] /\ handler[d].at = "claim"
    BY <1>3 DEF ClaimIndexLease
  <2> HIDE DEF claimed
  <2>3. r.at \in Working /\ r.row = claimed
    BY DEF StageOfClaim, Working
  <2> HIDE DEF r
  <2>4. handler'[d] = r /\ \A e \in Deliveries \ {d} : handler'[e] = handler[e]
    BY <2>2 DEF RInv, IInv, TypeOK
  <2> QED BY <1>3, <2>1, <2>2, <2>3, <2>4 DEF HandlerMoves, Started, Over, Working
<1>4. CASE ClaimIndexLease(d) /\ ~MayClaim
  BY <1>0, <1>4, GoMoves DEF ClaimIndexLease, Over, Working
<1>5. CASE Extract(d)
  <2> DEFINE current == [handler[d].row EXCEPT !.extracted = TRUE]
  <2>1. handler[d].row.status = "RUNNING" /\ handler[d].row.token = d /\ handler[d].at = "extract"
    BY <1>5 DEF Extract, Working, HandlerOK, RInv, IInv, TokensOK
  <2>2. current.status = "RUNNING" /\ current.token = d
    BY <2>1, RecTyped DEF Rows, RInv
  <2>3. index' = current /\ handler' = [handler EXCEPT ![d].at = "chunk", ![d].row = current]
    BY <1>5 DEF Extract
  <2> HIDE DEF current
  <2>4. /\ handler'[d].at = "chunk" /\ handler'[d].row = current
        /\ \A e \in Deliveries \ {d} : handler'[e] = handler[e]
    BY <2>3 DEF RInv, IInv, TypeOK
  <2> QED BY <2>1, <2>2, <2>3, <2>4 DEF HandlerMoves, Started, Over, Active, Working
<1>6. CASE MarkReady(d) \/ MarkFailed(d)
  <2>1. /\ Go(d, "settle") /\ handler[d].at \in {"ready", "mark"}
        /\ index'.status \in {"READY", "FAILED"}
    BY <1>6, RecTyped DEF MarkReady, MarkFailed, Rows, RInv
  <2>2. handler'[d].at = "settle" /\ \A e \in Deliveries \ {d} : handler'[e] = handler[e]
    BY <2>1 DEF Go, RInv, IInv, TypeOK
  <2> QED BY <2>1, <2>2 DEF HandlerMoves, Started, Over, Active, Working
<1>7. CASE FailureFind(d)
  <2>1. StageOfFailure \in {"mark", "settle"}
    BY DEF StageOfFailure
  <2>2. /\ handler'[d].at = StageOfFailure /\ handler[d].at = "failed" /\ index' = index
        /\ \A e \in Deliveries \ {d} : handler'[e] = handler[e]
    BY <1>7 DEF FailureFind, RInv, IInv, TypeOK
  <2> QED BY <2>1, <2>2 DEF HandlerMoves, Started, Over, Active, Working
<1>8. CASE FindChunk(d) \/ SaveChunk(d) \/ ListChunks(d) \/ UpsertVector(d)
             \/ CountVectors(d) \/ StepThrows(d)
  <2>1. /\ handler[d].at \in Working /\ index' = index
        /\ \A e \in Deliveries \ {d} : handler'[e] = handler[e]
        /\ handler'[d].at \in Working \cup {"failed"}
        /\ handler'[d].row = handler[d].row
    BY <1>8 DEF FindChunk, SaveChunk, ListChunks, UpsertVector, CountVectors, StepThrows,
       Go, RInv, IInv, TypeOK, Working
  <2>2. handler[d].row.token = d
    BY <2>1 DEF RInv, TokensOK
  <2> QED BY <2>1, <2>2 DEF HandlerMoves, Started, Over, Active, Working
<1>9. CASE Settle(d) \/ WorkerDies(d) \/ FailureLost(d)
  <2>1. /\ Go(d, "done") \/ (Go(d, "settle") /\ ~Over(d))
        /\ UNCHANGED index
    BY <1>9 DEF Settle, WorkerDies, FailureLost, Go, Over
  <2> QED BY <1>0, <2>1, GoMoves DEF Working
<1> QED BY <1>1, <1>2, <1>3, <1>4, <1>5, <1>6, <1>7, <1>8, <1>9 DEF HandlerAction, Ingest

LEMMA AloneStep ==
  ASSUME RInv, NEW d \in Deliveries, HandlerMoves(d), UNCHANGED expired
  PROVE  AloneOK'
<1> SUFFICES ASSUME expired' = {}
             PROVE  /\ \A e \in Deliveries :
                         Active(e)' => \/ index'.status = "RUNNING" /\ index'.token = e
                                       \/ \E o \in Deliveries : Over(o)'
                    /\ index'.status = "READY" => \A e \in Deliveries : ~Active(e)'
  BY DEF AloneOK
<1>1. expired = {}
  OBVIOUS
<1>2. \A e \in Deliveries \ {d} : (Active(e)' <=> Active(e)) /\ (Over(e)' <=> Over(e))
  BY DEF HandlerMoves, Active, Over
<1>3. \A o \in Deliveries : Over(o) => Over(o)'
  BY <1>2 DEF HandlerMoves
<1>4. CASE index' = index /\ (Active(d)' => Active(d))
  <2>1. \A e \in Deliveries : Active(e)' => Active(e)
    BY <1>2, <1>4
  <2> QED BY <1>1, <1>3, <1>4, <2>1 DEF RInv, AloneOK
<1>5. CASE /\ MayClaim /\ Started(d) /\ ~Over(d)
           /\ index'.status = "RUNNING" /\ index'.token = d
  <2>1. index.status # "RUNNING"
    BY <1>1, <1>5 DEF MayClaim
  <2>2. ASSUME NEW e \in Deliveries \ {d} PROVE ~Active(e)
    <3> SUFFICES ASSUME Active(e) PROVE FALSE
      OBVIOUS
    <3>1. PICK o \in Deliveries : Over(o)
      BY <1>1, <2>1 DEF RInv, AloneOK
    <3>2. o # d /\ o # e /\ Started(o) /\ Started(e)
      BY <1>5, <3>1 DEF Over, Active, Started, Working
    <3> QED BY <1>5, <3>2 DEF RInv, QueueOK
  <2> QED BY <1>2, <1>5, <2>2
<1>6. CASE Active(d) /\ index'.status = "RUNNING" /\ index'.token = d
  <2>1. \A e \in Deliveries \ {d} : ~Active(e)'
    BY <1>1, <1>2, <1>6, OneActive
  <2> QED BY <1>6, <2>1
<1>7. CASE Active(d) /\ Over(d)' /\ index'.status \in {"READY", "FAILED"}
  <2>1. \A e \in Deliveries \ {d} : ~Active(e)'
    BY <1>1, <1>2, <1>7, OneActive
  <2>2. ~Active(d)'
    BY <1>7 DEF Over, Active, Working
  <2> QED BY <2>1, <2>2
<1> QED BY <1>4, <1>5, <1>6, <1>7 DEF HandlerMoves

LEMMA HandlerRInv ==
  ASSUME MaxStalls <= 1, RInv, NEW d \in Deliveries, HandlerAction(d), IInv'
  PROVE  RInv'
<1>1. HandlerMoves(d)
  BY HandlerMovesOK
<1>2. UNCHANGED <<expired, creator, retry>>
  BY DEF HandlerAction, Deliver, Ingest, FindIndex, ClaimIndexLease, Extract, FindChunk,
     SaveChunk, ListChunks, UpsertVector, CountVectors, MarkReady, FailureFind, MarkFailed,
     Settle, StepThrows, WorkerDies, FailureLost, stored, rest
<1>3. \/ Deliver(d)
      \/ Started(d) /\ (job' = job \/ job' = [job EXCEPT !.state = "kept", !.lock = None])
  BY DEF HandlerAction, Deliver, Ingest, FindIndex, ClaimIndexLease, Extract, FindChunk,
     SaveChunk, ListChunks, UpsertVector, CountVectors, MarkReady, FailureFind, MarkFailed,
     Settle, StepThrows, WorkerDies, FailureLost, stored, rest, Started, Working
<1>4. \A e \in Deliveries \ {d} : (Started(e)' <=> Started(e)) /\ (Over(e)' <=> Over(e))
  BY <1>1 DEF HandlerMoves, Started, Over
<1>5. QueueOK'
  <2>1. CASE Deliver(d)
    <3>1. job.state = "waiting" /\ ~Started(d)
      BY <2>1 DEF Deliver, Started
    <3>2. job'.state = "active" /\ job'.stalls = job.stalls
      BY <2>1 DEF Deliver, RInv, IInv, TypeOK
    <3>3. \A e, f \in Deliveries : Started(e) /\ Started(f) => e = f /\ job.stalls # 0
      BY <3>1 DEF RInv, QueueOK
    <3> QED BY <1>4, <3>1, <3>2, <3>3 DEF QueueOK
  <2>2. CASE Started(d) /\ (job' = job \/ job' = [job EXCEPT !.state = "kept", !.lock = None])
    <3>1. \A e \in Deliveries : Started(e)' => Started(e)
      BY <1>4, <2>2
    <3>2. job'.stalls = job.stalls /\ job'.state \in {job.state, "kept"}
      BY <2>2 DEF RInv, IInv, TypeOK
    <3> QED BY <3>1, <3>2 DEF RInv, QueueOK
  <2> QED BY <1>3, <2>1, <2>2
<1>6. FailedOK'
  <2>1. \A o \in Deliveries : Over(o) => Over(o)'
    BY <1>1, <1>4 DEF HandlerMoves
  <2>2. index'.status = "FAILED" => index.status = "FAILED" \/ Over(d)'
    BY <1>1 DEF HandlerMoves
  <2> QED BY <1>2, <2>1, <2>2 DEF RInv, FailedOK
<1>7. CreatorOK'
  <2>1. creator # "save"
    BY <1>3 DEF RInv, CreatorOK, QueueOK, Deliver
  <2> QED BY <1>2, <2>1 DEF CreatorOK
<1>8. TokensOK'
  BY <1>1 DEF HandlerMoves, RInv, TokensOK
<1>9. AloneOK'
  BY <1>1, <1>2, AloneStep
<1> QED BY <1>5, <1>6, <1>7, <1>8, <1>9 DEF RInv

(* A step of the queue, of a caller or of time. *)
LEMMA OtherRInv ==
  ASSUME RInv, IInv', UNCHANGED handler, QueueOK', FailedOK', CreatorOK', AloneOK'
  PROVE  RInv'
BY DEF RInv, TokensOK

(* Neither the row nor a handler moves. *)
LEMMA AloneKept ==
  ASSUME RInv, UNCHANGED <<handler, index>>, expired \subseteq expired'
  PROVE  AloneOK'
BY DEF RInv, AloneOK, Active, Over

LEMMA QueueKept ==
  ASSUME RInv, UNCHANGED <<handler, job>>
  PROVE  QueueOK'
BY DEF RInv, QueueOK, Started

LEMMA StallRInv ==
  ASSUME MaxStalls <= 1, RInv, Stall, IInv'
  PROVE  RInv'
<1>0. UNCHANGED <<index, expired, creator, handler, retry>> /\ job.state = "active"
      /\ job.stalls \in 0 .. MaxStalls
  BY DEF Stall, stored, RInv, IInv, TypeOK
<1>1. QueueOK'
  <2>1. CASE MayRedeliver
    <3>1. job.stalls = 0 /\ job'.state = "waiting" /\ job'.stalls = 1
      BY <1>0, <2>1 DEF MayRedeliver, Stall
    <3> QED BY <1>0, <3>1 DEF RInv, QueueOK, Started
  <2>2. CASE ~MayRedeliver
    <3>1. job'.state = "kept" /\ job'.stalls = job.stalls
      BY <2>2 DEF Stall, RInv, IInv, TypeOK
    <3> QED BY <1>0, <3>1 DEF RInv, QueueOK, Started
  <2> QED BY <2>1, <2>2
<1>2. FailedOK' /\ CreatorOK'
  BY <1>0 DEF RInv, FailedOK, CreatorOK, Over
<1> QED BY <1>0, <1>1, <1>2, AloneKept, OtherRInv

LEMMA LeaseExpiresRInv ==
  ASSUME RInv, NEW d \in Deliveries, LeaseExpires(d), IInv'
  PROVE  RInv'
<1>1. UNCHANGED <<index, job, creator, handler, retry>> /\ expired \subseteq expired'
  BY DEF LeaseExpires
<1>2. FailedOK' /\ CreatorOK'
  BY <1>1 DEF RInv, FailedOK, CreatorOK, Over
<1> QED BY <1>1, <1>2, AloneKept, QueueKept, OtherRInv

(* Before the row is saved there is no job, handler or retry. *)
LEMMA SaveIndexRInv ==
  ASSUME RInv, SaveIndex, IInv'
  PROVE  RInv'
<1>1. /\ creator' # "save" /\ index'.status = "PENDING"
      /\ UNCHANGED <<expired, job, handler, retry>>
  BY DEF SaveIndex, stored, NewRow
<1>2. \A d \in Deliveries : ~Started(d)
  BY DEF SaveIndex, RInv, CreatorOK, QueueOK
<1>3. FailedOK' /\ CreatorOK'
  BY <1>1 DEF RInv, FailedOK, CreatorOK, Over
<1>4. AloneOK'
  BY <1>1, <1>2 DEF AloneOK, Active, Started, Working
<1> QED BY <1>1, <1>3, <1>4, QueueKept, OtherRInv

LEMMA EnqueueRInv ==
  ASSUME RInv, EnqueueIndex \/ EnqueueLost, IInv'
  PROVE  RInv'
<1>1. /\ creator' # "save" /\ UNCHANGED <<index, expired, handler, retry>>
      /\ job' = job \/ job' = AddJob
  BY DEF EnqueueIndex, EnqueueLost, stored
<1>2. QueueOK'
  BY <1>1 DEF AddJob, RInv, QueueOK, Started
<1>3. FailedOK' /\ CreatorOK'
  BY <1>1 DEF RInv, FailedOK, CreatorOK, Over
<1> QED BY <1>1, <1>2, <1>3, AloneKept, OtherRInv

(* A retry comes after a handler that failed, so a job has been there. *)
LEMMA RetryRInv ==
  ASSUME RInv, NEW q \in Retries, Retry(q), IInv'
  PROVE  RInv'
<1>0. \E o \in Deliveries : Over(o)
  BY DEF RInv, FailedOK, Retry, RetryFind, RetryUpdate, RetryEnqueue
<1>1. \E o \in Deliveries : Started(o)
  BY <1>0 DEF Over, Started
<1>2. job.state # "absent" /\ creator # "save"
  BY <1>1 DEF RInv, QueueOK, CreatorOK
<1>3. UNCHANGED <<expired, creator, handler, job>>
  BY <1>2 DEF Retry, RetryFind, RetryUpdate, RetryEnqueue, stored, AddJob
<1>4. FailedOK' /\ CreatorOK'
  BY <1>0, <1>2, <1>3 DEF FailedOK, CreatorOK, Over
<1>5. AloneOK'
  <2>1. CASE UNCHANGED index
    BY <1>3, <2>1, AloneKept
  <2>2. CASE RetryUpdate(q)
    <3>1. index'.status = "PENDING"
      BY <2>2 DEF RetryUpdate, RInv, IInv, TypeOK, Rows
    <3> QED BY <1>0, <1>3, <3>1 DEF AloneOK, Over
  <2> QED BY <2>1, <2>2 DEF Retry, RetryFind, RetryEnqueue
<1> QED BY <1>3, <1>4, <1>5, QueueKept, OtherRInv

LEMMA InitRInv == Init => RInv
<1> SUFFICES ASSUME Init PROVE RInv
  OBVIOUS
<1> QED BY InitIInv DEF Init, RInv, QueueOK, FailedOK, CreatorOK, TokensOK, AloneOK,
         Started, Over, Active, Working, NoRow

LEMMA NextRInv ==
  ASSUME MaxStalls <= 1, RInv, [Next]_vars
  PROVE  RInv'
<1>0. IInv'
  BY NextInv DEF RInv
<1>1. CASE UNCHANGED vars
  <2>1. FailedOK' /\ CreatorOK'
    BY <1>1 DEF vars, RInv, FailedOK, CreatorOK, Over
  <2> QED BY <1>0, <1>1, <2>1, AloneKept, QueueKept, OtherRInv DEF vars
<1>2. CASE Stall
  BY <1>0, <1>2, StallRInv
<1>3. CASE SaveIndex \/ EnqueueIndex \/ EnqueueLost
  BY <1>0, <1>3, SaveIndexRInv, EnqueueRInv
<1>4. ASSUME NEW d \in Deliveries, HandlerAction(d) PROVE RInv'
  BY <1>0, <1>4, HandlerRInv
<1>5. ASSUME NEW d \in Deliveries, LeaseExpires(d) PROVE RInv'
  BY <1>0, <1>5, LeaseExpiresRInv
<1>6. ASSUME NEW q \in Retries, Retry(q) PROVE RInv'
  BY <1>0, <1>6, RetryRInv
<1> QED BY <1>1, <1>2, <1>3, <1>4, <1>5, <1>6 DEF Next, HandlerAction

(* A READY row is written over only by a handler that outlived its lease or *)
(* by a retry request that read FAILED before, the two whole-row writes     *)
(* (updateIndex) that nothing guards.  BullMQ's default of one redelivery   *)
(* is needed: of three handlers two may be at work after stale retries.     *)
THEOREM ReadyStaysHolds ==
  ASSUME MaxStalls <= 1
  PROVE  Spec => ReadyStays
<1>1. ASSUME RInv, [Next]_vars, index.status = "READY", index' # index, expired = {},
             \A q \in Retries : retry[q].at # "update"
      PROVE  FALSE
  <2>1. \A d \in Deliveries : ~Active(d)
    BY <1>1 DEF RInv, AloneOK
  <2>2. ~MayClaim /\ creator # "save"
    BY <1>1 DEF MayClaim, RInv, CreatorOK
  <2>3. ASSUME NEW d \in Deliveries, HandlerAction(d) PROVE FALSE
    <3>1. HandlerMoves(d)
      BY <1>1, <2>3, HandlerMovesOK
    <3> QED BY <1>1, <2>1, <2>2, <3>1 DEF HandlerMoves
  <2> QED BY <1>1, <2>2, <2>3 DEF Next, HandlerAction, vars, SaveIndex, EnqueueIndex,
           EnqueueLost, Stall, LeaseExpires, Retry, RetryFind, RetryUpdate, RetryEnqueue
<1>2. RInv /\ [Next]_vars => RInv'
  BY NextRInv
<1>3. RInv /\ [Next]_vars
        => [index.status = "READY" /\ index' # index
              => expired # {} \/ \E q \in Retries : retry[q].at = "update"]_vars
  BY <1>1
<1> QED BY <1>2, <1>3, InitRInv, PTL DEF Spec, ReadyStays
=============================================================================
