-------------------------- MODULE KnowledgeIndexing -------------------------
(***************************************************************************)
(* The ingestion of one KnowledgeIndex.  The API saves the row and         *)
(* enqueues a job named after it; a knowledge worker claims the row for    *)
(* five minutes without a heartbeat, and then extracts, chunks, embeds and *)
(* marks it READY or FAILED by writing back whole copies of the row that   *)
(* it took earlier, by id alone.                                           *)
(*                                                                         *)
(* Each delivery of the job is a handler of its own, and its lease token   *)
(* is named after it.  Extraction and chunking are deterministic, so       *)
(* chunks are named by their ordinals and a stored chunk has the text that *)
(* every handler computes.                                                 *)
(***************************************************************************)
EXTENDS Integers, FiniteSets

CONSTANTS
  Ordinals,    \* ordinals of the chunks the document falls into
  Deliveries,  \* the times the job is given to a worker
  Retries,     \* requests to the retry endpoint
  MaxStalls,   \* BullMQ's maxStalledCount
  MaxFaults,   \* bound on processes that die and on writes of FAILED that fail
  None         \* SQL NULL

ASSUME KnowledgeAssumption ==
  /\ Ordinals \subseteq Nat
  /\ IsFiniteSet(Ordinals)
  /\ MaxStalls \in Nat /\ MaxFaults \in Nat
  /\ None \notin Deliveries

VARIABLES
  index,    \* knowledge_indexes: status, lease_token, extracted_artifact_id
  chunks,   \* knowledge_chunks: the ordinals stored
  vectors,  \* knowledge_vectors: the chunks that have one
  expired,  \* deliveries whose lease ran out before they gave it back
  job,      \* the job in Redis: its state, who holds its lock, its stalls
  creator,  \* where CreateKnowledgeIndex is
  handler,  \* where each delivery is, the row it holds, the chunks ahead
  retry,    \* where each retry request is and the row it has read
  faults

vars == <<index, chunks, vectors, expired, job, creator, handler, retry, faults>>

Rows == [status : {"absent", "PENDING", "RUNNING", "READY", "FAILED"},
         token : Deliveries \cup {None}, extracted : BOOLEAN]
NoRow == [status |-> "absent", token |-> None, extracted |-> FALSE]
NewRow == [status |-> "PENDING", token |-> None, extracted |-> FALSE]

(* Where a handler is, and where it may still write the row it claimed. *)
Working == {"extract", "chunk", "save", "list", "embed", "count", "ready"}
Stages == Working \cup {"idle", "find", "claim", "failed", "mark", "settle", "done"}

TypeOK ==
  /\ index \in Rows
  /\ chunks \subseteq Ordinals /\ vectors \subseteq chunks
  /\ expired \subseteq Deliveries
  /\ job \in [state : {"absent", "waiting", "active", "kept"},
              lock : Deliveries \cup {None}, stalls : 0 .. MaxStalls]
  /\ creator \in {"save", "enqueue", "done"}
  /\ handler \in [Deliveries -> [at : Stages, row : Rows, todo : SUBSET Ordinals,
                              listed : SUBSET Ordinals]]
  /\ retry \in [Retries -> [at : {"find", "update", "enqueue", "done"}, row : Rows]]
  /\ faults \in 0 .. MaxFaults

Init ==
  /\ index = NoRow
  /\ chunks = {} /\ vectors = {}
  /\ expired = {}
  /\ job = [state |-> "absent", lock |-> None, stalls |-> 0]
  /\ creator = "save"
  /\ handler = [d \in Deliveries |->
       [at |-> "idle", row |-> NoRow, todo |-> {}, listed |-> {}]]
  /\ retry = [q \in Retries |-> [at |-> "find", row |-> NoRow]]
  /\ faults = 0

stored == <<chunks, vectors, expired>>

-----------------------------------------------------------------------------
(* The queue: a job is named after the index and kept once it has ended,   *)
(* so that a later add under its name changes nothing.                     *)

AddJob == IF job.state = "absent" THEN [job EXCEPT !.state = "waiting"] ELSE job

Deliver(d) ==
  /\ job.state = "waiting"
  /\ handler[d].at = "idle"
  /\ job' = [job EXCEPT !.state = "active", !.lock = d]
  /\ handler' = [handler EXCEPT ![d].at = "find"]
  /\ UNCHANGED <<index, stored, creator, retry, faults>>

MayRedeliver == job.stalls < MaxStalls

(* The worker does not renew the job's lock, alive or not. *)
Stall ==
  /\ job.state = "active"
  /\ job' = IF MayRedeliver
              THEN [state |-> "waiting", lock |-> None, stalls |-> job.stalls + 1]
              ELSE [job EXCEPT !.state = "kept", !.lock = None]
  /\ UNCHANGED <<index, stored, creator, handler, retry, faults>>

(* The handler returned; what it threw was swallowed. *)
Settle(d) ==
  /\ handler[d].at = "settle"
  /\ handler' = [handler EXCEPT ![d].at = "done"]
  /\ job' = IF job.lock = d THEN [job EXCEPT !.state = "kept", !.lock = None] ELSE job
  /\ UNCHANGED <<index, stored, creator, retry, faults>>

-----------------------------------------------------------------------------
(* CreateKnowledgeIndex and RetryKnowledgeIndex *)

SaveIndex ==
  /\ creator = "save"
  /\ index' = NewRow
  /\ creator' = "enqueue"
  /\ UNCHANGED <<stored, job, handler, retry, faults>>

EnqueueIndex ==
  /\ creator = "enqueue"
  /\ job' = AddJob
  /\ creator' = "done"
  /\ UNCHANGED <<index, stored, handler, retry, faults>>

RetryFind(q) ==
  /\ retry[q].at = "find"
  /\ index.status = "FAILED"
  /\ retry' = [retry EXCEPT ![q] = [at |-> "update", row |-> index]]
  /\ UNCHANGED <<index, stored, job, creator, handler, faults>>

(* updateIndex with the row that was read, whatever it has become. *)
RetryUpdate(q) ==
  /\ retry[q].at = "update"
  /\ index' = [retry[q].row EXCEPT !.status = "PENDING", !.token = None]
  /\ retry' = [retry EXCEPT ![q].at = "enqueue"]
  /\ UNCHANGED <<stored, job, creator, handler, faults>>

RetryEnqueue(q) ==
  /\ retry[q].at = "enqueue"
  /\ job' = AddJob
  /\ retry' = [retry EXCEPT ![q].at = "done"]
  /\ UNCHANGED <<index, stored, creator, handler, faults>>

-----------------------------------------------------------------------------
(* KnowledgeIngestionService.processIndex *)

Go(d, at) == handler' = [handler EXCEPT ![d].at = at]
rest == <<expired, job, creator, retry, faults>>

FindIndex(d) ==
  /\ handler[d].at = "find"
  /\ Go(d, IF index.status = "READY" THEN "settle" ELSE "claim")
  /\ UNCHANGED <<index, chunks, vectors, rest>>

(* Mutant: a RUNNING row may be claimed before its lease has run out. *)
MayClaimRunning == index.status \in {"PENDING", "RUNNING"}

MayClaim ==
  \/ index.status = "PENDING"
  \/ index.status = "RUNNING" /\ index.token \in expired

(* Mutant: a row that was extracted is taken to be chunked too. *)
StageAfterChunks(row) == IF row.extracted THEN "list" ELSE "extract"

StageOfClaim(row) == IF row.extracted THEN "chunk" ELSE "extract"

ClaimIndexLease(d) ==
  LET claimed == [index EXCEPT !.status = "RUNNING", !.token = d]
  IN /\ handler[d].at = "claim"
     /\ IF MayClaim
          THEN /\ index' = claimed
               /\ handler' = [handler EXCEPT ![d] =
                    [at |-> StageOfClaim(claimed), row |-> claimed, todo |-> Ordinals,
                     listed |-> {}]]
          ELSE Go(d, "settle") /\ UNCHANGED index
     /\ UNCHANGED <<chunks, vectors, rest>>

(* The extraction is stored as an artifact and named in the row. *)
Extract(d) ==
  LET current == [handler[d].row EXCEPT !.extracted = TRUE]
  IN /\ handler[d].at = "extract"
     /\ index' = current
     /\ handler' = [handler EXCEPT ![d].at = "chunk", ![d].row = current]
     /\ UNCHANGED <<chunks, vectors, rest>>

NextOrdinal(d) == CHOOSE n \in handler[d].todo : \A k \in handler[d].todo : n <= k

FindChunk(d) ==
  /\ handler[d].at = "chunk"
  /\ IF handler[d].todo = {} THEN Go(d, "list")
     ELSE IF NextOrdinal(d) \in chunks
       THEN handler' = [handler EXCEPT ![d].todo = @ \ {NextOrdinal(d)}]
     ELSE Go(d, "save")
  /\ UNCHANGED <<index, chunks, vectors, rest>>

(* The insert of an ordinal that another handler has stored throws. *)
SaveChunk(d) ==
  /\ handler[d].at = "save"
  /\ IF NextOrdinal(d) \in chunks
       THEN Go(d, "failed") /\ UNCHANGED chunks
       ELSE /\ chunks' = chunks \cup {NextOrdinal(d)}
            /\ handler' = [handler EXCEPT ![d].at = "chunk",
                                          ![d].todo = @ \ {NextOrdinal(d)}]
  /\ UNCHANGED <<index, vectors, rest>>

(* All stored chunks are listed and embedded: todo is the vectors ahead. *)
ListChunks(d) ==
  /\ handler[d].at = "list"
  /\ handler' = [handler EXCEPT ![d].at = "embed", ![d].todo = chunks,
                                ![d].listed = chunks]
  /\ UNCHANGED <<index, chunks, vectors, rest>>

UpsertVector(d) ==
  /\ handler[d].at = "embed"
  /\ IF handler[d].todo = {} THEN Go(d, "count") /\ UNCHANGED vectors
     ELSE /\ vectors' = vectors \cup {NextOrdinal(d)}
          /\ handler' = [handler EXCEPT ![d].todo = @ \ {NextOrdinal(d)}]
  /\ UNCHANGED <<index, chunks, rest>>

CountVectors(d) ==
  /\ handler[d].at = "count"
  /\ Go(d, IF Cardinality(vectors) = Cardinality(handler[d].listed) THEN "ready"
           ELSE "failed")
  /\ UNCHANGED <<index, chunks, vectors, rest>>

MarkReady(d) ==
  /\ handler[d].at = "ready"
  /\ index' = [handler[d].row EXCEPT !.status = "READY", !.token = None]
  /\ Go(d, "settle")
  /\ UNCHANGED <<chunks, vectors, rest>>

(* A parser, the artifact store, the embedding gateway, the vector store   *)
(* or the database throws.                                                 *)
StepThrows(d) ==
  /\ handler[d].at \in Working
  /\ Go(d, "failed")
  /\ UNCHANGED <<index, chunks, vectors, rest>>

(* Mutant: a failure is not recorded. *)
NotRecorded == "settle"

StageOfFailure == IF index.status = "RUNNING" THEN "mark" ELSE "settle"

(* markFailed: the row is read again. *)
FailureFind(d) ==
  /\ handler[d].at = "failed"
  /\ handler' = [handler EXCEPT ![d].at = StageOfFailure, ![d].row = index]
  /\ UNCHANGED <<index, chunks, vectors, rest>>

MarkFailed(d) ==
  /\ handler[d].at = "mark"
  /\ index' = [handler[d].row EXCEPT !.status = "FAILED", !.token = None]
  /\ Go(d, "settle")
  /\ UNCHANGED <<chunks, vectors, rest>>

-----------------------------------------------------------------------------
(* Time and faults *)

(* Five minutes after the claim, also of a handler that has died. *)
LeaseExpires(d) ==
  /\ handler[d].at \in Working \cup {"failed", "mark"} \/ index.token = d
  /\ expired' = expired \cup {d}
  /\ UNCHANGED <<index, chunks, vectors, job, creator, handler, retry, faults>>

Fault == faults < MaxFaults /\ faults' = faults + 1

(* The worker dies; the job keeps its lock until it stalls. *)
WorkerDies(d) ==
  /\ Fault
  /\ handler[d].at \notin {"idle", "done"}
  /\ Go(d, "done")
  /\ UNCHANGED <<index, stored, job, creator, retry>>

(* Recording the failure throws as well. *)
FailureLost(d) ==
  /\ Fault
  /\ handler[d].at \in {"failed", "mark"}
  /\ Go(d, "settle")
  /\ UNCHANGED <<index, stored, job, creator, retry>>

(* The API process dies, or Redis refuses, before the job is added. *)
EnqueueLost ==
  /\ Fault
  /\ creator = "enqueue" /\ creator' = "done"
  /\ UNCHANGED <<index, stored, job, handler, retry>>

-----------------------------------------------------------------------------
Ingest(d) ==
  \/ FindIndex(d) \/ ClaimIndexLease(d) \/ Extract(d) \/ FindChunk(d) \/ SaveChunk(d)
  \/ ListChunks(d) \/ UpsertVector(d) \/ CountVectors(d) \/ MarkReady(d)
  \/ FailureFind(d) \/ MarkFailed(d) \/ Settle(d)

Retry(q) == RetryFind(q) \/ RetryUpdate(q) \/ RetryEnqueue(q)

Next ==
  \/ SaveIndex \/ EnqueueIndex \/ EnqueueLost \/ Stall
  \/ \E d \in Deliveries :
       Deliver(d) \/ Ingest(d) \/ StepThrows(d) \/ LeaseExpires(d) \/ WorkerDies(d)
         \/ FailureLost(d)
  \/ \E q \in Retries : Retry(q)

Spec == Init /\ [][Next]_vars

(* Workers take jobs and go on with them. *)
FairSpec ==
  /\ Spec
  /\ WF_vars(\E d \in Deliveries : Deliver(d))
  /\ \A d \in Deliveries : WF_vars(Ingest(d))

-----------------------------------------------------------------------------
(* A READY index can be retrieved from: all chunks of the document are     *)
(* stored and each has its vector, whoever stored them and whichever       *)
(* handlers died, failed or overtook one another on the way.               *)
ReadyIsComplete ==
  index.status = "READY" => chunks = Ordinals /\ vectors = Ordinals

(* READY is for good as long as no handler outlives its lease and no retry *)
(* request is between its read and its write, which are the two ways a     *)
(* copy of the row taken earlier is written over it, given the one         *)
(* redelivery that BullMQ allows by default.                               *)
ReadyStays ==
  [][index.status = "READY" /\ index' # index
       => expired # {} \/ \E q \in Retries : retry[q].at = "update"]_vars

FirstJobUnderWay ==
  /\ job.state \in {"waiting", "active"}
  /\ \A q \in Retries : retry[q].at = "find"

(* The job of a new index brings it to READY or FAILED, however it stalls, *)
(* fails and is delivered again, unless a process died or a failure could  *)
(* not be recorded.                                                        *)
IngestionEnds ==
  FirstJobUnderWay /\ faults = 0 ~> index.status \in {"READY", "FAILED"} \/ faults > 0
=============================================================================
