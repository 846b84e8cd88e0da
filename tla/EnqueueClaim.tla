---------------------------- MODULE EnqueueClaim ----------------------------
(***************************************************************************)
(* enqueueWithTransportClaim: how any number of processes put the job of a *)
(* RunAttempt into the queue.  A claim key with a time to live guards the  *)
(* add; a Lua script, one step of Redis, looks at the job and the claim.   *)
(*                                                                         *)
(* A claim is fresh while more than 45 of its 60 seconds remain, stale     *)
(* after that, and then gone.  The script's 'retry' answer needs a claim   *)
(* that disappears inside the script and cannot occur.                     *)
(***************************************************************************)
EXTENDS Integers

CONSTANTS
  Callers,        \* processes that enqueue
  Jobs,           \* job ids, one per RunAttempt
  MaxTries,       \* 3: rounds of the claim loop
  MaxQueueFaults  \* bound on adds that fail and callers that die

ASSUME EnqueueClaimAssumption == MaxTries \in Nat \ {0} /\ MaxQueueFaults \in Nat

VARIABLES
  job,         \* whether the job's key is in Redis; it outlives the job's end
  claim,       \* the claim key of each job: "none", "fresh" or "stale"
  call,        \* the enqueue call each process is in
  queueFaults  \* failures so far

queueVars == <<job, claim, call, queueFaults>>

NoCall == [at |-> "none"]
Call(at, j, tries) == [at |-> at, job |-> j, tries |-> tries]
Answers == {"enqueued", "already_present", "failed"}
Answer(outcome, j) == [at |-> outcome, job |-> j, tries |-> 0]

QueueTypeOK ==
  /\ job \in [Jobs -> BOOLEAN]
  /\ claim \in [Jobs -> {"none", "fresh", "stale"}]
  /\ call \in [Callers -> {NoCall}
       \cup [at : {"claim", "add"}, job : Jobs, tries : 0 .. MaxTries - 1]
       \cup [at : Answers, job : Jobs, tries : {0}]]
  /\ queueFaults \in 0 .. MaxQueueFaults

QueueInit ==
  /\ job = [j \in Jobs |-> FALSE]
  /\ claim = [j \in Jobs |-> "none"]
  /\ call = [c \in Callers |-> NoCall]
  /\ queueFaults = 0

QueueFault ==
  /\ queueFaults < MaxQueueFaults
  /\ queueFaults' = queueFaults + 1

(* The caller is about to add the job it has claimed. *)
IsAdding(j) == \E c \in Callers : call[c].at = "add" /\ call[c].job = j

Enqueue(c, j) ==
  /\ call[c].at = "none"
  /\ call' = [call EXCEPT ![c] = Call("claim", j, 0)]

(* The caller has taken the answer. *)
Settle(c) == call' = [call EXCEPT ![c] = NoCall]

-----------------------------------------------------------------------------
ClaimInFlight(j) == claim[j] = "fresh"

(* ACQUIRE_ENQUEUE_CLAIM and what the loop does with its answer.  A stale  *)
(* claim is deleted and the loop goes round; the last round gives up.      *)
AcquireEnqueueClaim(c) ==
  LET j == call[c].job
      steal == ~job[j] /\ claim[j] # "none" /\ ~ClaimInFlight(j)
  IN /\ call[c].at = "claim"
     /\ claim' = [claim EXCEPT ![j] =
          IF job[j] \/ ClaimInFlight(j) THEN claim[j]
          ELSE IF steal THEN "none" ELSE "fresh"]
     /\ call' = [call EXCEPT ![c] =
          IF job[j] \/ ClaimInFlight(j) THEN Answer("already_present", j)
          ELSE IF ~steal THEN Call("add", j, call[c].tries)
          ELSE IF call[c].tries + 1 < MaxTries
                 THEN Call("claim", j, call[c].tries + 1)
                 ELSE Answer("already_present", j)]
     /\ UNCHANGED <<job, queueFaults>>

(* queue.add: adding a job whose id is known changes nothing.  The claim   *)
(* is left to expire.                                                      *)
AddJob(c) ==
  /\ call[c].at = "add"
  /\ job' = [job EXCEPT ![call[c].job] = TRUE]
  /\ call' = [call EXCEPT ![c] = Answer("enqueued", call[c].job)]
  /\ UNCHANGED <<claim, queueFaults>>

(* The add fails, or its answer is lost; the claim key is deleted, whose   *)
(* ever it is by now, or the deletion fails too.                           *)
AddFails(c) ==
  /\ QueueFault
  /\ call[c].at = "add"
  /\ \/ UNCHANGED job
     \/ job' = [job EXCEPT ![call[c].job] = TRUE]
  /\ \/ UNCHANGED claim
     \/ claim' = [claim EXCEPT ![call[c].job] = "none"]
  /\ call' = [call EXCEPT ![c] = Answer("failed", call[c].job)]

(* The script itself fails: nothing has happened. *)
ClaimFails(c) ==
  /\ QueueFault
  /\ call[c].at = "claim"
  /\ call' = [call EXCEPT ![c] = Answer("failed", call[c].job)]
  /\ UNCHANGED <<job, claim>>

(* Time passes for a claim. *)
ClaimAges(j) ==
  /\ claim[j] # "none"
  /\ claim' = [claim EXCEPT ![j] = IF claim[j] = "fresh" THEN "stale" ELSE "none"]
  /\ UNCHANGED <<job, call, queueFaults>>

CallStep(c) == AcquireEnqueueClaim(c) \/ AddJob(c) \/ AddFails(c) \/ ClaimFails(c)

(* What the process does by itself once it is in a call. *)
CallProgress(c) == AcquireEnqueueClaim(c) \/ AddJob(c)

QueueStep ==
  \/ \E c \in Callers : CallStep(c)
  \/ \E j \in Jobs : ClaimAges(j)
=============================================================================
