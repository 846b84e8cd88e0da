------------------------- MODULE DurableOperations --------------------------
(***************************************************************************)
(* The declarative runtime of one Run: the loop that asks the model,       *)
(* invokes the tools it calls for and commits a checkpoint after each      *)
(* step, with the journal that tells a later attempt what became of an     *)
(* operation.  Attempts follow one another as RunLifecycle proves: one     *)
(* holds the Run at a time, but the worker of an interrupted attempt does  *)
(* not know at once, and goes on beside its successor.                     *)
(*                                                                         *)
(* Conversations are abstracted to which calls have a result, and a result *)
(* to the attempt whose invocation returned it, with 0 for none: in a      *)
(* journal row also for a JSON null, which reads back as no result.        *)
(***************************************************************************)
EXTENDS Integers, Sequences, FiniteSets

CONSTANTS
  Calls,               \* the tool calls that a model may ever make
  Batches,             \* the lists of calls that one completion may hold
  Id,                  \* Id[c]: the id the provider gives the call
  Fingerprint,         \* Fingerprint[c]: tool version, binding and arguments
  IdempotencyClass,    \* IdempotencyClass[c]: of the tool
  Nullable,            \* the calls that a tool may answer with a JSON null
  MaxAttempts,         \* bound on attempts of the Run
  MaxModelInvocations,
  MaxToolInvocations,
  None                 \* no row, no checkpoint

Attempts == 1 .. MaxAttempts
Keys == {Id[c] : c \in Calls}
Classes == {"PURE", "READ_ONLY", "IDEMPOTENT_WRITE", "RECONCILE", "UNKNOWN_WRITE"}
Statuses == {"PENDING", "COMMITTED", "UNCERTAIN", "FAILED"}

(* Ids may repeat within a Run: the Gemini adapter builds them from the    *)
(* tool's name and a position, so equal ids are at least of one tool.      *)
ASSUME DurableOperationsAssumption ==
  /\ Batches \subseteq Seq(Calls) \ {<<>>}
  /\ IdempotencyClass \in [Calls -> Classes]
  /\ Nullable \subseteq Calls
  /\ \A c, d \in Calls : Id[c] = Id[d] => IdempotencyClass[c] = IdempotencyClass[d]
  /\ MaxAttempts \in Nat \ {0}
  /\ MaxModelInvocations \in Nat
  /\ MaxToolInvocations \in Nat
  /\ \A c \in Calls : Fingerprint[c] # None

VARIABLES
  runStatus,   \* runs.status; "BLOCKED" is INTERRUPTED with metadata.blocked
  attempt,     \* the latest RunAttempt
  journal,     \* run_operation_journal: a row for each key, or None
  checkpoint,  \* the state of the latest run_checkpoints row, or None
  loop,        \* runDeclarativeExecutionLoop in the worker of each attempt
  issued,      \* history: the calls that completions have held
  effects,     \* history: the invocations that reached a tool
  staleInsert  \* history: a checkpoint was inserted by an interrupted attempt

vars == <<runStatus, attempt, journal, checkpoint, loop, issued, effects, staleInsert>>

States == [results : [Calls -> Attempts \cup {0}], pending : Seq(Calls),
           modelInvocations : 0 .. MaxModelInvocations]
NewState == [results |-> [c \in Calls |-> 0], pending |-> <<>>, modelInvocations |-> 0]

Rows == [status : Statuses, class : Classes, fingerprint : {Fingerprint[c] : c \in Calls},
         result : Attempts \cup {0}]

ASSUME NoneAssumption == None \notin Rows /\ None \notin States

Stages == {"idle", "restore", "model", "fence", "insert", "find", "record",
           "insertRow", "invoke", "answered", "succeeded", "failed", "gone"}
Answers == {"output", "null", "ambiguous", "error"}
Idle == [at |-> "idle", state |-> NewState, restoredBatch |-> FALSE,
         next |-> "model", afterNull |-> FALSE]

TypeOK ==
  /\ runStatus \in {"QUEUED", "RUNNING", "INTERRUPTED", "BLOCKED", "SUCCEEDED", "FAILED"}
  /\ attempt \in Attempts
  /\ journal \in [Keys -> Rows \cup {None}]
  /\ checkpoint \in States \cup {None}
  /\ loop \in [Attempts -> [at : Stages, state : States, restoredBatch : BOOLEAN,
                            next : {"model", "find", "succeeded"}, afterNull : BOOLEAN]]
  /\ issued \subseteq Calls
  /\ effects \subseteq
       [attempt : Attempts, call : Calls, owned : BOOLEAN, afterNull : BOOLEAN]
  /\ staleInsert \in BOOLEAN

Init ==
  /\ runStatus = "QUEUED"
  /\ attempt = 1
  /\ journal = [k \in Keys |-> None]
  /\ checkpoint = None
  /\ loop = [a \in Attempts |-> Idle]
  /\ issued = {}
  /\ effects = {}
  /\ staleInsert = FALSE

(* The attempt holds the Run: its row is RUNNING. *)
Owns(a) == a = attempt /\ runStatus = "RUNNING"

Call(a) == Head(loop[a].state.pending)
Row(a) == journal[Id[Call(a)]]

ToolInvocations(state) == Cardinality({c \in Calls : state.results[c] # 0})

CallsIn(list) == {list[i] : i \in DOMAIN list}

(* The calls that a conversation holds, answered or pending. *)
Known(state) ==
  {c \in Calls : state.results[c] # 0} \cup CallsIn(state.pending)

Goto(a, at) == loop' = [loop EXCEPT ![a].at = at]
Leave(a) == loop' = [loop EXCEPT ![a] = [Idle EXCEPT !.at = "gone"]]

(* The loop returns a failure or throws; the conversation is lost. *)
Fail(a) == loop' = [loop EXCEPT ![a] = [Idle EXCEPT !.at = "failed"]]

(* What may fail without having done anything: fetching the context, the   *)
(* model, its budget or its output, the checks on a call, the gateway's    *)
(* refusal of it (the journal keeps PENDING), and any statement.           *)
StepFails(a) ==
  /\ loop[a].at \in {"restore", "fence", "insert", "model", "find", "record",
                     "insertRow", "invoke", "answered"}
  /\ Fail(a)
  /\ UNCHANGED <<runStatus, attempt, journal, checkpoint, issued, effects, staleInsert>>

-----------------------------------------------------------------------------
(* The attempt starts, from the latest checkpoint if there is one. *)

AcquireLease ==
  /\ runStatus = "QUEUED"
  /\ runStatus' = "RUNNING"
  /\ Goto(attempt, "restore")
  /\ UNCHANGED <<attempt, journal, checkpoint, issued, effects, staleInsert>>

NextStage(pending) == IF pending = <<>> THEN "model" ELSE "find"

(* Without a checkpoint the context is fetched and committed first.  Calls *)
(* that a checkpoint left pending are executed as one batch.               *)
Restore(a) ==
  /\ loop[a].at = "restore"
  /\ loop' = [loop EXCEPT ![a] =
       IF checkpoint = None
       THEN [Idle EXCEPT !.at = "fence"]
       ELSE [Idle EXCEPT !.at = NextStage(checkpoint.pending),
                         !.state = checkpoint,
                         !.restoredBatch = checkpoint.pending # <<>>]]
  /\ UNCHANGED <<runStatus, attempt, journal, checkpoint, issued, effects, staleInsert>>

-----------------------------------------------------------------------------
(* Checkpoints. *)

(* The fence is a SELECT of the attempt's row. *)
CheckpointFence(a) ==
  /\ loop[a].at = "fence"
  /\ IF Owns(a) THEN Goto(a, "insert") ELSE Fail(a)
  /\ UNCHANGED <<runStatus, attempt, journal, checkpoint, issued, effects, staleInsert>>

(* The INSERT takes the next sequence number of the Run, whoever holds it  *)
(* by then.                                                                *)
CheckpointInsert(a) ==
  /\ loop[a].at = "insert"
  /\ checkpoint' = loop[a].state
  /\ staleInsert' = (staleInsert \/ ~Owns(a))
  /\ Goto(a, loop[a].next)
  /\ UNCHANGED <<runStatus, attempt, journal, issued, effects>>

-----------------------------------------------------------------------------
(* The model. *)

(* Mutant: the calls of a completion are executed before a checkpoint      *)
(* holds them.                                                             *)
StageAfterCompletion(pending) == "find"

StageOnToolCalls(pending) == "fence"

MayInvokeModel(state) == state.modelInvocations < MaxModelInvocations

(* A completion is counted, and its conversation committed. *)
Completion(a, at, pending, next) ==
  /\ loop[a].at = "model"
  /\ MayInvokeModel(loop[a].state)
  /\ loop' = [loop EXCEPT ![a] = [Idle EXCEPT
       !.at = at,
       !.next = next,
       !.state = [loop[a].state EXCEPT
         !.modelInvocations = loop[a].state.modelInvocations + 1,
         !.pending = pending]]]
  /\ UNCHANGED <<runStatus, attempt, journal, checkpoint, effects, staleInsert>>

ModelAnswers(a) ==
  /\ Completion(a, "fence", <<>>, "succeeded")
  /\ UNCHANGED issued

ModelCallsTools(a) ==
  \E batch \in Batches :
    /\ CallsIn(batch) \cap issued = {}
    /\ issued' = issued \cup CallsIn(batch)
    /\ Completion(a, StageOnToolCalls(batch), batch, "find")

-----------------------------------------------------------------------------
(* One tool call: look it up, record it, invoke the tool, settle it. *)

(* A call has its result and the next one is due.  A restored batch        *)
(* commits one checkpoint at its end, a fresh one after each call.         *)
AfterCall(a, result) ==
  LET rest == Tail(loop[a].state.pending) IN
  loop' = [loop EXCEPT ![a] =
    [at |-> IF loop[a].restoredBatch /\ rest # <<>> THEN "find" ELSE "fence",
     state |-> [loop[a].state EXCEPT !.results[Call(a)] = result, !.pending = rest],
     restoredBatch |-> loop[a].restoredBatch,
     next |-> NextStage(rest),
     afterNull |-> FALSE]]

(* Mutant: writes whose result is unknown are repeated if the tool says    *)
(* that it is idempotent.                                                  *)
SafeUnlessUnknown(class, status) ==
  \/ status = "COMMITTED"
  \/ /\ status # "UNCERTAIN"
     /\ class \in {"READ_ONLY", "PURE", "IDEMPOTENT_WRITE"}

IsSideEffectSafeToAutoReplay(class, status) ==
  \/ status = "COMMITTED"
  \/ status = "FAILED" /\ class \in {"PURE", "READ_ONLY"}
  \/ status = "PENDING" /\ class = "READ_ONLY"

(* Mutant: the key alone identifies an operation. *)
SameKey(row, c) == row # None

Matches(row, c) == row.fingerprint = Fingerprint[c]

(* committedResult !== undefined: a JSON null is read as undefined. *)
HasResult(row) == row.result # 0

(* A row that FAILED is invoked again, like one that is not there, and so  *)
(* is a committed one that reads back without a result, whatever its       *)
(* fingerprint; afterNull says which, for the history.                     *)
FindOperation(a) ==
  /\ loop[a].at = "find"
  /\ IF ToolInvocations(loop[a].state) >= MaxToolInvocations
     THEN Fail(a)
     ELSE \/ /\ Row(a) = None
             /\ Goto(a, "record")
          \/ /\ Row(a) # None
             /\ \/ /\ Row(a).status = "FAILED"
                   /\ Goto(a, "record")
                \/ /\ Row(a).status = "COMMITTED"
                   /\ ~HasResult(Row(a))
                   /\ loop' = [loop EXCEPT ![a].at = "record", ![a].afterNull = TRUE]
                \/ /\ Row(a).status = "COMMITTED"
                   /\ HasResult(Row(a))
                   /\ Matches(Row(a), Call(a))
                   /\ AfterCall(a, Row(a).result)
                \/ /\ Row(a).status = "PENDING"
                   /\ Matches(Row(a), Call(a))
                   /\ IsSideEffectSafeToAutoReplay(Row(a).class, "PENDING")
                   /\ Goto(a, "invoke")
                \/ /\ \/ Row(a).status = "UNCERTAIN"
                      \/ /\ Row(a).status = "PENDING" \/ HasResult(Row(a))
                         /\ Row(a).status \in {"COMMITTED", "PENDING"}
                         /\ ~Matches(Row(a), Call(a))
                      \/ /\ Row(a).status = "PENDING"
                         /\ ~IsSideEffectSafeToAutoReplay(Row(a).class, "PENDING")
                   /\ Fail(a)
  /\ UNCHANGED <<runStatus, attempt, journal, checkpoint, issued, effects, staleInsert>>

(* A row that is there by now is left as it is, whoever wrote it. *)
RecordPending(a) ==
  /\ loop[a].at = "record"
  /\ Goto(a, IF Row(a) = None THEN "insertRow" ELSE "invoke")
  /\ UNCHANGED <<runStatus, attempt, journal, checkpoint, issued, effects, staleInsert>>

(* The key is unique: a row inserted meanwhile makes the call throw. *)
InsertRow(a) ==
  /\ loop[a].at = "insertRow"
  /\ \/ /\ Row(a) = None
        /\ journal' = [journal EXCEPT ![Id[Call(a)]] =
             [status |-> "PENDING", class |-> IdempotencyClass[Call(a)],
              fingerprint |-> Fingerprint[Call(a)], result |-> 0]]
        /\ Goto(a, "invoke")
     \/ /\ Row(a) # None
        /\ Fail(a)
        /\ UNCHANGED journal
  /\ UNCHANGED <<runStatus, attempt, checkpoint, issued, effects, staleInsert>>

(* The tool is reached. *)
InvokeTool(a) ==
  /\ loop[a].at = "invoke"
  /\ Goto(a, "answered")
  /\ effects' = effects \cup
       {[attempt |-> a, call |-> Call(a), owned |-> Owns(a),
         afterNull |-> loop[a].afterNull]}
  /\ UNCHANGED <<runStatus, attempt, journal, checkpoint, issued, staleInsert>>

(* What an invocation that failed leaves behind. *)
JournalFailureDisposition(class, answer) ==
  IF class = "PURE" \/ (class = "READ_ONLY" /\ answer # "ambiguous")
  THEN "FAILED" ELSE "UNCERTAIN"

(* The tool answers one way or another, and the answer is kept.            *)
(* Journal rows are written by key alone: nothing asks who holds the Run,  *)
(* or what the row says by now.  (The gateway returns JSON only, so the    *)
(* loop's own test of the output does not fail.)                           *)
SettleOperation(a, answer) ==
  /\ loop[a].at = "answered"
  /\ answer = "null" => Call(a) \in Nullable
  /\ LET k == Id[Call(a)] IN
     IF answer \in {"output", "null"}
     THEN /\ journal' = [journal EXCEPT ![k].status = "COMMITTED",
               ![k].result = IF answer = "null" THEN 0 ELSE a]
          /\ AfterCall(a, a)
     ELSE /\ journal' = [journal EXCEPT ![k].status =
               JournalFailureDisposition(IdempotencyClass[Call(a)], answer)]
          /\ Fail(a)
  /\ UNCHANGED <<runStatus, attempt, checkpoint, issued, effects, staleInsert>>

-----------------------------------------------------------------------------
(* The attempt ends, and the ticker deals with those that do not. *)

(* The outcome is persisted only by the attempt that still holds the Run. *)
PersistTerminal(a) ==
  /\ loop[a].at \in {"succeeded", "failed"}
  /\ runStatus' = IF Owns(a)
                  THEN IF loop[a].at = "succeeded" THEN "SUCCEEDED" ELSE "FAILED"
                  ELSE runStatus
  /\ Leave(a)
  /\ UNCHANGED <<attempt, journal, checkpoint, issued, effects, staleInsert>>

(* The process dies, or notices the loss of its lease and aborts the loop. *)
WorkerGone(a) ==
  /\ loop[a].at \notin {"idle", "gone"}
  /\ Leave(a)
  /\ UNCHANGED <<runStatus, attempt, journal, checkpoint, issued, effects, staleInsert>>

(* The lease ran out, whether or not the worker lives. *)
FailExpiredLease ==
  /\ runStatus = "RUNNING"
  /\ runStatus' = IF checkpoint = None THEN "FAILED" ELSE "INTERRUPTED"
  /\ UNCHANGED <<attempt, journal, checkpoint, loop, issued, effects, staleInsert>>

IsBlocking(row) ==
  \/ row.status \in {"PENDING", "UNCERTAIN"}
  \/ row.status = "FAILED" /\ row.class = "UNKNOWN_WRITE"

JournalAllowsRecovery(rows) ==
  \A row \in rows :
    IsBlocking(row) => IsSideEffectSafeToAutoReplay(row.class, row.status)

RecoverInterruptedRun ==
  /\ runStatus = "INTERRUPTED"
  /\ IF JournalAllowsRecovery({journal[k] : k \in Keys} \ {None})
     THEN /\ attempt < MaxAttempts
          /\ attempt' = attempt + 1
          /\ runStatus' = "QUEUED"
     ELSE /\ runStatus' = "BLOCKED"
          /\ UNCHANGED attempt
  /\ UNCHANGED <<journal, checkpoint, loop, issued, effects, staleInsert>>

Step(a) ==
  \/ Restore(a) \/ CheckpointFence(a) \/ CheckpointInsert(a)
  \/ StepFails(a) \/ ModelAnswers(a) \/ ModelCallsTools(a)
  \/ FindOperation(a) \/ RecordPending(a) \/ InsertRow(a)
  \/ InvokeTool(a) \/ \E answer \in Answers : SettleOperation(a, answer)
  \/ PersistTerminal(a) \/ WorkerGone(a)

Next ==
  \/ AcquireLease
  \/ \E a \in Attempts : Step(a)
  \/ FailExpiredLease
  \/ RecoverInterruptedRun

Spec == Init /\ [][Next]_vars

-----------------------------------------------------------------------------
IsWrite(c) == IdempotencyClass[c] \notin {"PURE", "READ_ONLY"}

(* The journal keeps attempts that hold the Run from repeating a write: of *)
(* all invocations of one operation that changes something, at most one    *)
(* was made by an attempt that held the Run at the time, whatever crashed, *)
(* was interrupted, or went on without its lease in between.  The          *)
(* exception is the invocation that is made although the journal has the   *)
(* operation as COMMITTED: the tool answered with a JSON null, which the   *)
(* journal keeps as no result.  (A worker that lost its lease between the  *)
(* lookup and the invocation may still repeat one: the journal is not      *)
(* fenced.)                                                                *)
OwnedWritesAtMostOnce ==
  \A e, f \in {g \in effects : g.owned /\ ~g.afterNull /\ IsWrite(g.call)} :
    Id[e.call] = Id[f.call] => e = f

(* No invocation made by an attempt that held the Run is ever forgotten:   *)
(* the latest checkpoint, from which the next attempt starts, holds its    *)
(* call, answered or pending, so a successor meets the journal's row       *)
(* rather than asking the model anew.  The exception is the checkpoint     *)
(* that an interrupted attempt inserts after it has passed the fence.      *)
EffectsAreCheckpointed ==
  \A e \in effects :
    e.owned => staleInsert \/ (checkpoint # None /\ e.call \in Known(checkpoint))

(* A call whose id another call with other arguments has too, of an        *)
(* operation that was invoked again under its row: a read, whose row the   *)
(* late answer of an interrupted attempt may set to FAILED after it was    *)
(* COMMITTED, or one that a tool answered with a JSON null.  The row is    *)
(* used for the other call, whose result it keeps under the arguments of   *)
(* the first.                                                              *)
IsAmbiguous(c) ==
  /\ \E d \in Calls : Id[d] = Id[c] /\ Fingerprint[d] # Fingerprint[c]
  /\ ~IsWrite(c) \/ \E e \in effects : Id[e.call] = Id[c] /\ e.afterNull

(* A result in a conversation was returned by an invocation of the same    *)
(* tool with the same arguments, in this attempt or, through the journal   *)
(* or a checkpoint, in an earlier one, even where the provider repeats the *)
(* ids of writes within a Run.  The exceptions: ids that repeat with other *)
(* arguments, of reads and of operations that were committed with a JSON   *)
(* null and invoked again; and a late checkpoint, which lets two attempts  *)
(* be at two calls of one id.                                              *)
ResultsAreOfTheirCalls ==
  staleInsert \/
  \A a \in Attempts, c \in Calls :
    loop[a].state.results[c] # 0 /\ ~IsAmbiguous(c) =>
      \E e \in effects :
        /\ e.attempt = loop[a].state.results[c]
        /\ Fingerprint[e.call] = Fingerprint[c]
=============================================================================
