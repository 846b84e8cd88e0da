--------------------------- MODULE RunStateMachine ---------------------------
(***************************************************************************)
(* What the domain layer promises about the status columns of Runs and     *)
(* RunAttempts, whoever writes them: a row is created in its initial       *)
(* status and then moves along the pairs of a fixed table.  The tables are *)
(* LEGAL_RUN_TRANSITION_PAIRS and its RunAttempt counterpart; every        *)
(* detailed specification of the execution path must implement this one.   *)
(***************************************************************************)
CONSTANTS Runs,      \* Run identifiers
          Attempts   \* RunAttempt identifiers

VARIABLES runStatus,      \* runStatus[r]: the status column of Run r
          attemptStatus   \* attemptStatus[a]: the status column of RunAttempt a

rsmVars == <<runStatus, attemptStatus>>

(* "ABSENT" stands for a row that has not been inserted. *)
Absent == "ABSENT"

TerminalRunStates == {"SUCCEEDED", "FAILED", "TIMED_OUT", "CANCELLED"}

RunStates ==
  {"PENDING", "QUEUED", "RUNNING", "INTERRUPTED"} \cup TerminalRunStates

LegalRunTransitions ==
  { <<"PENDING", "QUEUED">>,
    <<"QUEUED", "RUNNING">>,
    <<"RUNNING", "SUCCEEDED">>,
    <<"RUNNING", "INTERRUPTED">>,
    <<"INTERRUPTED", "QUEUED">>,
    <<"INTERRUPTED", "FAILED">>,
    <<"INTERRUPTED", "CANCELLED">>,
    <<"PENDING", "FAILED">>,
    <<"QUEUED", "CANCELLED">>,
    <<"RUNNING", "FAILED">>,
    <<"RUNNING", "TIMED_OUT">>,
    <<"RUNNING", "CANCELLED">> }

TerminalAttemptStates == {"SUCCEEDED", "FAILED", "TIMED_OUT", "CANCELLED"}

AttemptStates == {"PENDING", "RUNNING"} \cup TerminalAttemptStates

LegalAttemptTransitions ==
  { <<"PENDING", "RUNNING">>,
    <<"RUNNING", "SUCCEEDED">>,
    <<"RUNNING", "FAILED">>,
    <<"RUNNING", "TIMED_OUT">>,
    <<"RUNNING", "CANCELLED">>,
    <<"PENDING", "CANCELLED">> }

-----------------------------------------------------------------------------
RSMInit ==
  /\ runStatus = [r \in Runs |-> Absent]
  /\ attemptStatus = [a \in Attempts |-> Absent]

(* One row at most moves in each table: a Run and one of its attempts may  *)
(* move together, in one transaction.                                      *)
RunMoves ==
  \E r \in Runs, s \in RunStates :
    /\ \/ runStatus[r] = Absent /\ s = "PENDING"
       \/ <<runStatus[r], s>> \in LegalRunTransitions
    /\ runStatus' = [runStatus EXCEPT ![r] = s]

AttemptMoves ==
  \E a \in Attempts, s \in AttemptStates :
    /\ \/ attemptStatus[a] = Absent /\ s = "PENDING"
       \/ <<attemptStatus[a], s>> \in LegalAttemptTransitions
    /\ attemptStatus' = [attemptStatus EXCEPT ![a] = s]

RSMNext ==
  \/ RunMoves /\ AttemptMoves
  \/ RunMoves /\ UNCHANGED attemptStatus
  \/ AttemptMoves /\ UNCHANGED runStatus

RSMSpec == RSMInit /\ [][RSMNext]_rsmVars
=============================================================================
