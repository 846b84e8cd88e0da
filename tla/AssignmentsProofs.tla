-------------------------- MODULE AssignmentsProofs --------------------------
(* Proofs about Assignments for any numbers of assignments, requests,      *)
(* readers and faults.                                                     *)
EXTENDS Assignments, FiniteSetTheorems, TLAPS

USE AssignmentsAssumption

Executions == [of : Assignments \cup {None}, status : ExecutionStates]
RequestRecs == [at : Stages, assignment : Assignments \cup {None}, row : Rows]
Ends == {"SUCCEEDED", "FAILED", "CANCELLED"}

(* A row, or a copy of one as it was read, tells the truth about what it   *)
(* names: the end of an execution is final.                                *)
RowOK(a, row) ==
  /\ row.link # None => execution[row.link].of = a
  /\ row.status = "PENDING" => row.link = None
  /\ row.status = "RUNNING" => row.link # None
  /\ row.status = "COMPLETED" => row.link # None /\ execution[row.link].status = "SUCCEEDED"
  /\ row.status = "FAILED" => row.link # None /\ execution[row.link].status = "FAILED"
  /\ row.status = "CANCELLED" /\ row.link # None => execution[row.link].status = "CANCELLED"

(* A request that is at an assignment holds a copy of its row, or an       *)
(* execution of the assignment to link.                                    *)
RequestOK(r) ==
  /\ r.at \notin {"idle", "done"} => r.assignment \in Assignments
  /\ r.at \in {"find", "create", "cancel", "update", "reconcile"} => RowOK(r.assignment, r.row)
  /\ r.at = "cancel" => r.row.status = "PENDING"
  /\ r.at \in {"queue", "link"} =>
       r.row.link # None /\ execution[r.row.link].of = r.assignment

(* What a request has created by now. *)
CreatedOK(q, r) ==
  /\ r.at \in {"idle", "find", "create"} => execution[q] = NoExecution
  /\ r.at = "queue" => execution[q].status = "PENDING"
                       /\ TargetType[execution[q].of] = "AGENT_VERSION"

OneRun ==
  \A a \in Assignments : TargetType[a] = "AGENT_VERSION" =>
    \A x, y \in RunsOf(a) : x = y

IInv ==
  /\ TypeOK
  /\ \A a \in Assignments : RowOK(a, assignment[a])
  /\ \A q \in Handlers : RequestOK(request[q])
  /\ \A q \in Requests : CreatedOK(q, request[q])
  /\ OneRun

-----------------------------------------------------------------------------
(* Types *)

LEMMA HandlersAre ==
  /\ Requests \subseteq Handlers /\ Readers \subseteq Handlers
  /\ \A q \in Requests : q \notin Readers
BY DEF Handlers

LEMMA RecordsTyped ==
  ASSUME TypeOK
  PROVE  /\ assignment \in [Assignments -> Rows]
         /\ execution \in [Requests -> Executions]
         /\ request \in [Handlers -> RequestRecs]
         /\ \A q \in Requests : execution[q].status = "absent" <=> execution[q].of = None
BY DEF TypeOK, Executions, RequestRecs

LEMMA IdleTyped == NewRow \in Rows /\ Idle \in RequestRecs /\ NoExecution \in Executions
<1>1. FALSE \in BOOLEAN
  OBVIOUS
<1>2. NewRow \in Rows
  BY <1>1 DEF NewRow, Rows
<1>3. Idle \in RequestRecs
  BY <1>2 DEF Idle, RequestRecs, Stages
<1> QED BY <1>2, <1>3 DEF NoExecution, Executions, ExecutionStates

LEMMA FinishedTyped ==
  ASSUME NEW q \in Handlers
  PROVE  /\ Finished(q) \in RequestRecs
         /\ Finished(q).at \in {"idle", "done"}
         /\ q \in Requests => Finished(q).at = "done"
BY IdleTyped, HandlersAre DEF Finished, Idle, RequestRecs, Stages

LEMMA OneRequest ==
  ASSUME TypeOK, NEW q \in Handlers, NEW r \in RequestRecs, request' = [request EXCEPT ![q] = r]
  PROVE  /\ request' \in [Handlers -> RequestRecs]
         /\ request'[q] = r
         /\ \A p \in Handlers \ {q} : request'[p] = request[p]
BY RecordsTyped

-----------------------------------------------------------------------------
(* Rows outlast the steps of executions. *)

Keeps ==
  \A x \in Requests : execution[x].of # None =>
    /\ execution'[x].of = execution[x].of
    /\ execution[x].status \in Ends => execution'[x].status = execution[x].status

LEMMA RowKept ==
  ASSUME Keeps, NEW a \in Assignments, NEW row \in Rows, RowOK(a, row)
  PROVE  RowOK(a, row)'
<1>1. row.link # None => row.link \in Requests
  BY DEF Rows
<1> QED BY <1>1 DEF Keeps, RowOK, Ends

LEMMA RequestKept ==
  ASSUME Keeps, NEW r \in RequestRecs, RequestOK(r)
  PROVE  RequestOK(r)'
<1>1. r.row \in Rows /\ r.row.link \in Requests \cup {None}
  BY DEF RequestRecs, Rows
<1>2. ASSUME r.at \in {"queue", "link"}
      PROVE  execution'[r.row.link].of = r.assignment
  BY <1>1, <1>2 DEF Keeps, RequestOK
<1>3. ASSUME r.at \in {"find", "create", "cancel", "update", "reconcile"}
      PROVE  RowOK(r.assignment, r.row)'
  <2>1. r.assignment \in Assignments
    BY <1>3 DEF RequestOK
  <2> QED BY <1>1, <1>3, <2>1, RowKept DEF RequestOK
<1> QED BY <1>2, <1>3 DEF RequestOK

(* A step of one request. *)
LEMMA RequestStep ==
  ASSUME IInv, NEW q \in Handlers, NEW r \in RequestRecs, request' = [request EXCEPT ![q] = r],
         assignment' \in [Assignments -> Rows], execution' \in [Requests -> Executions],
         \A x \in Requests : execution'[x].status = "absent" <=> execution'[x].of = None,
         faults' \in 0 .. MaxFaults,
         Keeps, \A x \in Requests \ {q} : execution'[x] = execution[x],
         \A a \in Assignments : RowOK(a, assignment[a])',
         RequestOK(r)', q \in Requests => CreatedOK(q, r)', OneRun'
  PROVE  IInv'
<1>1. /\ request' \in [Handlers -> RequestRecs]
      /\ request'[q] = r
      /\ \A p \in Handlers \ {q} : request'[p] = request[p]
      /\ request \in [Handlers -> RequestRecs]
  BY OneRequest, RecordsTyped DEF IInv
<1>2. TypeOK'
  BY <1>1 DEF TypeOK, Executions, RequestRecs
<1>3. ASSUME NEW p \in Handlers PROVE RequestOK(request[p])'
  <2>1. CASE p = q
    BY <1>1, <2>1
  <2>2. CASE p # q
    <3>1. request[p] \in RequestRecs /\ RequestOK(request[p]) /\ request'[p] = request[p]
      BY <1>1, <2>2 DEF IInv
    <3>2. PICK s \in RequestRecs : s = request[p]
      BY <3>1
    <3>3. RequestOK(s)'
      BY <3>1, <3>2, RequestKept
    <3> QED BY <3>1, <3>2, <3>3 DEF RequestOK
  <2> QED BY <2>1, <2>2
<1>4. ASSUME NEW p \in Requests PROVE CreatedOK(p, request[p])'
  <2>1. CASE p = q
    BY <1>1, <2>1
  <2>2. CASE p # q
    BY <1>1, <2>2, HandlersAre DEF IInv, CreatedOK
  <2> QED BY <2>1, <2>2
<1> QED BY <1>2, <1>3, <1>4 DEF IInv

(* A step of one request that writes its assignment, or nothing. *)
LEMMA RowStep ==
  ASSUME IInv, NEW q \in Handlers, NEW r \in RequestRecs, request' = [request EXCEPT ![q] = r],
         NEW a \in Assignments, NEW w \in Rows, RowOK(a, w),
         assignment' = [assignment EXCEPT ![a] = w] \/ assignment' = assignment,
         execution' = execution, faults' \in 0 .. MaxFaults,
         RequestOK(r), q \in Requests => CreatedOK(q, r)
  PROVE  IInv'
<1>1. /\ TypeOK /\ assignment \in [Assignments -> Rows]
      /\ execution \in [Requests -> Executions]
      /\ \A x \in Requests : execution[x].status = "absent" <=> execution[x].of = None
  BY RecordsTyped DEF IInv
<1>2. assignment' \in [Assignments -> Rows] /\ Keeps
  BY <1>1 DEF Keeps
<1>3. \A b \in Assignments : RowOK(b, assignment'[b])
  BY <1>1 DEF IInv
<1>4. \A b \in Assignments : RowOK(b, assignment[b])'
  BY <1>3 DEF RowOK
<1>5. RequestOK(r)' /\ (q \in Requests => CreatedOK(q, r)')
  BY DEF RequestOK, RowOK, CreatedOK
<1>6. OneRun'
  BY DEF IInv, OneRun, RunsOf
<1> QED BY <1>1, <1>2, <1>4, <1>5, <1>6, RequestStep

(* A request moves on, or is over. *)
LEMMA MoveStep ==
  ASSUME IInv, NEW q \in Handlers, NEW r \in RequestRecs, request' = [request EXCEPT ![q] = r],
         UNCHANGED <<assignment, execution>>, faults' \in 0 .. MaxFaults,
         RequestOK(r), q \in Requests => CreatedOK(q, r)
  PROVE  IInv'
<1>1. /\ TypeOK /\ assignment \in [Assignments -> Rows]
      /\ execution \in [Requests -> Executions]
      /\ \A x \in Requests : execution[x].status = "absent" <=> execution[x].of = None
  BY RecordsTyped DEF IInv
<1>2. Keeps
  BY DEF Keeps
<1>3. \A b \in Assignments : RowOK(b, assignment[b])'
  BY DEF IInv, RowOK
<1>4. RequestOK(r)' /\ (q \in Requests => CreatedOK(q, r)')
  BY DEF RequestOK, RowOK, CreatedOK
<1>5. OneRun'
  BY DEF IInv, OneRun, RunsOf
<1> QED BY <1>1, <1>2, <1>3, <1>4, <1>5, RequestStep

LEMMA OverStep ==
  ASSUME IInv, NEW q \in Handlers, Go(q, "done"),
         UNCHANGED <<assignment, execution>>, faults' \in 0 .. MaxFaults
  PROVE  IInv'
<1>1. PICK r \in RequestRecs : r = Finished(q)
  BY FinishedTyped
<1>2. request' = [request EXCEPT ![q] = r] /\ RequestOK(r) /\ (q \in Requests => CreatedOK(q, r))
  BY <1>1, FinishedTyped DEF Go, RequestOK, CreatedOK
<1> QED BY <1>2, MoveStep

LEMMA OverWithRow ==
  ASSUME IInv, NEW q \in Handlers, Go(q, "done"), NEW a \in Assignments, NEW w \in Rows, RowOK(a, w),
         assignment' = [assignment EXCEPT ![a] = w] \/ assignment' = assignment,
         UNCHANGED <<execution, faults>>
  PROVE  IInv'
<1>1. PICK r \in RequestRecs : r = Finished(q)
  BY FinishedTyped
<1>2. request' = [request EXCEPT ![q] = r] /\ RequestOK(r) /\ (q \in Requests => CreatedOK(q, r))
  BY <1>1, FinishedTyped DEF Go, RequestOK, CreatedOK
<1>3. faults' \in 0 .. MaxFaults
  BY DEF IInv, TypeOK
<1> QED BY <1>2, <1>3, RowStep

-----------------------------------------------------------------------------
(* Actions *)

(* A row as it is read. *)
LEMMA StartInv ==
  ASSUME IInv, NEW q \in Handlers, NEW a \in Assignments, NEW at \in Stages, Start(q, a, at),
         at \in {"find", "cancel", "update", "reload", "done"},
         at = "cancel" => assignment[a].status = "PENDING"
  PROVE  IInv'
<1>1. faults' \in 0 .. MaxFaults /\ UNCHANGED <<assignment, execution>>
  BY DEF IInv, TypeOK, Start
<1>2. CASE at = "done"
  BY <1>1, <1>2, OverStep DEF Start, Go
<1>3. CASE at # "done"
  <2>1. assignment[a] \in Rows /\ RowOK(a, assignment[a])
    BY RecordsTyped DEF IInv
  <2>2. PICK w \in Rows : w = assignment[a]
    BY <2>1
  <2>3. [at |-> at, assignment |-> a, row |-> w] \in RequestRecs
    BY DEF RequestRecs
  <2>4. PICK r \in RequestRecs : r = [at |-> at, assignment |-> a, row |-> w]
    BY <2>3
  <2>5. request' = [request EXCEPT ![q] = r]
    BY <1>3, <2>2, <2>4 DEF Start
  <2>6. RequestOK(r)
    BY <1>3, <2>1, <2>2, <2>4 DEF RequestOK
  <2>7. request[q].at = "idle"
    BY DEF Start
  <2>8. q \in Requests => CreatedOK(q, r)
    BY <2>4, <2>7 DEF IInv, CreatedOK
  <2> QED BY <1>1, <2>5, <2>6, <2>8, MoveStep
<1> QED BY <1>2, <1>3

LEMMA StartsInv ==
  ASSUME IInv, NEW q \in Handlers, NEW a \in Assignments,
         StartLaunch(q, a) \/ StartCancel(q, a) \/ StartUpdate(q, a) \/ StartGet(q, a)
  PROVE  IInv'
<1>1. CASE StartLaunch(q, a)
  BY <1>1, StartInv DEF StartLaunch, Stages
<1>2. CASE StartCancel(q, a)
  BY <1>2, StartInv DEF StartCancel, Stages
<1>3. CASE StartUpdate(q, a)
  BY <1>3, StartInv DEF StartUpdate, Stages
<1>4. CASE StartGet(q, a)
  BY <1>4, StartInv DEF StartGet, Stages
<1> QED BY <1>1, <1>2, <1>3, <1>4

(* A request holds an execution of its assignment. *)
LEMMA HoldingTyped ==
  ASSUME IInv, NEW q \in Handlers, NEW x \in Requests, NEW at \in Stages, Holding(q, x, at)
  PROVE  \E r \in RequestRecs :
           /\ request' = [request EXCEPT ![q] = r]
           /\ r.at = at /\ r.row.link = x /\ r.assignment = request[q].assignment
<1>1. request[q] \in RequestRecs /\ request[q].row \in Rows /\ request \in [Handlers -> RequestRecs]
  BY RecordsTyped DEF IInv, RequestRecs
<1>2. [request[q].row EXCEPT !.link = x] \in Rows
  BY <1>1 DEF Rows
<1>3. PICK w \in Rows : w = [request[q].row EXCEPT !.link = x]
  BY <1>2
<1>4. [request[q] EXCEPT !.row = w, !.at = at] \in RequestRecs
  BY <1>1 DEF RequestRecs
<1>5. PICK r \in RequestRecs : r = [request[q] EXCEPT !.row = w, !.at = at]
  BY <1>4
<1>6. request' = [request EXCEPT ![q] = r]
  BY <1>1, <1>3, <1>5 DEF Holding
<1>7. r.at = at /\ r.row = w /\ r.assignment = request[q].assignment /\ w.link = x
  BY <1>1, <1>3, <1>5 DEF RequestRecs, Rows
<1> QED BY <1>6, <1>7

LEMMA GoTyped ==
  ASSUME IInv, NEW q \in Handlers, NEW at \in Stages \ {"done"}, Go(q, at)
  PROVE  \E r \in RequestRecs :
           /\ request' = [request EXCEPT ![q] = r]
           /\ r.at = at /\ r.row = request[q].row /\ r.assignment = request[q].assignment
<1>1. request[q] \in RequestRecs
  BY RecordsTyped DEF IInv
<1>2. [request[q] EXCEPT !.at = at] \in RequestRecs
  BY <1>1 DEF RequestRecs
<1>3. PICK r \in RequestRecs : r = [request[q] EXCEPT !.at = at]
  BY <1>2
<1>4. request' = [request EXCEPT ![q] = r]
  BY <1>3 DEF Go
<1> QED BY <1>1, <1>3, <1>4 DEF RequestRecs

LEMMA FoundIsOf ==
  ASSUME IInv, NEW q \in Handlers, request[q].at = "find", Found(q) # None
  PROVE  /\ Found(q) \in Requests
         /\ execution[Found(q)].of = request[q].assignment
<1> DEFINE a == request[q].assignment
<1>1. /\ RowOK(a, request[q].row) /\ a \in Assignments
      /\ request[q].row \in Rows
  BY RecordsTyped DEF IInv, RequestOK, RequestRecs
<1>2. CASE request[q].row.link # None
  BY <1>1, <1>2 DEF Found, RowOK, Rows
<1>3. CASE request[q].row.link = None
  <2>1. RunsOf(a) # {} /\ Found(q) = CHOOSE x \in RunsOf(a) : TRUE
    BY <1>3 DEF Found
  <2>2. Found(q) \in RunsOf(a)
    BY <2>1
  <2> QED BY <2>2 DEF RunsOf
<1> QED BY <1>2, <1>3

LEMMA FindInv ==
  ASSUME IInv, NEW q \in Requests, FindExecution(q)
  PROVE  IInv'
<1>1. faults' \in 0 .. MaxFaults /\ UNCHANGED <<assignment, execution>>
      /\ request[q].at = "find" /\ q \in Handlers
  BY HandlersAre DEF IInv, TypeOK, FindExecution
<1>2. RequestOK(request[q]) /\ CreatedOK(q, request[q])
  BY <1>1 DEF IInv
<1>3. CASE Found(q) # None
  <2>1. Found(q) \in Requests /\ execution[Found(q)].of = request[q].assignment
    BY <1>1, <1>3, FoundIsOf
  <2>2. Holding(q, Found(q), "link")
    BY <1>3 DEF FindExecution
  <2>3. PICK r \in RequestRecs :
           /\ request' = [request EXCEPT ![q] = r]
           /\ r.at = "link" /\ r.row.link = Found(q) /\ r.assignment = request[q].assignment
    BY <1>1, <2>1, <2>2, HoldingTyped DEF Stages
  <2>4. RequestOK(r) /\ CreatedOK(q, r)
    BY <1>1, <1>2, <1>3, <2>1, <2>3 DEF RequestOK, CreatedOK
  <2> QED BY <1>1, <2>3, <2>4, MoveStep
<1>4. CASE Found(q) = None
  <2>1. PICK r \in RequestRecs :
           /\ request' = [request EXCEPT ![q] = r]
           /\ r.at = "create" /\ r.row = request[q].row /\ r.assignment = request[q].assignment
    BY <1>1, <1>4, GoTyped DEF FindExecution, Stages
  <2>2. RequestOK(r) /\ CreatedOK(q, r)
    BY <1>1, <1>2, <2>1 DEF RequestOK, CreatedOK
  <2> QED BY <1>1, <2>1, <2>2, MoveStep
<1> QED BY <1>3, <1>4

LEMMA CreateInv ==
  ASSUME IInv, NEW q \in Requests, CreateExecution(q)
  PROVE  IInv'
<1>1. /\ faults' \in 0 .. MaxFaults /\ assignment' = assignment
      /\ request[q].at = "create" /\ q \in Handlers
      /\ request[q].assignment \in Assignments
      /\ execution[q] = NoExecution
  BY HandlersAre DEF IInv, TypeOK, CreateExecution, RequestOK, CreatedOK
<1>2. PICK a \in Assignments : a = request[q].assignment
  BY <1>1
<1>3. CASE MeetsExisting(q)
  <2>1. PICK x \in RunsOf(a) : Holding(q, x, "link")
    BY <1>2, <1>3 DEF CreateExecution
  <2>2. x \in Requests /\ execution[x].of = a
    BY DEF RunsOf
  <2>3. PICK r \in RequestRecs :
           /\ request' = [request EXCEPT ![q] = r]
           /\ r.at = "link" /\ r.row.link = x /\ r.assignment = a
    BY <1>1, <1>2, <2>1, <2>2, HoldingTyped DEF Stages
  <2>4. RequestOK(r) /\ CreatedOK(q, r)
    BY <2>2, <2>3 DEF RequestOK, CreatedOK
  <2> QED BY <1>1, <1>3, <2>3, <2>4, MoveStep DEF CreateExecution
<1>4. CASE ~MeetsExisting(q)
  <2>1. execution \in [Requests -> Executions]
        /\ \A x \in Requests : execution[x].status = "absent" <=> execution[x].of = None
    BY RecordsTyped DEF IInv
  <2>2. [of |-> a, status |-> "PENDING"] \in Executions
    BY DEF Executions, ExecutionStates
  <2>3. PICK e \in Executions : e = [of |-> a, status |-> "PENDING"]
    BY <2>2
  <2>4. e.of = a /\ e.status = "PENDING"
    BY <2>3
  <2>5. execution' = [execution EXCEPT ![q] = e]
    BY <1>2, <1>4, <2>3 DEF CreateExecution
  <2>6. /\ execution' \in [Requests -> Executions]
        /\ execution'[q] = e
        /\ \A x \in Requests \ {q} : execution'[x] = execution[x]
    BY <2>1, <2>5
  <2>7. Keeps
    BY <1>1, <2>6 DEF Keeps, NoExecution
  <2>8. PICK at \in {"queue", "link"} :
          /\ Holding(q, q, at)
          /\ at = "queue" => TargetType[a] = "AGENT_VERSION"
    <3>1. Holding(q, q, IF TargetType[a] = "AGENT_VERSION" THEN "queue" ELSE "link")
      BY <1>2, <1>4 DEF CreateExecution
    <3> QED BY <3>1
  <2>9. PICK r \in RequestRecs :
           /\ request' = [request EXCEPT ![q] = r]
           /\ r.at = at /\ r.row.link = q /\ r.assignment = a
    BY <1>1, <1>2, <2>8, HoldingTyped DEF Stages
  <2>10. RequestOK(r)'
    BY <2>4, <2>6, <2>8, <2>9 DEF RequestOK
  <2>11. CreatedOK(q, r)'
    BY <2>4, <2>6, <2>8, <2>9 DEF CreatedOK
  <2>12. \A b \in Assignments : RowOK(b, assignment[b])'
    <3>1. ASSUME NEW b \in Assignments PROVE RowOK(b, assignment[b])'
      <4>1. assignment[b] \in Rows /\ RowOK(b, assignment[b])
        BY RecordsTyped DEF IInv
      <4>2. PICK w \in Rows : w = assignment[b]
        BY <4>1
      <4>3. RowOK(b, w)'
        BY <2>7, <4>1, <4>2, RowKept
      <4> QED BY <1>1, <4>2, <4>3 DEF RowOK
    <3> QED BY <3>1
  <2>13. OneRun'
    <3>1. ASSUME NEW b \in Assignments, TargetType[b] = "AGENT_VERSION",
                 NEW x \in Requests, NEW y \in Requests,
                 execution'[x].of = b, execution'[y].of = b
          PROVE  x = y
      <4>1. CASE b = a
        <5>1. RunsOf(a) = {}
          BY <1>2, <1>4, <3>1, <4>1 DEF MeetsExisting
        <5>2. \A z \in Requests \ {q} : execution'[z].of # a
          BY <2>6, <5>1 DEF RunsOf
        <5> QED BY <3>1, <4>1, <5>2
      <4>2. CASE b # a
        <5>1. x # q /\ y # q
          BY <2>4, <2>6, <3>1, <4>2
        <5> QED BY <2>6, <3>1, <5>1 DEF IInv, OneRun, RunsOf
      <4> QED BY <4>1, <4>2
    <3> QED BY <3>1 DEF OneRun, RunsOf
  <2>14. assignment' \in [Assignments -> Rows]
    BY <1>1, RecordsTyped DEF IInv
  <2>15. \A x \in Requests : execution'[x].status = "absent" <=> execution'[x].of = None
    BY <2>1, <2>4, <2>6
  <2> QED BY <1>1, <2>6, <2>7, <2>9, <2>10, <2>11, <2>12, <2>13, <2>14, <2>15, RequestStep
<1> QED BY <1>3, <1>4

(* One execution goes on. *)
LEMMA ExecutionGoesOn ==
  ASSUME IInv, NEW x \in Requests, execution[x].status \in {"PENDING", "ACTIVE"},
         NEW s \in ExecutionStates \ {"absent"},
         execution' = [execution EXCEPT ![x].status = s], assignment' = assignment
  PROVE  /\ execution' \in [Requests -> Executions]
         /\ execution'[x].of = execution[x].of /\ execution'[x].status = s
         /\ \A y \in Requests \ {x} : execution'[y] = execution[y]
         /\ \A y \in Requests : execution'[y].status = "absent" <=> execution'[y].of = None
         /\ Keeps
         /\ \A a \in Assignments : RowOK(a, assignment[a])'
         /\ OneRun'
<1>1. /\ execution \in [Requests -> Executions] /\ execution[x] \in Executions
      /\ \A y \in Requests : execution[y].status = "absent" <=> execution[y].of = None
  BY RecordsTyped DEF IInv
<1>2. [execution[x] EXCEPT !.status = s] \in Executions
  BY <1>1 DEF Executions
<1>3. PICK e \in Executions : e = [execution[x] EXCEPT !.status = s]
  BY <1>2
<1>4. execution' = [execution EXCEPT ![x] = e]
  BY <1>1, <1>3
<1>5. e.of = execution[x].of /\ e.status = s
  BY <1>1, <1>3 DEF Executions
<1>6. /\ execution' \in [Requests -> Executions]
      /\ execution'[x] = e
      /\ \A y \in Requests \ {x} : execution'[y] = execution[y]
  BY <1>1, <1>4
<1>7. Keeps
  BY <1>5, <1>6 DEF Keeps, Ends
<1>8. ASSUME NEW a \in Assignments PROVE RowOK(a, assignment[a])'
  <2>1. assignment[a] \in Rows /\ RowOK(a, assignment[a])
    BY RecordsTyped DEF IInv
  <2>2. PICK w \in Rows : w = assignment[a]
    BY <2>1
  <2>3. RowOK(a, w)'
    BY <1>7, <2>1, <2>2, RowKept
  <2> QED BY <2>2, <2>3 DEF RowOK
<1>9. OneRun'
  <2>1. \A y \in Requests : execution'[y].of = execution[y].of
    BY <1>5, <1>6
  <2> QED BY <2>1 DEF IInv, OneRun, RunsOf
<1>10. \A y \in Requests : execution'[y].status = "absent" <=> execution'[y].of = None
  BY <1>1, <1>5, <1>6
<1> QED BY <1>5, <1>6, <1>7, <1>8, <1>9, <1>10

LEMMA QueueInv ==
  ASSUME IInv, NEW q \in Requests, QueueRun(q)
  PROVE  IInv'
<1>1. /\ faults' \in 0 .. MaxFaults /\ assignment' = assignment
      /\ request[q].at = "queue" /\ q \in Handlers
      /\ RequestOK(request[q]) /\ request[q] \in RequestRecs
      /\ execution[q].status = "PENDING"
  BY HandlersAre, RecordsTyped DEF IInv, TypeOK, QueueRun, CreatedOK
<1>2. /\ execution' \in [Requests -> Executions]
      /\ \A y \in Requests \ {q} : execution'[y] = execution[y]
      /\ \A y \in Requests : execution'[y].status = "absent" <=> execution'[y].of = None
      /\ Keeps
      /\ \A a \in Assignments : RowOK(a, assignment[a])'
      /\ OneRun'
  BY <1>1, ExecutionGoesOn DEF QueueRun, ExecutionStates
<1>3. PICK r \in RequestRecs :
           /\ request' = [request EXCEPT ![q] = r]
           /\ r.at = "link" /\ r.row = request[q].row /\ r.assignment = request[q].assignment
  BY <1>1, GoTyped DEF QueueRun, Stages
<1>4. RequestOK(r)
  BY <1>1, <1>3 DEF RequestOK
<1>5. RequestOK(r)' /\ CreatedOK(q, r)'
  BY <1>2, <1>3, <1>4, RequestKept DEF CreatedOK
<1>6. assignment' \in [Assignments -> Rows]
  BY <1>1, RecordsTyped DEF IInv
<1> QED BY <1>1, <1>2, <1>3, <1>5, <1>6, RequestStep

(* Executions go on by themselves. *)
LEMMA ExecutionInv ==
  ASSUME IInv, NEW x \in Requests,
         WorkflowStarts(x) \/ \E outcome \in Ends : ExecutionEnds(x, outcome)
  PROVE  IInv'
<1>1. PICK s \in ExecutionStates \ {"absent"} : execution' = [execution EXCEPT ![x].status = s]
  BY DEF WorkflowStarts, ExecutionEnds, Ends, ExecutionStates
<1>2. /\ execution[x].status \in {"PENDING", "ACTIVE"}
      /\ execution[x].status = "PENDING" => TargetType[execution[x].of] # "AGENT_VERSION"
      /\ UNCHANGED <<assignment, request, faults>>
  BY DEF WorkflowStarts, ExecutionEnds
<1>3. /\ execution' \in [Requests -> Executions]
      /\ \A y \in Requests \ {x} : execution'[y] = execution[y]
      /\ \A y \in Requests : execution'[y].status = "absent" <=> execution'[y].of = None
      /\ Keeps
      /\ \A a \in Assignments : RowOK(a, assignment[a])'
      /\ OneRun'
  BY <1>1, <1>2, ExecutionGoesOn
<1>4. TypeOK'
  BY <1>2, <1>3 DEF IInv, TypeOK, Executions
<1>5. ASSUME NEW q \in Handlers PROVE RequestOK(request[q])'
  <2>1. request[q] \in RequestRecs /\ RequestOK(request[q])
    BY RecordsTyped DEF IInv
  <2>2. PICK r \in RequestRecs : r = request[q]
    BY <2>1
  <2>3. RequestOK(r)'
    BY <1>3, <2>1, <2>2, RequestKept
  <2> QED BY <1>2, <2>2, <2>3 DEF RequestOK, RowOK
<1>6. ASSUME NEW q \in Requests PROVE CreatedOK(q, request[q])'
  <2>1. CreatedOK(q, request[q])
    BY DEF IInv
  <2>2. CASE q = x
    <3>1. request[q].at \notin {"idle", "find", "create", "queue"}
      BY <1>2, <2>1, <2>2 DEF CreatedOK, NoExecution
    <3> QED BY <1>2, <3>1 DEF CreatedOK
  <2>3. CASE q # x
    BY <1>2, <1>3, <2>1, <2>3 DEF CreatedOK
  <2> QED BY <2>2, <2>3
<1> QED BY <1>3, <1>4, <1>5, <1>6 DEF IInv

(* What a stage may have at hand. *)
LEMMA AtHand ==
  ASSUME IInv, NEW q \in Handlers, request[q].at \notin {"idle", "done"}
  PROVE  /\ request[q].assignment \in Assignments
         /\ request[q].row \in Rows
         /\ assignment[request[q].assignment] \in Rows
         /\ RowOK(request[q].assignment, assignment[request[q].assignment])
         /\ RequestOK(request[q])
         /\ faults \in 0 .. MaxFaults
BY RecordsTyped DEF IInv, TypeOK, RequestOK, RequestRecs

LEMMA LinkInv ==
  ASSUME IInv, NEW q \in Requests, LinkExecution(q)
  PROVE  IInv'
<1>1. q \in Handlers /\ request[q].at = "link"
  BY HandlersAre DEF LinkExecution
<1>2. PICK a \in Assignments : a = request[q].assignment
  BY <1>1, AtHand
<1>3. /\ request[q].row.link # None /\ execution[request[q].row.link].of = a
      /\ request[q].row.link \in Requests
  BY <1>1, <1>2, AtHand DEF RequestOK, Rows
<1>4. [status |-> "RUNNING", link |-> request[q].row.link, started |-> TRUE] \in Rows
  BY <1>3 DEF Rows
<1>5. PICK w \in Rows : w = [status |-> "RUNNING", link |-> request[q].row.link, started |-> TRUE]
  BY <1>4
<1>6. RowOK(a, w)
  BY <1>3, <1>5 DEF RowOK
<1>7. UNCHANGED <<execution, faults>>
  BY DEF LinkExecution
<1>8. CASE Go(q, "done") /\ assignment' = assignment
  BY <1>1, <1>7, <1>8, AtHand, OverStep
<1>9. CASE Go(q, "reload") /\ assignment' = [assignment EXCEPT ![a] = w]
  <2>1. PICK r \in RequestRecs :
           /\ request' = [request EXCEPT ![q] = r]
           /\ r.at = "reload" /\ r.row = request[q].row /\ r.assignment = request[q].assignment
    BY <1>1, <1>9, GoTyped DEF Stages
  <2>2. RequestOK(r) /\ CreatedOK(q, r)
    BY <1>2, <2>1 DEF RequestOK, CreatedOK
  <2>3. faults' \in 0 .. MaxFaults
    BY <1>7 DEF IInv, TypeOK
  <2> QED BY <1>1, <1>6, <1>7, <1>9, <2>1, <2>2, <2>3, RowStep
<1> QED BY <1>2, <1>5, <1>8, <1>9 DEF LinkExecution, TransitionAssignment, UpdateRow, Written

LEMMA CancelInv ==
  ASSUME IInv, NEW q \in Requests, CancelAssignment(q)
  PROVE  IInv'
<1>1. q \in Handlers /\ request[q].at = "cancel"
  BY HandlersAre DEF CancelAssignment
<1>2. PICK a \in Assignments : a = request[q].assignment
  BY <1>1, AtHand
<1>3. request[q].row \in Rows /\ request[q].row.link = None
  BY <1>1, AtHand DEF RequestOK, RowOK
<1>4. [request[q].row EXCEPT !.status = "CANCELLED"] \in Rows
  BY <1>3 DEF Rows, Terminal
<1>5. PICK w \in Rows : w = [request[q].row EXCEPT !.status = "CANCELLED"]
  BY <1>4
<1>6. RowOK(a, w)
  BY <1>3, <1>5 DEF RowOK, Rows
<1>7. UNCHANGED <<execution, faults>>
  BY DEF CancelAssignment
<1>8. Go(q, "done")
      /\ (assignment' = assignment \/ assignment' = [assignment EXCEPT ![a] = w])
  BY <1>2, <1>5 DEF CancelAssignment, TransitionAssignment, Written
<1> QED BY <1>1, <1>6, <1>7, <1>8, OverWithRow

LEMMA UpdateInv ==
  ASSUME IInv, NEW q \in Requests, UpdateAssignment(q)
  PROVE  IInv'
<1>1. q \in Handlers /\ request[q].at = "update"
  BY HandlersAre DEF UpdateAssignment
<1>2. PICK a \in Assignments : a = request[q].assignment
  BY <1>1, AtHand
<1>3. request[q].row \in Rows /\ RowOK(a, request[q].row)
  BY <1>1, <1>2, AtHand DEF RequestOK
<1>4. PICK w \in Rows : w = request[q].row
  BY <1>3
<1> QED BY <1>1, <1>2, <1>3, <1>4, OverWithRow DEF UpdateAssignment, UpdateRow

LEMMA ReloadInv ==
  ASSUME IInv, NEW q \in Handlers, Reload(q)
  PROVE  IInv'
<1>1. /\ request[q].at = "reload" /\ UNCHANGED <<assignment, execution, faults>>
      /\ request[q] \in RequestRecs /\ request \in [Handlers -> RequestRecs]
  BY RecordsTyped DEF Reload, IInv
<1>2. PICK w \in Rows : w = assignment[request[q].assignment]
  BY <1>1, AtHand
<1>3. [request[q] EXCEPT !.at = "reconcile", !.row = w] \in RequestRecs
  BY <1>1 DEF RequestRecs, Stages
<1>4. PICK r \in RequestRecs : r = [request[q] EXCEPT !.at = "reconcile", !.row = w]
  BY <1>3
<1>5. request' = [request EXCEPT ![q] = r]
  BY <1>1, <1>2, <1>4 DEF Reload
<1>6. r.at = "reconcile" /\ r.row = w /\ r.assignment = request[q].assignment
  BY <1>1, <1>4 DEF RequestRecs
<1>7. RequestOK(r) /\ CreatedOK(q, r)
  BY <1>1, <1>2, <1>6, AtHand DEF RequestOK, CreatedOK
<1> QED BY <1>1, <1>5, <1>7, AtHand, MoveStep

LEMMA ReconcileInv ==
  ASSUME IInv, NEW q \in Handlers, ReconcileAssignment(q)
  PROVE  IInv'
<1>1. request[q].at = "reconcile" /\ UNCHANGED <<execution, faults>>
  BY DEF ReconcileAssignment
<1>2. PICK a \in Assignments : a = request[q].assignment
  BY <1>1, AtHand
<1>3. request[q].row \in Rows /\ RowOK(a, request[q].row)
  BY <1>1, <1>2, AtHand DEF RequestOK
<1>4. CASE request[q].row.status \in Terminal \/ DeriveStatus(request[q].row) = request[q].row.status
  BY <1>1, <1>4, AtHand, OverStep DEF ReconcileAssignment
<1>5. CASE ~(request[q].row.status \in Terminal \/ DeriveStatus(request[q].row) = request[q].row.status)
  <2> DEFINE row == request[q].row
             s == DeriveStatus(row)
             x == row.link
  <2>1. x # None /\ x \in Requests
    BY <1>3, <1>5 DEF DeriveStatus, Rows
  <2>2. execution[x].of = a /\ execution[x].status \in ExecutionStates \ {"absent"}
    <3>1. execution[x].of = a
      BY <1>3, <2>1 DEF RowOK
    <3> QED BY <2>1, <3>1, RecordsTyped DEF IInv, Executions
  <2>3. /\ s \in {"RUNNING"} \cup Terminal
        /\ s = "COMPLETED" => execution[x].status = "SUCCEEDED"
        /\ s = "FAILED" => execution[x].status = "FAILED"
        /\ s = "CANCELLED" => execution[x].status = "CANCELLED"
    BY <2>1, <2>2 DEF DeriveStatus, Terminal, ExecutionStates
  <2> HIDE DEF s
  <2>4. [row EXCEPT !.status = s] \in Rows
    BY <1>3, <2>3 DEF Rows
  <2>5. PICK w \in Rows : w = [row EXCEPT !.status = s]
    BY <2>4
  <2>6. w.status = s /\ w.link = x
    BY <1>3, <2>5 DEF Rows
  <2>7. RowOK(a, w)
    BY <2>1, <2>2, <2>3, <2>6 DEF RowOK, Terminal
  <2>8. Go(q, "done")
        /\ (assignment' = assignment \/ assignment' = [assignment EXCEPT ![a] = w])
    BY <1>2, <1>5, <2>5 DEF ReconcileAssignment, TransitionAssignment, Written, s
  <2> QED BY <1>1, <2>7, <2>8, OverWithRow
<1> QED BY <1>4, <1>5

LEMMA DiesInv ==
  ASSUME IInv, NEW q \in Handlers, RequestDies(q)
  PROVE  IInv'
<1>1. faults' \in 0 .. MaxFaults
  BY DEF IInv, TypeOK, RequestDies
<1> QED BY <1>1, OverStep DEF RequestDies

LEMMA InitInv == Init => IInv
<1> SUFFICES ASSUME Init PROVE IInv
  OBVIOUS
<1>1. TypeOK
  <2>1. \A q \in Requests : execution[q] = NoExecution
    BY DEF Init
  <2> QED BY <2>1, IdleTyped DEF Init, TypeOK, Executions, RequestRecs, NoExecution
<1>2. \A a \in Assignments : RowOK(a, assignment[a])
  BY DEF Init, RowOK, NewRow
<1>3. \A q \in Handlers : RequestOK(request[q])
  BY DEF Init, RequestOK, Idle
<1>4. \A q \in Requests : CreatedOK(q, request[q])
  BY HandlersAre DEF Init, CreatedOK, Idle
<1>5. OneRun
  BY DEF Init, OneRun, RunsOf, NoExecution
<1> QED BY <1>1, <1>2, <1>3, <1>4, <1>5 DEF IInv

LEMMA NextInv == IInv /\ [Next]_vars => IInv'
<1> SUFFICES ASSUME IInv, [Next]_vars PROVE IInv'
  OBVIOUS
<1>1. ASSUME NEW q \in Requests, NEW a \in Assignments,
             StartLaunch(q, a) \/ StartCancel(q, a) \/ StartUpdate(q, a)
      PROVE  IInv'
  BY <1>1, HandlersAre, StartsInv
<1>2. ASSUME NEW q \in Requests, Launch(q) \/ CancelAssignment(q) \/ UpdateAssignment(q)
      PROVE  IInv'
  BY <1>2, FindInv, CreateInv, QueueInv, LinkInv, CancelInv, UpdateInv DEF Launch
<1>3. ASSUME NEW q \in Requests,
             WorkflowStarts(q) \/ \E outcome \in {"SUCCEEDED", "FAILED", "CANCELLED"} : ExecutionEnds(q, outcome)
      PROVE  IInv'
  BY <1>3, ExecutionInv DEF Ends
<1>4. ASSUME NEW q \in Readers, NEW a \in Assignments, StartGet(q, a)
      PROVE  IInv'
  BY <1>4, HandlersAre, StartsInv
<1>5. ASSUME NEW q \in Handlers, Reconcile(q) \/ RequestDies(q)
      PROVE  IInv'
  BY <1>5, ReloadInv, ReconcileInv, DiesInv DEF Reconcile
<1>6. CASE UNCHANGED vars
  BY <1>6 DEF IInv, TypeOK, RowOK, RequestOK, CreatedOK, OneRun, RunsOf, vars
<1> QED BY <1>1, <1>2, <1>3, <1>4, <1>5, <1>6 DEF Next

(* Rows, executions and requests are always of their types. *)
THEOREM AssignmentsTyped == Spec => []TypeOK
<1>1. IInv => TypeOK
  BY DEF IInv
<1> QED BY <1>1, InitInv, NextInv, PTL DEF Spec

(* An assignment ends the way the execution that it names did, whatever    *)
(* rows launches, edits and reconciliations write over one another.        *)
THEOREM OutcomeIsAlwaysOfLinked == Spec => []OutcomeIsOfLinked
<1>1. IInv => OutcomeIsOfLinked
  BY DEF IInv, RowOK, OutcomeIsOfLinked
<1> QED BY <1>1, InitInv, NextInv, PTL DEF Spec

(* An agent's assignment has at most one Run, which is the only one its    *)
(* row ever names (the key assignment:<id> of LaunchAssignment).           *)
THEOREM AgentRunsOnce == Spec => []OneAgentRun
<1>1. ASSUME IInv PROVE OneAgentRun
  <2>1. ASSUME NEW a \in Assignments, TargetType[a] = "AGENT_VERSION"
        PROVE  /\ Cardinality(RunsOf(a)) <= 1
               /\ assignment[a].link \in RunsOf(a) \cup {None}
    <3>1. \A x, y \in RunsOf(a) : x = y
      BY <1>1, <2>1 DEF IInv, OneRun
    <3>2. Cardinality(RunsOf(a)) <= 1
      <4>1. CASE RunsOf(a) = {}
        BY <4>1, FS_EmptySet
      <4>2. CASE RunsOf(a) # {}
        <5>1. PICK x \in RunsOf(a) : TRUE
          BY <4>2
        <5>2. RunsOf(a) = {x}
          BY <3>1, <5>1
        <5> QED BY <5>2, FS_Singleton
      <4> QED BY <4>1, <4>2
    <3>3. assignment[a].link \in RunsOf(a) \cup {None}
      <4>1. assignment[a] \in Rows /\ RowOK(a, assignment[a])
        BY <1>1, RecordsTyped DEF IInv
      <4> QED BY <4>1 DEF Rows, RowOK, RunsOf
    <3> QED BY <3>2, <3>3
  <2> QED BY <2>1 DEF OneAgentRun
<1> QED BY <1>1, InitInv, NextInv, PTL DEF Spec
=============================================================================
