-------------------------- MODULE BackupOutcomeProofs --------------------------
(***************************************************************************)
(* Theorems about what BackupPlatform leaves in the jobs table, as long as *)
(* no user cancels: a row has one writer at a time, although save() takes  *)
(* no lock, because the worker refuses a job whose QUEUED it has not seen. *)
(* The invariant says what request and execution know about the row; with  *)
(* a cancellation it fails (CancelledRunStaysCancelled).                   *)
(***************************************************************************)
EXTENDS BackupPlatformProofs

QueuedRow == [status |-> "QUEUED", by |-> NoUser, queueId |-> TRUE,
              total |-> 0, completed |-> 0, failed |-> 0]
RunningRow == [status |-> "RUNNING", by |-> NoUser, queueId |-> TRUE,
               total |-> 0, completed |-> 0, failed |-> 0]

\* The counters of an execution with n targets; they stay 0 up to the first result.
Counts(e, n) ==
    /\ e.total = n \/ (e.total = 0 /\ e.completed = 0 /\ e.failed = 0)
    /\ e.completed + e.failed <= n

AddsUp(r) ==
    /\ r.status = "SUCCESS" => r.failed = 0 /\ r.completed = r.total
    /\ r.status = "FAILED" => r.completed = 0 /\ r.failed = r.total /\ r.total > 0
    /\ r.status = "PARTIAL_SUCCESS" =>
          r.completed > 0 /\ r.failed > 0 /\ r.completed + r.failed = r.total

\* What the request of j knows about the row.
RequestSees(j) ==
    /\ pc[Req(j)] \in {"idle", "locked"} => row[j] = NoRow
    /\ pc[Req(j)] \in {"created", "fetched", "enqueued", "saving"} => row[j] = NewRow
    /\ pc[Req(j)] \in {"fetched", "enqueued"} => ent[Req(j)] = NewRow
    /\ pc[Req(j)] = "saving" => ent[Req(j)] = QueuedRow /\ orm[Req(j)] = NewRow
    /\ pc[Req(j)] = "saved" => row[j].queueId

\* What the execution of j knows about the row.
ExecSees(j) ==
    LET e == ent[Exe(j)] IN
    /\ pc[Exe(j)] \in {"idle", "lookup", "lock", "begin"} => row[j] \in {NoRow, NewRow, QueuedRow}
    /\ pc[Exe(j)] \in {"lock", "begin"} /\ e.status = "QUEUED" => e = QueuedRow /\ row[j] = QueuedRow
    /\ pc[Exe(j)] = "beginSave" => row[j] = QueuedRow /\ orm[Exe(j)] = QueuedRow /\ e = RunningRow
    /\ pc[Exe(j)] = "resolve" => row[j] = RunningRow /\ e = RunningRow
    /\ pc[Exe(j)] \in {"loop", "dump"} =>
          row[j] = e /\ e.status = "RUNNING" /\ e.queueId /\ Counts(e, targets[j])
    /\ pc[Exe(j)] = "dump" => Remaining(j) > 0
    /\ pc[Exe(j)] = "progressSave" =>
          /\ orm[Exe(j)] = row[j] /\ row[j].status = "RUNNING" /\ row[j].queueId
          /\ e.status = "RUNNING" /\ e.queueId
          /\ e.total = targets[j] /\ e.total > 0 /\ e.completed + e.failed <= e.total
    /\ pc[Exe(j)] = "finalSave" =>
          /\ orm[Exe(j)] = row[j] /\ row[j].status = "RUNNING" /\ row[j].queueId
          /\ e.queueId /\ AddsUp(e)
          /\ e.total = row[j].total /\ e.completed = row[j].completed /\ e.failed = row[j].failed
    /\ pc[Exe(j)] = "audit" => row[j] = e

\* What the audit log says about the row.
LogAgrees(j) ==
    /\ "JOB_QUEUED" \in audit[j] => row[j].queueId
    /\ "BACKUP_STARTED" \in audit[j] => row[j].status \in {"RUNNING"} \cup Terminal
    /\ \A t \in audit[j] \cap Terminal : row[j].status = t

JobInv(j) == RequestSees(j) /\ ExecSees(j) /\ LogAgrees(j) /\ AddsUp(row[j])

OutcomeInv == \A j \in Jobs : JobInv(j)

\* How the status column may move.
StatusMoves(from, to) ==
    from = to \/ (from = "NONE" /\ to = "PENDING") \/ CanTransition(from, to)

-----------------------------------------------------------------------------
\* Rows with the same columns are the same row.
LEMMA SameRow ==
  ASSUME NEW r \in Row, NEW e \in Row,
         r.status = e.status, r.by = e.by, r.queueId = e.queueId,
         r.total = e.total, r.completed = e.completed, r.failed = e.failed
  PROVE  r = e
<1>1. r = [status |-> r.status, by |-> r.by, queueId |-> r.queueId,
           total |-> r.total, completed |-> r.completed, failed |-> r.failed]
  BY DEF Row
<1>2. e = [status |-> e.status, by |-> e.by, queueId |-> e.queueId,
           total |-> e.total, completed |-> e.completed, failed |-> e.failed]
  BY DEF Row
<1>. QED BY <1>1, <1>2

\* A save whose SELECT returned the row as it still is leaves exactly the entity
\* behind (SQLJobRepository.save).
LEMMA SaveReplaces ==
  ASSUME NEW r \in Row, NEW e \in Row,
         e.total = 0 => r.total = e.total /\ r.completed = e.completed /\ r.failed = e.failed
  PROVE  Merged(r, r, e) = e
<1> DEFINE m == Merged(r, r, e)
<1>1. m.status = e.status /\ m.by = e.by /\ m.queueId = e.queueId
  BY DEF Merged, Column
<1>2. m.total = e.total /\ m.completed = e.completed /\ m.failed = e.failed
  BY DEF Merged, Column
<1>3. m \in Row
  BY MergedType
<1>. HIDE DEF m
<1>4. m = e
  BY <1>1, <1>2, <1>3, SameRow
<1>. QED BY <1>4 DEF m

\* The columns of the rows that the invariant names.
LEMMA NamedRows ==
  /\ \A r \in {NoRow, NewRow, QueuedRow, RunningRow} :
        r \in Row /\ r.by = NoUser /\ r.total = 0 /\ r.completed = 0 /\ r.failed = 0
  /\ NoRow.status = "NONE" /\ NewRow.status = "PENDING"
  /\ QueuedRow.status = "QUEUED" /\ RunningRow.status = "RUNNING"
  /\ ~NoRow.queueId /\ ~NewRow.queueId /\ QueuedRow.queueId /\ RunningRow.queueId
<1>1. NoRow \in Row /\ NewRow \in Row /\ QueuedRow \in Row /\ RunningRow \in Row
  BY NoRowType DEF QueuedRow, RunningRow, Row, JobStatus
<1>2. /\ NoRow.by = NoUser /\ NoRow.total = 0 /\ NoRow.completed = 0 /\ NoRow.failed = 0
      /\ NoRow.status = "NONE" /\ NoRow.queueId = FALSE
  BY DEF NoRow
<1>3. /\ NewRow.by = NoUser /\ NewRow.total = 0 /\ NewRow.completed = 0 /\ NewRow.failed = 0
      /\ NewRow.status = "PENDING" /\ NewRow.queueId = FALSE
  BY DEF NoRow, NewRow
<1>4. /\ QueuedRow.by = NoUser /\ QueuedRow.total = 0 /\ QueuedRow.completed = 0
      /\ QueuedRow.failed = 0 /\ QueuedRow.status = "QUEUED" /\ QueuedRow.queueId = TRUE
  BY DEF QueuedRow
<1>5. /\ RunningRow.by = NoUser /\ RunningRow.total = 0 /\ RunningRow.completed = 0
      /\ RunningRow.failed = 0 /\ RunningRow.status = "RUNNING" /\ RunningRow.queueId = TRUE
  BY DEF RunningRow
<1>. QED BY <1>1, <1>2, <1>3, <1>4, <1>5

\* The two changes that lead from one named row to the next.
LEMMA NamedChanges ==
  /\ [NewRow EXCEPT !.status = "QUEUED", !.queueId = TRUE] = QueuedRow
  /\ [QueuedRow EXCEPT !.status = "RUNNING"] = RunningRow
<1> DEFINE q == [NewRow EXCEPT !.status = "QUEUED", !.queueId = TRUE]
           r == [QueuedRow EXCEPT !.status = "RUNNING"]
<1>1. q \in Row /\ r \in Row
  BY NamedRows, EntityType, ColumnType DEF JobStatus
<1>2. q = QueuedRow
  <2>1. q.status = "QUEUED" /\ q.queueId = TRUE /\ q.by = NoUser
        /\ q.total = 0 /\ q.completed = 0 /\ q.failed = 0
    BY NamedRows DEF Row
  <2>. HIDE DEF q
  <2>. QED BY <1>1, <2>1, NamedRows, SameRow DEF QueuedRow
<1>3. r = RunningRow
  <2>1. r.status = "RUNNING" /\ r.queueId = TRUE /\ r.by = NoUser
        /\ r.total = 0 /\ r.completed = 0 /\ r.failed = 0
    BY NamedRows DEF QueuedRow
  <2>. HIDE DEF r
  <2>. QED BY <1>1, <2>1, NamedRows, SameRow DEF RunningRow
<1>. QED BY <1>2, <1>3

\* The step of a request leaves everything of other jobs, and of its execution.
LEMMA RequestFrame ==
  ASSUME TypeOK, NEW k \in Jobs, RequestNext(k)
  PROVE  /\ targets' = targets
         /\ \A s \in Sessions : s # Req(k) =>
               pc'[s] = pc[s] /\ ent'[s] = ent[s] /\ orm'[s] = orm[s]
         /\ \A j \in Jobs : j # k => row'[j] = row[j] /\ audit'[j] = audit[j]
<1>1. \A s \in Sessions : s # Req(k) => pc'[s] = pc[s] /\ ent'[s] = ent[s]
  BY RequestLocal
<1>. Req(k) \in Sessions /\ orm \in [Sessions -> Row] /\ row \in [Jobs -> Row]
     /\ audit \in [Jobs -> SUBSET AuditEvents]
  BY SessionsType DEF TypeOK
<1>2. \A s \in Sessions : s # Req(k) => orm'[s] = orm[s]
  BY DEF RequestNext, RequestStep, RequestDeny, RequestLock, RequestRefuse, RequestCreate,
     RequestFetch, RequestEnqueue, RequestMarkQueued, RequestMarkQueuedRaises, RequestSave,
     RequestFinish, RequestReply, RequestRaise, SaveLoad, SaveWrite, Forget, memory
<1>3. targets' = targets
  BY DEF RequestNext, RequestStep, RequestDeny, RequestLock, RequestRefuse, RequestCreate,
     RequestFetch, RequestEnqueue, RequestMarkQueued, RequestMarkQueuedRaises, RequestSave,
     RequestFinish, RequestReply, RequestRaise, horse
<1>4. \A j \in Jobs : j # k => row'[j] = row[j] /\ audit'[j] = audit[j]
  BY DEF RequestNext, RequestStep, RequestDeny, RequestLock, RequestRefuse, RequestCreate,
     RequestFetch, RequestEnqueue, RequestMarkQueued, RequestMarkQueuedRaises, RequestSave,
     RequestFinish, RequestReply, RequestRaise, SaveWrite, Log, store
<1>. QED BY <1>1, <1>2, <1>3, <1>4

\* The step of an execution leaves everything of other jobs, and of its request.
LEMMA ExecFrame ==
  ASSUME TypeOK, NEW k \in Jobs, ExecNext(k)
  PROVE  /\ \A s \in Sessions : s # Exe(k) =>
               pc'[s] = pc[s] /\ ent'[s] = ent[s] /\ orm'[s] = orm[s]
         /\ \A j \in Jobs : j # k =>
               row'[j] = row[j] /\ audit'[j] = audit[j] /\ targets'[j] = targets[j]
<1>1. \A s \in Sessions : s # Exe(k) => pc'[s] = pc[s] /\ ent'[s] = ent[s]
  BY ExecLocal
<1>. Exe(k) \in Sessions /\ orm \in [Sessions -> Row] /\ row \in [Jobs -> Row]
     /\ audit \in [Jobs -> SUBSET AuditEvents] /\ targets \in [Jobs -> Nat]
  BY SessionsType DEF TypeOK
<1>2. \A s \in Sessions : s # Exe(k) => orm'[s] = orm[s]
  BY DEF ExecNext, ExecStep, Dispatch, ExecLookup, ExecLock, ExecBegin, ExecBeginRaises,
     ExecBeginSave, ExecResolve, ExecDump, ExecCollected, ExecProgressSave, ExecFinalize,
     ExecFinalSave, ExecAudit, ExecNotify, ExecRelease, ExecRaise, ExecAlert, ExecTimeout,
     HorseKill, Sigterm, SaveLoad, SaveWrite, Forget, ForgetHorse, memory
<1>3. \A j \in Jobs : j # k => row'[j] = row[j] /\ audit'[j] = audit[j]
  BY DEF ExecNext, ExecStep, Dispatch, ExecLookup, ExecLock, ExecBegin, ExecBeginRaises,
     ExecBeginSave, ExecResolve, ExecDump, ExecCollected, ExecProgressSave, ExecFinalize,
     ExecFinalSave, ExecAudit, ExecNotify, ExecRelease, ExecRaise, ExecAlert, ExecTimeout,
     HorseKill, Sigterm, SaveWrite, Log, store
<1>4. \A j \in Jobs : j # k => targets'[j] = targets[j]
  BY DEF ExecNext, ExecStep, Dispatch, ExecLookup, ExecLock, ExecBegin, ExecBeginRaises,
     ExecBeginSave, ExecResolve, ExecDump, ExecCollected, ExecProgressSave, ExecFinalize,
     ExecFinalSave, ExecAudit, ExecNotify, ExecRelease, ExecRaise, ExecAlert, ExecTimeout,
     HorseKill, Sigterm, ForgetHorse, horse
<1>. QED BY <1>1, <1>2, <1>3, <1>4

-----------------------------------------------------------------------------
\* Whose row, audit entries, targets and sessions stay, keeps what is known.
LEMMA FrameKeeps ==
  ASSUME NEW j \in Jobs,
         row'[j] = row[j], targets'[j] = targets[j],
         pc'[Exe(j)] = pc[Exe(j)], ent'[Exe(j)] = ent[Exe(j)], orm'[Exe(j)] = orm[Exe(j)],
         ExecSees(j)
  PROVE  ExecSees(j)'
  BY DEF ExecSees, Remaining

\* The same for what the request knows.
LEMMA RequestFrameKeeps ==
  ASSUME NEW j \in Jobs, row'[j] = row[j],
         pc'[Req(j)] = pc[Req(j)], ent'[Req(j)] = ent[Req(j)], orm'[Req(j)] = orm[Req(j)],
         RequestSees(j)
  PROVE  RequestSees(j)'
  BY DEF RequestSees

\* A step of the request of j: the row is created, then queued, and nobody else
\* writes it meanwhile.
LEMMA RequestOutcome ==
  ASSUME TypeOK, OutcomeDecided, NEW j \in Jobs, JobInv(j), RequestNext(j)
  PROVE  JobInv(j)' /\ StatusMoves(row[j].status, row'[j].status)
<1>. /\ Req(j) \in Sessions /\ Exe(j) \in Sessions /\ Req(j) # Exe(j)
     /\ pc \in [Sessions -> Pcs] /\ ent \in [Sessions -> Row] /\ orm \in [Sessions -> Row]
     /\ row \in [Jobs -> Row] /\ audit \in [Jobs -> SUBSET AuditEvents]
  BY SessionsType, SessionsDistinct DEF TypeOK
<1>1. /\ targets' = targets /\ pc'[Exe(j)] = pc[Exe(j)]
      /\ ent'[Exe(j)] = ent[Exe(j)] /\ orm'[Exe(j)] = orm[Exe(j)]
  BY RequestFrame
<1>2. ASSUME row'[j] = row[j], RequestSees(j)', LogAgrees(j)'
      PROVE  JobInv(j)' /\ StatusMoves(row[j].status, row'[j].status)
  BY <1>1, <1>2, FrameKeeps DEF JobInv, AddsUp, StatusMoves
<1>3. CASE RequestCreate(j)
  <2>1. /\ row[j] = NoRow /\ row'[j] = NewRow /\ pc'[Req(j)] = "created"
        /\ audit' = audit
    BY <1>3 DEF RequestCreate, Goto, JobInv, RequestSees
  <2>2. RequestSees(j)'
    BY <2>1 DEF RequestSees
  <2>3. pc[Exe(j)] \notin {"beginSave", "resolve", "loop", "dump", "progressSave", "finalSave", "audit"}
    BY <2>1, NamedRows DEF JobInv, ExecSees, OutcomeDecided, Terminal
  <2>4. ExecSees(j)'
    BY <1>1, <2>1, <2>3, NamedRows DEF JobInv, ExecSees
  <2>5. LogAgrees(j)'
    BY <2>1, NamedRows DEF JobInv, LogAgrees, Terminal
  <2>6. AddsUp(row[j])'
    BY <2>1, NamedRows DEF AddsUp
  <2>. QED BY <2>1, <2>2, <2>4, <2>5, <2>6, NamedRows DEF JobInv, StatusMoves
<1>4. CASE RequestSave(j)
  <2>1. /\ row[j] = NewRow /\ pc'[Req(j)] = "saved" /\ audit' = audit
        /\ row'[j] = Merged(NewRow, NewRow, QueuedRow)
    BY <1>4 DEF RequestSave, SaveWrite, Goto, JobInv, RequestSees
  <2>2. row'[j] = QueuedRow
    BY <2>1, SaveReplaces, NamedRows
  <2>3. RequestSees(j)'
    BY <2>1, <2>2, NamedRows DEF RequestSees
  <2>4. pc[Exe(j)] \notin {"beginSave", "resolve", "loop", "dump", "progressSave", "finalSave", "audit"}
    BY <2>1, NamedRows DEF JobInv, ExecSees, OutcomeDecided, Terminal
  <2>5. ExecSees(j)'
    BY <1>1, <2>1, <2>2, <2>4, NamedRows DEF JobInv, ExecSees
  <2>6. LogAgrees(j)'
    BY <2>1, <2>2, NamedRows DEF JobInv, LogAgrees, Terminal
  <2>7. AddsUp(row[j])'
    BY <2>2, NamedRows DEF AddsUp
  <2>8. StatusMoves(row[j].status, row'[j].status)
    BY <2>1, <2>2, NamedRows DEF StatusMoves, CanTransition, ValidTransitions
  <2>. QED BY <2>3, <2>5, <2>6, <2>7, <2>8 DEF JobInv
<1>5. CASE RequestFetch(j)
  <2>1. RequestSees(j)'
    BY <1>5 DEF RequestFetch, Goto, JobInv, RequestSees
  <2>2. audit'[j] = audit[j] \cup {"BACKUP_REQUESTED"} /\ row' = row
    BY <1>5 DEF RequestFetch, Log
  <2>3. LogAgrees(j)'
    BY <2>2 DEF JobInv, LogAgrees, Terminal
  <2>. QED BY <1>2, <2>1, <2>2, <2>3
<1>6. CASE RequestEnqueue(j)
  <2>1. pc[Req(j)] = "fetched" /\ pc'[Req(j)] = "enqueued"
    BY <1>6 DEF RequestEnqueue, Goto
  <2>2. row' = row /\ ent' = ent /\ audit' = audit
    BY <1>6 DEF RequestEnqueue, memory, store
  <2>3. RequestSees(j)'
    BY <2>1, <2>2 DEF JobInv, RequestSees
  <2>4. LogAgrees(j)'
    BY <2>2 DEF JobInv, LogAgrees
  <2>. QED BY <1>2, <2>2, <2>3, <2>4
<1>7. CASE RequestMarkQueued(j)
  <2>1. /\ pc[Req(j)] = "enqueued" /\ pc'[Req(j)] = "saving"
        /\ row' = row /\ audit' = audit
        /\ orm'[Req(j)] = row[j]
        /\ ent'[Req(j)] = [ent[Req(j)] EXCEPT !.status = "QUEUED", !.queueId = TRUE]
    BY <1>7 DEF RequestMarkQueued, Goto, SaveLoad, store
  <2>2. ent[Req(j)] = NewRow /\ row[j] = NewRow
    BY <2>1 DEF JobInv, RequestSees
  <2>3. ent'[Req(j)] = QueuedRow
    BY <2>1, <2>2, NamedChanges
  <2>4. RequestSees(j)'
    BY <2>1, <2>2, <2>3 DEF RequestSees
  <2>5. LogAgrees(j)'
    BY <2>1 DEF JobInv, LogAgrees
  <2>. QED BY <1>2, <2>1, <2>4, <2>5
<1>8. CASE RequestFinish(j)
  <2>1. /\ pc[Req(j)] = "saved" /\ pc'[Req(j)] = "reply" /\ row' = row
        /\ audit'[j] = audit[j] \cup {"JOB_QUEUED"}
    BY <1>8 DEF RequestFinish, Goto, Log
  <2>2. RequestSees(j)'
    BY <2>1 DEF RequestSees
  <2>3. LogAgrees(j)'
    BY <2>1 DEF JobInv, LogAgrees, RequestSees, Terminal
  <2>. QED BY <1>2, <2>1, <2>2, <2>3
<1>9. CASE RequestLock(j)
  <2>1. /\ row' = row /\ audit' = audit
        /\ pc[Req(j)] = "idle" /\ pc'[Req(j)] \in {"locked", "failed"}
    BY <1>9 DEF RequestLock, Goto, store
  <2>2. RequestSees(j)' /\ LogAgrees(j)'
    BY <2>1 DEF JobInv, RequestSees, LogAgrees
  <2>. QED BY <1>2, <2>1, <2>2
<1>10. CASE RequestDeny(j) \/ RequestRefuse(j) \/ RequestMarkQueuedRaises(j) \/ RequestReply(j)
            \/ RequestRaise(j)
  <2>1. row' = row /\ audit' = audit /\ pc'[Req(j)] \in {"failed", "done"}
    BY <1>10 DEF RequestDeny, RequestRefuse, RequestMarkQueuedRaises, RequestReply, RequestRaise,
       Goto, store
  <2>2. RequestSees(j)' /\ LogAgrees(j)'
    BY <2>1 DEF JobInv, RequestSees, LogAgrees
  <2>. QED BY <1>2, <2>1, <2>2
<1>. QED
  BY <1>3, <1>4, <1>5, <1>6, <1>7, <1>8, <1>9, <1>10 DEF RequestNext, RequestStep

\* A save of the execution while the request is past its own: the row becomes what
\* the execution has, and its status moves as the entity's did.
LEMMA ExecSaveOutcome ==
  ASSUME TypeOK, NEW j \in Jobs, JobInv(j), ExecNext(j), SaveWrite(Exe(j), j), UNCHANGED audit,
         orm[Exe(j)] = row[j], row[j].queueId, ent[Exe(j)].queueId,
         \/ CanTransition(row[j].status, ent[Exe(j)].status)
         \/ row[j].status = "RUNNING" /\ ent[Exe(j)].status = "RUNNING",
         ent[Exe(j)].total = 0 =>
           /\ row[j].total = ent[Exe(j)].total
           /\ row[j].completed = ent[Exe(j)].completed
           /\ row[j].failed = ent[Exe(j)].failed
  PROVE  /\ row'[j] = ent[Exe(j)]
         /\ RequestSees(j)' /\ LogAgrees(j)'
         /\ StatusMoves(row[j].status, row'[j].status)
<1>. /\ Req(j) \in Sessions /\ Exe(j) \in Sessions /\ Req(j) # Exe(j)
     /\ ent[Exe(j)] \in Row /\ row[j] \in Row /\ row \in [Jobs -> Row]
  BY SessionsType, SessionsDistinct DEF TypeOK
<1>1. row'[j] = Merged(row[j], row[j], ent[Exe(j)])
  BY DEF SaveWrite
<1>2. row'[j] = ent[Exe(j)]
  BY <1>1, SaveReplaces
<1>3. row[j] # NoRow /\ row[j] # NewRow
  BY NamedRows
<1>4. pc'[Req(j)] = pc[Req(j)]
  BY ExecFrame
<1>5. RequestSees(j)'
  BY <1>2, <1>3, <1>4 DEF JobInv, RequestSees
<1>6. row[j].status \notin Terminal
        /\ (row[j].status = "RUNNING" => ent[Exe(j)].status \in {"RUNNING"} \cup Terminal)
  BY DEF CanTransition, ValidTransitions, Terminal
<1>7. LogAgrees(j)'
  BY <1>2, <1>6 DEF JobInv, LogAgrees
<1>. QED BY <1>2, <1>5, <1>7 DEF StatusMoves

\* A collection counts as completed or as failed, and nothing else of the entity
\* changes but the total.
LEMMA CollectedColumns ==
  ASSUME TypeOK, NEW j \in Jobs, ExecCollected(j)
  PROVE  /\ ent'[Exe(j)].status = ent[Exe(j)].status
         /\ ent'[Exe(j)].queueId = ent[Exe(j)].queueId
         /\ ent'[Exe(j)].total = targets[j]
         /\ \/ /\ ent'[Exe(j)].completed = ent[Exe(j)].completed + 1
               /\ ent'[Exe(j)].failed = ent[Exe(j)].failed
            \/ /\ ent'[Exe(j)].completed = ent[Exe(j)].completed
               /\ ent'[Exe(j)].failed = ent[Exe(j)].failed + 1
<1> DEFINE e == ent[Exe(j)]
           t == [e EXCEPT !.total = targets[j]]
           f == ent'[Exe(j)]
<1>. ent \in [Sessions -> Row] /\ Exe(j) \in Sessions /\ e \in Row /\ targets[j] \in Nat
  BY SessionsType DEF TypeOK
<1>1. f = [t EXCEPT !.completed = @ + 1] \/ f = [t EXCEPT !.failed = @ + 1]
  BY DEF ExecCollected, SaveLoad
<1>2. /\ t \in Row /\ t.status = e.status /\ t.queueId = e.queueId /\ t.total = targets[j]
      /\ t.completed = e.completed /\ t.failed = e.failed
  BY DEF Row
<1>. HIDE DEF t, f
<1>3. /\ f.status = t.status /\ f.queueId = t.queueId /\ f.total = t.total
      /\ \/ f.completed = t.completed + 1 /\ f.failed = t.failed
         \/ f.completed = t.completed /\ f.failed = t.failed + 1
  BY <1>1, <1>2 DEF Row
<1>4. f.status = e.status /\ f.queueId = e.queueId /\ f.total = targets[j]
  BY <1>2, <1>3
<1>5. \/ f.completed = e.completed + 1 /\ f.failed = e.failed
      \/ f.completed = e.completed /\ f.failed = e.failed + 1
  BY <1>2, <1>3
<1>. QED BY <1>4, <1>5 DEF f

\* How _finalize_job's status follows from the counters of a loop that ended.
LEMMA FinalStatusAddsUp ==
  ASSUME NEW n \in Nat, NEW e \in Row, Counts(e, n),
         NEW st, st = FinalStatus(n - e.completed - e.failed > 0, n, e.failed)
  PROVE  /\ st = "SUCCESS" => e.failed = 0 /\ e.completed = e.total
         /\ st = "FAILED" => e.completed = 0 /\ e.failed = e.total /\ e.total > 0
         /\ st = "PARTIAL_SUCCESS" =>
               e.completed > 0 /\ e.failed > 0 /\ e.completed + e.failed = e.total
<1>. e.total \in Nat /\ e.completed \in Nat /\ e.failed \in Nat
  BY DEF Row
<1>1. CASE n - e.completed - e.failed > 0
  BY <1>1 DEF FinalStatus
<1>2. CASE ~(n - e.completed - e.failed > 0)
  <2>1. CASE n > 0 /\ e.failed = n
    BY <1>2, <2>1 DEF FinalStatus, Counts
  <2>2. CASE e.failed > 0 /\ e.failed # n
    BY <1>2, <2>2 DEF FinalStatus, Counts
  <2>3. CASE ~(n > 0 /\ e.failed = n) /\ ~(e.failed > 0 /\ e.failed # n)
    <3>1. st = "SUCCESS"
      BY <1>2, <2>3 DEF FinalStatus
    <3>2. e.failed = 0 /\ e.completed = e.total
      BY <1>2, <2>3 DEF Counts
    <3>. QED BY <3>1, <3>2
  <2>. QED BY <2>1, <2>2, <2>3
<1>. QED BY <1>1, <1>2

\* A step of the execution of j: it saves what it counted, in the order of the
\* state machine, and logs what it saved.
LEMMA ExecOutcome ==
  ASSUME TypeOK, OutcomeDecided, NEW j \in Jobs, JobInv(j), ExecNext(j)
  PROVE  JobInv(j)' /\ StatusMoves(row[j].status, row'[j].status)
<1>. /\ Req(j) \in Sessions /\ Exe(j) \in Sessions /\ Req(j) # Exe(j)
     /\ pc \in [Sessions -> Pcs] /\ ent \in [Sessions -> Row] /\ orm \in [Sessions -> Row]
     /\ row \in [Jobs -> Row] /\ audit \in [Jobs -> SUBSET AuditEvents]
     /\ targets \in [Jobs -> Nat] /\ ent[Exe(j)] \in Row /\ row[j] \in Row
  BY SessionsType, SessionsDistinct DEF TypeOK
<1>1. /\ pc'[Req(j)] = pc[Req(j)] /\ ent'[Req(j)] = ent[Req(j)] /\ orm'[Req(j)] = orm[Req(j)]
  BY ExecFrame
<1>2. ASSUME row'[j] = row[j], ExecSees(j)', LogAgrees(j)'
      PROVE  JobInv(j)' /\ StatusMoves(row[j].status, row'[j].status)
  BY <1>1, <1>2, RequestFrameKeeps DEF JobInv, AddsUp, StatusMoves
<1>3. ASSUME row'[j] = row[j], audit'[j] = audit[j], ExecSees(j)'
      PROVE  JobInv(j)' /\ StatusMoves(row[j].status, row'[j].status)
  BY <1>2, <1>3 DEF JobInv, LogAgrees
<1>4. CASE Dispatch(j)
  <2>1. pc[Exe(j)] = "idle" /\ pc'[Exe(j)] = "lookup" /\ row' = row /\ audit' = audit
    BY <1>4 DEF Dispatch, Goto, store
  <2>2. ExecSees(j)'
    BY <2>1 DEF JobInv, ExecSees
  <2>. QED BY <1>3, <2>1, <2>2
<1>5. CASE ExecLookup(j)
  <2>1. /\ pc[Exe(j)] = "lookup" /\ pc'[Exe(j)] = "lock" /\ row' = row /\ audit' = audit
        /\ ent'[Exe(j)] = row[j]
    BY <1>5 DEF ExecLookup, Goto, store
  <2>2. ExecSees(j)'
    BY <2>1, NamedRows DEF JobInv, ExecSees
  <2>. QED BY <1>3, <2>1, <2>2
<1>6. CASE ExecLock(j)
  <2>1. /\ pc[Exe(j)] = "lock" /\ pc'[Exe(j)] \in {"begin", "alert"}
        /\ row' = row /\ audit' = audit /\ ent' = ent
    BY <1>6 DEF ExecLock, Goto, store, memory
  <2>2. ExecSees(j)'
    BY <2>1 DEF JobInv, ExecSees
  <2>. QED BY <1>3, <2>1, <2>2
<1>7. CASE ExecBegin(j)
  <2>1. /\ pc[Exe(j)] = "begin" /\ pc'[Exe(j)] = "beginSave" /\ row' = row /\ audit' = audit
        /\ ent'[Exe(j)] = [ent[Exe(j)] EXCEPT !.status = "RUNNING"]
        /\ orm'[Exe(j)] = row[j]
        /\ CanTransition(ent[Exe(j)].status, "RUNNING")
    BY <1>7 DEF ExecBegin, Goto, SaveLoad, store
  <2>2. ent[Exe(j)].status = "QUEUED"
    BY <2>1 DEF CanTransition, ValidTransitions, Terminal
  <2>3. ent[Exe(j)] = QueuedRow /\ row[j] = QueuedRow
    BY <2>1, <2>2 DEF JobInv, ExecSees
  <2>4. ent'[Exe(j)] = RunningRow
    BY <2>1, <2>3, NamedChanges
  <2>5. ExecSees(j)'
    BY <2>1, <2>3, <2>4 DEF ExecSees
  <2>. QED BY <1>3, <2>1, <2>5
<1>8. CASE ExecBeginSave(j)
  <2>1. /\ pc[Exe(j)] = "beginSave" /\ pc'[Exe(j)] = "resolve" /\ ent' = ent
        /\ SaveWrite(Exe(j), j) /\ audit' = audit
    BY <1>8 DEF ExecBeginSave, Goto
  <2>2. row[j] = QueuedRow /\ orm[Exe(j)] = QueuedRow /\ ent[Exe(j)] = RunningRow
    BY <2>1 DEF JobInv, ExecSees
  <2>3. CanTransition(row[j].status, ent[Exe(j)].status)
    BY <2>2, NamedRows DEF CanTransition, ValidTransitions
  <2>4. /\ row'[j] = RunningRow /\ RequestSees(j)' /\ LogAgrees(j)'
        /\ StatusMoves(row[j].status, row'[j].status)
    BY <2>1, <2>2, <2>3, NamedRows, ExecSaveOutcome
  <2>5. ExecSees(j)'
    BY <2>1, <2>2, <2>4 DEF ExecSees
  <2>6. AddsUp(row[j])'
    BY <2>4, NamedRows DEF AddsUp
  <2>. QED BY <2>4, <2>5, <2>6 DEF JobInv
<1>9. CASE ExecResolve(j)
  <2>1. /\ pc[Exe(j)] = "resolve" /\ pc'[Exe(j)] = "loop" /\ row' = row /\ ent' = ent
        /\ audit'[j] = audit[j] \cup {"BACKUP_STARTED"} /\ targets'[j] \in Nat
    BY <1>9, TypeStep DEF ExecResolve, Goto, Log, memory, TypeOK
  <2>2. row[j] = RunningRow /\ ent[Exe(j)] = RunningRow
    BY <2>1 DEF JobInv, ExecSees
  <2>3. ExecSees(j)'
    BY <2>1, <2>2, NamedRows DEF ExecSees, Counts
  <2>4. LogAgrees(j)'
    BY <2>1, <2>2, NamedRows DEF JobInv, LogAgrees, Terminal
  <2>. QED BY <1>2, <2>1, <2>3, <2>4
<1>10. CASE ExecDump(j)
  <2>1. /\ pc[Exe(j)] = "loop" /\ pc'[Exe(j)] = "dump" /\ row' = row /\ audit' = audit
        /\ ent' = ent /\ targets' = targets /\ Remaining(j) > 0
    BY <1>10 DEF ExecDump, Goto, store, memory, horse
  <2>2. ExecSees(j)'
    BY <2>1 DEF JobInv, ExecSees, Remaining
  <2>. QED BY <1>3, <2>1, <2>2
<1>11. CASE ExecCollected(j)
  <2> DEFINE e == ent[Exe(j)]
             f == ent'[Exe(j)]
  <2>1. /\ pc[Exe(j)] = "dump" /\ pc'[Exe(j)] = "progressSave" /\ row' = row /\ audit' = audit
        /\ targets' = targets /\ orm'[Exe(j)] = row[j]
    BY <1>11 DEF ExecCollected, Goto, SaveLoad, store, horse
  <2>2. /\ row[j] = e /\ e.status = "RUNNING" /\ e.queueId /\ Counts(e, targets[j])
        /\ targets[j] - e.completed - e.failed > 0
    BY <2>1 DEF JobInv, ExecSees, Remaining
  <2>3. e.completed \in Nat /\ e.failed \in Nat /\ targets[j] \in Nat
    BY DEF Row
  <2>4. /\ f.status = e.status /\ f.queueId = e.queueId /\ f.total = targets[j]
        /\ \/ f.completed = e.completed + 1 /\ f.failed = e.failed
           \/ f.completed = e.completed /\ f.failed = e.failed + 1
    BY <1>11, CollectedColumns
  <2>. HIDE DEF f
  <2>5. /\ f.status = "RUNNING" /\ f.queueId /\ f.total = targets[j] /\ f.total > 0
        /\ f.completed + f.failed <= f.total
    BY <2>2, <2>3, <2>4
  <2>6. ExecSees(j)'
    BY <2>1, <2>2, <2>5 DEF ExecSees, f
  <2>. QED BY <1>3, <2>1, <2>6
<1>12. CASE ExecProgressSave(j)
  <2>1. /\ pc[Exe(j)] = "progressSave" /\ pc'[Exe(j)] = "loop" /\ ent' = ent
        /\ SaveWrite(Exe(j), j) /\ audit' = audit /\ targets' = targets
    BY <1>12 DEF ExecProgressSave, Goto, horse
  <2>2. /\ orm[Exe(j)] = row[j] /\ row[j].status = "RUNNING" /\ row[j].queueId
        /\ ent[Exe(j)].status = "RUNNING" /\ ent[Exe(j)].queueId
        /\ ent[Exe(j)].total = targets[j] /\ ent[Exe(j)].total > 0
        /\ ent[Exe(j)].completed + ent[Exe(j)].failed <= ent[Exe(j)].total
    BY <2>1 DEF JobInv, ExecSees
  <2>3. /\ row'[j] = ent[Exe(j)] /\ RequestSees(j)' /\ LogAgrees(j)'
        /\ StatusMoves(row[j].status, row'[j].status)
    BY <2>1, <2>2, ExecSaveOutcome
  <2>4. ExecSees(j)'
    BY <2>1, <2>2, <2>3 DEF ExecSees, Counts
  <2>5. AddsUp(row[j])'
    BY <2>2, <2>3 DEF AddsUp
  <2>. QED BY <2>3, <2>4, <2>5 DEF JobInv
<1>13. CASE ExecFinalize(j)
  <2> DEFINE e == ent[Exe(j)]
             st == FinalStatus(targets[j] - e.completed - e.failed > 0, targets[j], e.failed)
             f == ent'[Exe(j)]
  <2>1. /\ pc[Exe(j)] = "loop" /\ pc'[Exe(j)] = "finalSave" /\ row' = row /\ audit' = audit
        /\ orm'[Exe(j)] = row[j]
        /\ f.status = st /\ f.queueId = e.queueId
        /\ f.total = e.total /\ f.completed = e.completed /\ f.failed = e.failed
    BY <1>13 DEF ExecFinalize, Remaining, Goto, SaveLoad, store, Row
  <2>2. row[j] = e /\ e.status = "RUNNING" /\ e.queueId /\ Counts(e, targets[j])
    BY <2>1 DEF JobInv, ExecSees
  <2>. HIDE DEF f
  <2>3. AddsUp(f)
    BY <2>1, <2>2, FinalStatusAddsUp DEF AddsUp
  <2>4. ExecSees(j)'
    BY <2>1, <2>2, <2>3 DEF ExecSees, f
  <2>. QED BY <1>3, <2>1, <2>4
<1>14. CASE ExecFinalSave(j)
  <2>1. /\ pc[Exe(j)] = "finalSave" /\ pc'[Exe(j)] = "audit" /\ ent' = ent
        /\ SaveWrite(Exe(j), j) /\ audit' = audit
    BY <1>14 DEF ExecFinalSave, Goto
  <2>2. /\ orm[Exe(j)] = row[j] /\ row[j].status = "RUNNING" /\ row[j].queueId
        /\ ent[Exe(j)].queueId
        /\ ent[Exe(j)].total = row[j].total /\ ent[Exe(j)].completed = row[j].completed
        /\ ent[Exe(j)].failed = row[j].failed
    BY <2>1 DEF JobInv, ExecSees
  <2>3. AddsUp(ent[Exe(j)])
    BY <2>1 DEF JobInv, ExecSees
  <2>4. CanTransition(row[j].status, ent[Exe(j)].status)
    BY <2>1, <2>2 DEF OutcomeDecided, CanTransition, ValidTransitions
  <2>5. /\ row'[j] = ent[Exe(j)] /\ RequestSees(j)' /\ LogAgrees(j)'
        /\ StatusMoves(row[j].status, row'[j].status)
    BY <2>1, <2>2, <2>4, ExecSaveOutcome
  <2>6. ExecSees(j)'
    BY <2>1, <2>5 DEF ExecSees
  <2>7. AddsUp(row[j])'
    BY <2>3, <2>5 DEF AddsUp
  <2>. QED BY <2>5, <2>6, <2>7 DEF JobInv
<1>15. CASE ExecAudit(j)
  <2>1. /\ pc[Exe(j)] = "audit" /\ pc'[Exe(j)] = "notify" /\ row' = row
        /\ audit'[j] = audit[j] \cup {ent[Exe(j)].status}
    BY <1>15 DEF ExecAudit, Goto, Log
  <2>2. row[j] = ent[Exe(j)] /\ ent[Exe(j)].status \in Terminal
    BY <2>1 DEF JobInv, ExecSees, OutcomeDecided
  <2>3. ExecSees(j)'
    BY <2>1 DEF ExecSees
  <2>4. LogAgrees(j)'
    BY <2>1, <2>2 DEF JobInv, LogAgrees, Terminal
  <2>. QED BY <1>2, <2>1, <2>3, <2>4
<1>16. CASE ExecBeginRaises(j) \/ ExecNotify(j) \/ ExecRelease(j) \/ ExecRaise(j) \/ ExecAlert(j)
            \/ ExecTimeout(j) \/ HorseKill(j)
  <2>1. /\ pc'[Exe(j)] \in {"alert", "release", "done", "failed", "dead"}
        /\ row' = row /\ audit' = audit
    BY <1>16 DEF ExecBeginRaises, ExecNotify, ExecRelease, ExecRaise, ExecAlert, ExecTimeout,
       HorseKill, Goto, store
  <2>2. ExecSees(j)'
    BY <2>1 DEF ExecSees
  <2>. QED BY <1>3, <2>1, <2>2
<1>17. CASE Sigterm(j)
  <2>1. /\ row' = row /\ audit' = audit /\ pc' = pc /\ ent' = ent /\ orm' = orm
        /\ targets' = targets
    BY <1>17 DEF Sigterm, store, memory
  <2>2. ExecSees(j)'
    BY <2>1, FrameKeeps DEF JobInv
  <2>. QED BY <1>3, <2>1, <2>2
<1>. QED
  BY <1>4, <1>5, <1>6, <1>7, <1>8, <1>9, <1>10, <1>11, <1>12, <1>13, <1>14, <1>15, <1>16, <1>17
  DEF ExecNext, ExecStep

-----------------------------------------------------------------------------
\* Without cancellations every step keeps the invariant, and changes one row at
\* most, whose status moves as the state machine allows.
LEMMA OutcomeInvStep ==
  ASSUME Cancellers = {}, TypeOK, OutcomeDecided, OutcomeInv, [Next]_vars
  PROVE  /\ OutcomeInv'
         /\ \/ \A i \in Jobs : row'[i] = row[i]
            \/ \E j \in Jobs : /\ StatusMoves(row[j].status, row'[j].status)
                               /\ \A i \in Jobs : i # j => row'[i] = row[i]
<1>. \A j \in Jobs : Req(j) \in Sessions /\ Exe(j) \in Sessions
  BY SessionsType
<1>1. ASSUME NEW j \in Jobs, row'[j] = row[j], audit'[j] = audit[j], targets'[j] = targets[j],
             pc'[Exe(j)] = pc[Exe(j)], ent'[Exe(j)] = ent[Exe(j)], orm'[Exe(j)] = orm[Exe(j)],
             RequestSees(j)'
      PROVE  JobInv(j)'
  <2>1. ExecSees(j)'
    BY <1>1, FrameKeeps DEF OutcomeInv, JobInv
  <2>. QED BY <1>1, <2>1 DEF OutcomeInv, JobInv, LogAgrees, AddsUp
<1>2. ASSUME NEW j \in Jobs, row'[j] = row[j], audit'[j] = audit[j], targets'[j] = targets[j],
             pc'[Exe(j)] = pc[Exe(j)], ent'[Exe(j)] = ent[Exe(j)], orm'[Exe(j)] = orm[Exe(j)],
             pc'[Req(j)] = pc[Req(j)], ent'[Req(j)] = ent[Req(j)], orm'[Req(j)] = orm[Req(j)]
      PROVE  JobInv(j)'
  BY <1>1, <1>2, RequestFrameKeeps DEF OutcomeInv, JobInv
<1>3. CASE \E k \in Jobs : RequestNext(k)
  <2>1. PICK k \in Jobs : RequestNext(k)
    BY <1>3
  <2>2. JobInv(k)' /\ StatusMoves(row[k].status, row'[k].status)
    BY <2>1, RequestOutcome DEF OutcomeInv
  <2>3. ASSUME NEW j \in Jobs, j # k PROVE row'[j] = row[j] /\ JobInv(j)'
    <3>1. Req(j) # Req(k) /\ Exe(j) # Req(k)
      BY <2>3, SessionsDistinct
    <3>2. /\ row'[j] = row[j] /\ audit'[j] = audit[j] /\ targets'[j] = targets[j]
          /\ pc'[Exe(j)] = pc[Exe(j)] /\ ent'[Exe(j)] = ent[Exe(j)]
          /\ orm'[Exe(j)] = orm[Exe(j)] /\ pc'[Req(j)] = pc[Req(j)]
          /\ ent'[Req(j)] = ent[Req(j)] /\ orm'[Req(j)] = orm[Req(j)]
      BY <2>1, <2>3, <3>1, RequestFrame
    <3>. QED BY <1>2, <3>2
  <2>. QED BY <2>2, <2>3 DEF OutcomeInv
<1>4. CASE \E k \in Jobs : ExecNext(k)
  <2>1. PICK k \in Jobs : ExecNext(k)
    BY <1>4
  <2>2. JobInv(k)' /\ StatusMoves(row[k].status, row'[k].status)
    BY <2>1, ExecOutcome DEF OutcomeInv
  <2>3. ASSUME NEW j \in Jobs, j # k PROVE row'[j] = row[j] /\ JobInv(j)'
    <3>1. Req(j) # Exe(k) /\ Exe(j) # Exe(k)
      BY <2>3, SessionsDistinct
    <3>2. /\ row'[j] = row[j] /\ audit'[j] = audit[j] /\ targets'[j] = targets[j]
          /\ pc'[Exe(j)] = pc[Exe(j)] /\ ent'[Exe(j)] = ent[Exe(j)]
          /\ orm'[Exe(j)] = orm[Exe(j)] /\ pc'[Req(j)] = pc[Req(j)]
          /\ ent'[Req(j)] = ent[Req(j)] /\ orm'[Req(j)] = orm[Req(j)]
      BY <2>1, <2>3, <3>1, ExecFrame
    <3>. QED BY <1>2, <3>2
  <2>. QED BY <2>2, <2>3 DEF OutcomeInv
<1>5. CASE BotCrash
  <2>1. row' = row /\ audit' = audit /\ targets' = targets
    BY <1>5 DEF BotCrash, store, horse
  <2>2. ASSUME NEW j \in Jobs PROVE JobInv(j)'
    <3>1. Exe(j) \notin Requests \cup Cancels
      BY SessionsDistinct DEF Requests, Cancels
    <3>2. /\ pc'[Exe(j)] = pc[Exe(j)] /\ ent'[Exe(j)] = ent[Exe(j)]
          /\ orm'[Exe(j)] = orm[Exe(j)]
      BY <1>5, <3>1 DEF BotCrash
    <3>3. CASE pc[Req(j)] \in ReqLive
      <4> DEFINE lost == {s \in Requests : pc[s] \in ReqLive}
                         \cup {s \in Cancels : pc[s] \in CanLive}
      <4>1. pc' = [s \in Sessions |-> CASE s \in lost \cap Requests -> "dead"
                                         [] s \in lost \cap Cancels -> "idle"
                                         [] OTHER -> pc[s]]
        BY <1>5 DEF BotCrash
      <4>2. Req(j) \in lost \cap Requests /\ Req(j) \notin Cancels
        BY <3>3, SessionsType, SessionsDistinct DEF Cancels
      <4>. HIDE DEF lost
      <4>3. pc'[Req(j)] = "dead"
        BY <4>1, <4>2
      <4>. QED BY <1>1, <2>1, <3>2, <4>3 DEF RequestSees
    <3>4. CASE pc[Req(j)] \notin ReqLive
      <4>1. Req(j) \notin Cancels
        BY SessionsDistinct DEF Cancels
      <4>2. /\ pc'[Req(j)] = pc[Req(j)] /\ ent'[Req(j)] = ent[Req(j)]
            /\ orm'[Req(j)] = orm[Req(j)]
        BY <1>5, <3>4, <4>1 DEF BotCrash
      <4>. QED BY <1>2, <2>1, <3>2, <4>2
    <3>. QED BY <3>3, <3>4
  <2>. QED BY <2>1, <2>2 DEF OutcomeInv
<1>6. CASE ExpireGlobal \/ (\E c \in Clusters : ExpireCluster(c)) \/ UNCHANGED vars
  <2>1. /\ row' = row /\ audit' = audit /\ targets' = targets
        /\ pc' = pc /\ ent' = ent /\ orm' = orm
    BY <1>6 DEF ExpireGlobal, ExpireCluster, vars, store, memory, horse
  <2>. QED BY <1>2, <2>1 DEF OutcomeInv
<1>. QED
  BY <1>3, <1>4, <1>5, <1>6 DEF Next

\* Initially nothing is known of any job, and nothing is there.
LEMMA OutcomeInvInit == Init => OutcomeInv
<1>. SUFFICES ASSUME Init, NEW j \in Jobs PROVE JobInv(j)
  BY DEF OutcomeInv
<1>1. /\ row[j] = NoRow /\ audit[j] = {} /\ pc[Req(j)] = "idle" /\ pc[Exe(j)] = "idle"
  BY SessionsType DEF Init
<1>2. RequestSees(j)
  BY <1>1 DEF RequestSees
<1>3. ExecSees(j)
  BY <1>1 DEF ExecSees
<1>4. LogAgrees(j) /\ AddsUp(row[j])
  BY <1>1, NamedRows DEF LogAgrees, AddsUp
<1>. QED BY <1>2, <1>3, <1>4 DEF JobInv

\* As long as nobody cancels, request and execution know the row they write, whatever
\* fails: the SELECT of a save never misses a write of the other
\* (RequestBackupUseCase, ExecuteBackupUseCase and SQLJobRepository.save together).
THEOREM RowHasOneWriter ==
  ASSUME Cancellers = {}
  PROVE  Spec => [](TypeOK /\ OutcomeDecided /\ OutcomeInv)
<1>1. Init => TypeOK /\ OutcomeDecided /\ OutcomeInv
  BY InitType, InitOutcome, OutcomeInvInit
<1>2. TypeOK /\ OutcomeDecided /\ OutcomeInv /\ [Next]_vars
        => (TypeOK /\ OutcomeDecided /\ OutcomeInv)'
  BY TypeStep, OutcomeStep, OutcomeInvStep
<1>. QED BY <1>1, <1>2, PTL DEF Spec

\* A finished row accounts for every collection of the job (_finalize_job against
\* the progress columns), across every fault, as long as nobody cancels.
THEOREM FinishedRowsAddUp ==
  ASSUME Cancellers = {}
  PROVE  Spec => []FinishedRowAddsUp
<1>1. OutcomeInv => FinishedRowAddsUp
  BY DEF OutcomeInv, JobInv, AddsUp, FinishedRowAddsUp
<1>. QED BY <1>1, RowHasOneWriter, PTL

\* The audit log never reports a state that the jobs table does not show, whatever
\* dies between a save and its entry, as long as nobody cancels.
THEOREM AuditAgrees ==
  ASSUME Cancellers = {}
  PROVE  Spec => []AuditAgreesWithTable
<1>1. OutcomeInv => AuditAgreesWithTable
  BY DEF OutcomeInv, JobInv, LogAgrees, AuditAgreesWithTable
<1>. QED BY <1>1, RowHasOneWriter, PTL

\* Each step of the platform is a step of the entity's state machine or a stutter.
LEMMA LifecycleStep ==
  ASSUME Cancellers = {}, TypeOK, OutcomeDecided, OutcomeInv, [Next]_vars
  PROVE  Lifecycle!Next \/ UNCHANGED [j \in Jobs |-> row[j].status]
<1> DEFINE status == [j \in Jobs |-> row[j].status]
           status2 == [j \in Jobs |-> row'[j].status]
<1>1. CASE \A i \in Jobs : row'[i] = row[i]
  BY <1>1
<1>2. CASE \E j \in Jobs : /\ StatusMoves(row[j].status, row'[j].status)
                           /\ \A i \in Jobs : i # j => row'[i] = row[i]
  <2>1. PICK j \in Jobs : /\ StatusMoves(row[j].status, row'[j].status)
                          /\ \A i \in Jobs : i # j => row'[i] = row[i]
    BY <1>2
  <2>2. status2 = [status EXCEPT ![j] = row'[j].status]
    BY <2>1
  <2>3. CASE row'[j].status = row[j].status
    BY <2>1, <2>3
  <2>4. CASE row[j].status = "NONE" /\ row'[j].status = "PENDING"
    BY <2>2, <2>4 DEF Lifecycle!Next, Lifecycle!Create
  <2>5. CASE CanTransition(row[j].status, row'[j].status)
    <3>1. row'[j].status \in Lifecycle!JobStatus
      BY <2>5 DEF CanTransition, ValidTransitions, Terminal, Lifecycle!JobStatus,
         Lifecycle!Terminal
    <3>2. Lifecycle!CanTransition(row[j].status, row'[j].status)
      BY <2>5 DEF CanTransition, ValidTransitions, Terminal, Lifecycle!CanTransition,
         Lifecycle!ValidTransitions, Lifecycle!Terminal
    <3>. QED BY <2>2, <3>1, <3>2 DEF Lifecycle!Next, Lifecycle!Move
  <2>. QED BY <2>1, <2>3, <2>4, <2>5 DEF StatusMoves
<1>. QED BY <1>1, <1>2, OutcomeInvStep

\* The platform implements JobLifecycle as long as nobody cancels: the status column
\* only moves along _VALID_TRANSITIONS, although save() checks nothing.
THEOREM LifecycleIsFollowed ==
  ASSUME Cancellers = {}
  PROVE  Spec => FollowsLifecycle
<1>1. Init => Lifecycle!Init
  BY NamedRows DEF Init, Lifecycle!Init
<1>2. TypeOK /\ OutcomeDecided /\ OutcomeInv /\ [Next]_vars
        => [Lifecycle!Next]_([j \in Jobs |-> row[j].status])
  BY LifecycleStep
<1>. QED BY <1>1, <1>2, RowHasOneWriter, PTL DEF Spec, FollowsLifecycle, Lifecycle!Spec
=============================================================================
