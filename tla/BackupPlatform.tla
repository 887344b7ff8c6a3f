---------------------------- MODULE BackupPlatform ----------------------------
(***************************************************************************)
(* The life of a backup job across the processes of the platform:          *)
(*                                                                         *)
(*   the bot     handles requests (RequestBackupUseCase, JobManager) and   *)
(*               cancellations (CancelJobUseCase), each update in its own  *)
(*               coroutine with its own database session;                  *)
(*   the worker  RQ forks one horse per job, which runs                    *)
(*               ExecuteBackupUseCase;                                     *)
(*   Redis       holds the RQ entries and the locks;                       *)
(*   SQLite      holds the jobs table and the audit log.                   *)
(*                                                                         *)
(* Every coroutine or horse is a SESSION: the request that creates job j,  *)
(* the execution of j, a cancellation of j by user u.  A session also      *)
(* stands for the token it writes into a lock.  One step of a session is   *)
(* what it does up to and including its next access to shared state.  A    *)
(* job is requested and executed once; a user may cancel it again and      *)
(* again, one cancellation after the other.                                *)
(***************************************************************************)
EXTENDS SQLJobRepository, RedisLockManager, FiniteSets

CONSTANTS
    Jobs,              \* jobs ever requested: one request and one RQ entry each
    Clusters,          \* cluster_uri_hash values
    ClusterOf,         \* [Jobs -> Clusters]
    Requester,         \* [Jobs -> Users]
    Admins,            \* users with role ADMIN
    Cancellers,        \* users who issue /cancel
    MaxWorkers,        \* RQ worker processes, each with one horse at a time
    MaxCollections,    \* bound on the collections of one backup
    Faults,            \* the kinds of fault this instance allows
    TtlOutlivesHolder, \* no lock expires while the session that took it lives
    DelayCovers        \* what the request has always done when the 2 s delay is over

FaultKinds == {"raise", "timeout", "horse_kill", "bot_crash", "sigterm",
               "telegram", "redis"}

ASSUME PlatformAssumption ==
    /\ ClusterOf \in [Jobs -> Clusters]
    /\ Requester \in [Jobs -> Users]
    /\ Cancellers \subseteq Users
    /\ MaxWorkers \in Nat
    /\ MaxCollections \in Nat
    /\ Faults \subseteq FaultKinds
    /\ TtlOutlivesHolder \in BOOLEAN
    /\ DelayCovers \in {"nothing", "commit"}

\* Sessions.
Req(j)    == <<"request", j>>
Exe(j)    == <<"execute", j>>
Can(u, j) == <<"cancel", u, j>>

Requests   == {Req(j) : j \in Jobs}
Executions == {Exe(j) : j \in Jobs}
Cancels    == {Can(u, j) : u \in Cancellers, j \in Jobs}
Sessions   == Requests \cup Executions \cup Cancels

ASSUME TokenAssumption == NoToken \notin Sessions

VARIABLES
    row,         \* the jobs table: [Jobs -> Row]
    audit,       \* audit events written about a job
    rq,          \* status of the job's RQ entry, "absent" before enqueue
    globalLock,  \* token in backup:global
    clusterLock, \* token in backup:cluster:<hash>, per cluster
    pc,          \* where each session is
    ent,         \* the BackupJob entity each session works on
    orm,         \* the row loaded by the SELECT of a save in flight
    targets,     \* number of collections an execution has resolved
    shutdown,    \* _shutdown_requested in the horse of a job
    ui           \* what the job's status message in the chat says

vars == <<row, audit, rq, globalLock, clusterLock, pc, ent, orm, targets, shutdown, ui>>
store  == <<row, audit>>
locks  == <<globalLock, clusterLock>>
memory == <<ent, orm>>
horse  == <<targets, shutdown>>

AuditEvents == {"BACKUP_REQUESTED", "JOB_QUEUED", "BACKUP_STARTED", "JOB_CANCELLED",
                "CANCEL_REQUESTED"} \cup Terminal
RqStatus == {"absent", "scheduled", "started", "finished", "failed", "canceled"}
UiTexts  == {"wizard", "refused", "queued", "running", "worker_error"} \cup Terminal

ReqLive == {"locked", "created", "fetched", "enqueued", "saving", "saved", "reply"}
CanLive == {"rq", "select", "update", "audit"}
ExeLive == {"lookup", "lock", "begin", "beginSave", "resolve", "loop", "dump",
            "progressSave", "finalSave", "audit", "notify", "release", "alert"}
Pcs == {"idle", "done", "failed", "dead"} \cup ReqLive \cup CanLive \cup ExeLive

Init ==
    /\ row = [j \in Jobs |-> NoRow]
    /\ audit = [j \in Jobs |-> {}]
    /\ rq = [j \in Jobs |-> "absent"]
    /\ globalLock = NoToken
    /\ clusterLock = [c \in Clusters |-> NoToken]
    /\ pc = [s \in Sessions |-> "idle"]
    /\ ent = [s \in Sessions |-> NoRow]
    /\ orm = [s \in Sessions |-> NoRow]
    /\ targets = [j \in Jobs |-> 0]
    /\ shutdown = [j \in Jobs |-> FALSE]
    /\ ui = [j \in Jobs |-> "wizard"]

\* Shared step helpers.
Goto(s, from, to) == pc[s] = from /\ pc' = [pc EXCEPT ![s] = to]
Log(j, events)    == audit' = [audit EXCEPT ![j] = @ \cup events]
Show(j, text)     == ui' = [ui EXCEPT ![j] = text]

\* An edit of the status message.  TelegramNotifier retries, its callers and
\* the bot's error middleware swallow what is left, so under the fault
\* "telegram" the text may stay as it was.
TryShow(j, text) == \/ Show(j, text)
                    \/ "telegram" \in Faults /\ UNCHANGED ui

\* SQLJobRepository.save in two steps: the SELECT that loads the row, with the
\* entity to write, and the UPDATE that merges it.
SaveLoad(s, j, entity) ==
    /\ ent' = [ent EXCEPT ![s] = entity]
    /\ orm' = [orm EXCEPT ![s] = row[j]]
SaveWrite(s, j) ==
    /\ row' = [row EXCEPT ![j] = Merged(@, orm[s], ent[s])]
    /\ orm' = [orm EXCEPT ![s] = NoRow]

\* A session is over: its entity and ORM objects are gone, and with a horse the
\* list of targets and the shutdown flag (reset in _backup_worker_fn's finally).
Forget(s) ==
    /\ ent' = [ent EXCEPT ![s] = NoRow]
    /\ orm' = [orm EXCEPT ![s] = NoRow]
ForgetHorse(j) ==
    /\ Forget(Exe(j))
    /\ targets' = [targets EXCEPT ![j] = 0]
    /\ shutdown' = [shutdown EXCEPT ![j] = FALSE]

\* Mutant of ReleaseCluster: the finally block forgets the lock.
ReleaseClusterForgotten(j) == UNCHANGED clusterLock

\* Releases in the finally blocks.  A Redis error is logged and the lock stays.
ReleaseGlobal(j) ==
    \/ globalLock' = ReleaseScript(globalLock, Req(j))
    \/ "redis" \in Faults /\ UNCHANGED globalLock
ReleaseCluster(j) ==
    \/ clusterLock' = [clusterLock EXCEPT ![ClusterOf[j]] = ReleaseScript(@, Exe(j))]
    \/ "redis" \in Faults /\ UNCHANGED clusterLock

-----------------------------------------------------------------------------
(***************************************************************************)
(* The request of job j: on_ejecutar, RequestBackupUseCase.execute and     *)
(* JobManager.create_job / enqueue_job.                                    *)
(***************************************************************************)

\* RBAC or the rate limit refuses the request before the lock is tried; the
\* handler says so in the status message.
RequestDeny(j) ==
    /\ Goto(Req(j), "idle", "failed")
    /\ TryShow(j, "refused")
    /\ UNCHANGED <<store, rq, locks, memory, horse>>

\* The global lock is tried once; JobAlreadyRunningError when it is held.  When
\* Redis sets the key and its answer is lost, the request fails and the lock stays.
RequestLock(j) ==
    /\ globalLock' = SetNX(globalLock, Req(j))
    /\ \/ Goto(Req(j), "idle", IF globalLock' = Req(j) THEN "locked" ELSE "failed")
       \/ "redis" \in Faults /\ Goto(Req(j), "idle", "failed")
    /\ UNCHANGED <<store, rq, clusterLock, memory, horse, ui>>

\* DiskSpaceError (told to the user) or JobError for a custom backup without
\* collections (not caught by the handler): the lock is released either way.
RequestRefuse(j) ==
    /\ Goto(Req(j), "locked", "failed")
    /\ ReleaseGlobal(j)
    /\ TryShow(j, "refused") \/ UNCHANGED ui
    /\ Forget(Req(j))
    /\ UNCHANGED <<store, rq, clusterLock, horse>>

\* Mutant of RequestCreate: the INSERT is never committed.
RequestCreateUncommitted(j) ==
    /\ Goto(Req(j), "locked", "created")
    /\ UNCHANGED <<store, rq, locks, memory, horse, ui>>

\* create_job inserts the PENDING row.
RequestCreate(j) ==
    /\ Goto(Req(j), "locked", "created")
    /\ row' = [row EXCEPT ![j] = NewRow]
    /\ UNCHANGED <<audit, rq, locks, memory, horse, ui>>

\* Mutant of RequestFetch: the audit entry is left to a later step.
RequestFetchUnlogged(j) ==
    /\ Goto(Req(j), "created", "fetched")
    /\ ent' = [ent EXCEPT ![Req(j)] = row[j]]
    /\ UNCHANGED <<store, rq, locks, orm, horse, ui>>

\* The BACKUP_REQUESTED entry, then enqueue_job reads the job again.
RequestFetch(j) ==
    /\ Goto(Req(j), "created", "fetched")
    /\ Log(j, {"BACKUP_REQUESTED"})
    /\ ent' = [ent EXCEPT ![Req(j)] = row[j]]
    /\ UNCHANGED <<row, rq, locks, orm, horse, ui>>

\* The RQ entry is scheduled, 2 s ahead, before the row says QUEUED.
RequestEnqueue(j) ==
    /\ Goto(Req(j), "fetched", "enqueued")
    /\ rq' = [rq EXCEPT ![j] = "scheduled"]
    /\ UNCHANGED <<store, locks, memory, horse, ui>>

\* mark_queued on the entity read earlier, and the SELECT of its save.
RequestMarkQueued(j) ==
    LET job == ent[Req(j)] IN
    /\ CanTransition(job.status, "QUEUED")
    /\ Goto(Req(j), "enqueued", "saving")
    /\ SaveLoad(Req(j), j, [job EXCEPT !.status = "QUEUED", !.queueId = TRUE])
    /\ UNCHANGED <<store, rq, locks, horse, ui>>

\* mark_queued refuses (the job was cancelled meanwhile): the error leaves the
\* use case through its finally block; the RQ entry stays.
RequestMarkQueuedRaises(j) ==
    /\ ~CanTransition(ent[Req(j)].status, "QUEUED")
    /\ Goto(Req(j), "enqueued", "failed")
    /\ ReleaseGlobal(j)
    /\ Forget(Req(j))
    /\ UNCHANGED <<store, rq, clusterLock, horse, ui>>

RequestSave(j) ==
    /\ Goto(Req(j), "saving", "saved")
    /\ SaveWrite(Req(j), j)
    /\ UNCHANGED <<audit, rq, locks, ent, horse, ui>>

\* JOB_QUEUED is logged, the use case returns and releases the lock.
RequestFinish(j) ==
    /\ Goto(Req(j), "saved", "reply")
    /\ Log(j, {"JOB_QUEUED"})
    /\ ReleaseGlobal(j)
    /\ Forget(Req(j))
    /\ UNCHANGED <<row, rq, clusterLock, horse, ui>>

\* The handler edits the status message to "Backup en cola".
RequestReply(j) ==
    /\ Goto(Req(j), "reply", "done")
    /\ TryShow(j, "queued")
    /\ UNCHANGED <<store, rq, locks, memory, horse>>

\* Any other exception between lock and release: a database, Redis or
\* filesystem error in the call the request is about to make.
RequestRaise(j) ==
    /\ "raise" \in Faults
    /\ pc[Req(j)] \in ReqLive \ {"reply"}
    /\ pc' = [pc EXCEPT ![Req(j)] = "failed"]
    /\ ReleaseGlobal(j)
    /\ Forget(Req(j))
    /\ UNCHANGED <<store, rq, clusterLock, horse, ui>>

-----------------------------------------------------------------------------
(***************************************************************************)
(* Cancellation of job j by user u: CancelJobUseCase and                   *)
(* JobManager.cancel_job.                                                  *)
(***************************************************************************)

\* Mutant of CancelRead: the RQ entry is cancelled whatever the job's status.
CancelReadAnyStatus(u, j) ==
    /\ row[j].status # "NONE"
    /\ CanBeCancelledBy(row[j].status, u \in Admins, u = Requester[j])
    /\ Goto(Can(u, j), "idle", "rq")
    /\ ent' = [ent EXCEPT ![Can(u, j)] = row[j]]
    /\ UNCHANGED <<store, rq, locks, orm, horse, ui>>

\* The job is read and the right to cancel it checked.  A refused cancellation
\* changes nothing and is not a step.
CancelRead(u, j) ==
    /\ row[j].status # "NONE"
    /\ CanBeCancelledBy(row[j].status, u \in Admins, u = Requester[j])
    /\ Goto(Can(u, j), "idle",
            IF row[j].status = "QUEUED" /\ row[j].queueId THEN "rq" ELSE "select")
    /\ ent' = [ent EXCEPT ![Can(u, j)] = row[j]]
    /\ UNCHANGED <<store, rq, locks, orm, horse, ui>>

\* RQ's Job.cancel: a scheduled entry is removed; a started horse is not
\* stopped.  RQ refuses to cancel an entry twice, and that error is not caught.
CancelRq(u, j) ==
    /\ rq' = [rq EXCEPT ![j] = "canceled"]
    /\ \/ /\ rq[j] # "canceled"
          /\ Goto(Can(u, j), "rq", "select")
          /\ UNCHANGED memory
       \/ /\ rq[j] = "canceled"
          /\ Goto(Can(u, j), "rq", "idle")
          /\ Forget(Can(u, j))
    /\ UNCHANGED <<store, locks, horse, ui>>

\* mark_cancelled on the entity read earlier, and the SELECT of its save.
CancelSelect(u, j) ==
    /\ Goto(Can(u, j), "select", "update")
    /\ SaveLoad(Can(u, j), j, [ent[Can(u, j)] EXCEPT !.status = "CANCELLED", !.by = u])
    /\ UNCHANGED <<store, rq, locks, horse, ui>>

CancelUpdate(u, j) ==
    /\ Goto(Can(u, j), "update", "audit")
    /\ SaveWrite(Can(u, j), j)
    /\ UNCHANGED <<audit, rq, locks, ent, horse, ui>>

\* The audit entries of the service and of the use case.
CancelFinish(u, j) ==
    /\ Goto(Can(u, j), "audit", "idle")
    /\ Log(j, {"JOB_CANCELLED", "CANCEL_REQUESTED"})
    /\ Forget(Can(u, j))
    /\ UNCHANGED <<row, rq, locks, horse, ui>>

\* A database or Redis error in the call a cancellation is about to make.
CancelRaise(u, j) ==
    /\ "raise" \in Faults
    /\ pc[Can(u, j)] \in CanLive
    /\ pc' = [pc EXCEPT ![Can(u, j)] = "idle"]
    /\ Forget(Can(u, j))
    /\ UNCHANGED <<store, rq, locks, horse, ui>>

-----------------------------------------------------------------------------
(***************************************************************************)
(* The execution of job j: the RQ worker, backup_worker._execute and       *)
(* ExecuteBackupUseCase.execute.                                           *)
(***************************************************************************)

\* Mutant of DelayElapsed: the entry is enqueued without a delay.
DelayElapsedAtOnce(j) == TRUE

\* The delay is there to cover the commit of the QUEUED save (rq_job_queue).  No
\* delay orders the bot's reply after it.
DelayElapsed(j) == DelayCovers = "commit" => pc[Req(j)] \notin {"enqueued", "saving"}

\* RQ moves the due entry to the queue and an idle worker forks a horse for it.
Dispatch(j) ==
    /\ rq[j] = "scheduled"
    /\ DelayElapsed(j)
    /\ Cardinality({k \in Jobs : pc[Exe(k)] \in ExeLive}) < MaxWorkers
    /\ Goto(Exe(j), "idle", "lookup")
    /\ rq' = [rq EXCEPT ![j] = "started"]
    /\ UNCHANGED <<store, locks, memory, horse, ui>>

\* get_by_id, retried until the row is there.  The JobNotFoundError after five tries
\* is out of reach: WorkerFindsRow.
ExecLookup(j) ==
    /\ row[j].status # "NONE"
    /\ Goto(Exe(j), "lookup", "lock")
    /\ ent' = [ent EXCEPT ![Exe(j)] = row[j]]
    /\ UNCHANGED <<store, rq, locks, orm, horse, ui>>

\* The cluster lock is tried once; JobAlreadyRunningError when it is held.  The
\* answer of Redis may be lost here too.
ExecLock(j) ==
    /\ clusterLock' = [clusterLock EXCEPT ![ClusterOf[j]] = SetNX(@, Exe(j))]
    /\ \/ Goto(Exe(j), "lock",
               IF clusterLock'[ClusterOf[j]] = Exe(j) THEN "begin" ELSE "alert")
       \/ "redis" \in Faults /\ Goto(Exe(j), "lock", "alert")
    /\ UNCHANGED <<store, rq, globalLock, memory, horse, ui>>

\* Mutant of ExecBegin: the status is set without asking the state machine.
ExecBeginUnguarded(j) ==
    /\ Goto(Exe(j), "begin", "beginSave")
    /\ SaveLoad(Exe(j), j, [ent[Exe(j)] EXCEPT !.status = "RUNNING"])
    /\ UNCHANGED <<store, rq, locks, horse, ui>>

\* mark_running, the output directory, and the SELECT of the save.
ExecBegin(j) ==
    LET job == ent[Exe(j)] IN
    /\ CanTransition(job.status, "RUNNING")
    /\ Goto(Exe(j), "begin", "beginSave")
    /\ SaveLoad(Exe(j), j, [job EXCEPT !.status = "RUNNING"])
    /\ UNCHANGED <<store, rq, locks, horse, ui>>

\* mark_running refuses: InvalidStateTransitionError through the finally block.
ExecBeginRaises(j) ==
    /\ ~CanTransition(ent[Exe(j)].status, "RUNNING")
    /\ Goto(Exe(j), "begin", "alert")
    /\ ReleaseCluster(j)
    /\ UNCHANGED <<store, rq, globalLock, memory, horse, ui>>

ExecBeginSave(j) ==
    /\ Goto(Exe(j), "beginSave", "resolve")
    /\ SaveWrite(Exe(j), j)
    /\ UNCHANGED <<audit, rq, locks, ent, horse, ui>>

\* _resolve_targets, then the BACKUP_STARTED entry.
ExecResolve(j) ==
    /\ Goto(Exe(j), "resolve", "loop")
    /\ \E n \in 0..MaxCollections : targets' = [targets EXCEPT ![j] = n]
    /\ Log(j, {"BACKUP_STARTED"})
    /\ UNCHANGED <<row, rq, locks, memory, shutdown, ui>>

Remaining(j) == targets[j] - ent[Exe(j)].completed - ent[Exe(j)].failed

\* Mutant of CancelCheck: the flag is never looked at.
CancelCheckIgnored(j) == FALSE

\* _cancel_check, called before each collection.
CancelCheck(j) == shutdown[j]

\* The next collection is dumped unless a shutdown was requested.
ExecDump(j) ==
    /\ Remaining(j) > 0
    /\ ~CancelCheck(j)
    /\ Goto(Exe(j), "loop", "dump")
    /\ UNCHANGED <<store, rq, locks, memory, horse, ui>>

\* _backup_single_collection returns, any error of it being a failed
\* collection; the progress is updated and the save loads the row.
ExecCollected(j) ==
    LET job == ent[Exe(j)] IN
    /\ Goto(Exe(j), "dump", "progressSave")
    /\ \/ SaveLoad(Exe(j), j, [job EXCEPT !.total = targets[j], !.completed = @ + 1])
       \/ SaveLoad(Exe(j), j, [job EXCEPT !.total = targets[j], !.failed = @ + 1])
    /\ UNCHANGED <<store, rq, locks, horse, ui>>

\* The progress is saved and, unless the throttle holds it back, shown.
ExecProgressSave(j) ==
    /\ Goto(Exe(j), "progressSave", "loop")
    /\ SaveWrite(Exe(j), j)
    /\ Show(j, "running") \/ UNCHANGED ui
    /\ UNCHANGED <<audit, rq, locks, ent, horse>>

\* The loop ends, all collections done or the shutdown flag seen; _finalize_job
\* sets the terminal status and the save loads the row.
ExecFinalize(j) ==
    LET job       == ent[Exe(j)]
        cancelled == Remaining(j) > 0
    IN  /\ Remaining(j) = 0 \/ CancelCheck(j)
        /\ Goto(Exe(j), "loop", "finalSave")
        /\ SaveLoad(Exe(j), j,
              [job EXCEPT !.status = FinalStatus(cancelled, targets[j], job.failed),
                          !.by = IF cancelled THEN System ELSE @])
        /\ UNCHANGED <<store, rq, locks, horse, ui>>

ExecFinalSave(j) ==
    /\ Goto(Exe(j), "finalSave", "audit")
    /\ SaveWrite(Exe(j), j)
    /\ UNCHANGED <<audit, rq, locks, ent, horse, ui>>

\* Mutant of ExecAudit: every finished backup is logged as completed.
ExecAuditCompleted(j) ==
    /\ Goto(Exe(j), "audit", "notify")
    /\ Log(j, {"SUCCESS"})
    /\ UNCHANGED <<row, rq, locks, memory, horse, ui>>

\* The audit entry of the final status (BACKUP_COMPLETED for SUCCESS, ...).
ExecAudit(j) ==
    /\ Goto(Exe(j), "audit", "notify")
    /\ Log(j, {ent[Exe(j)].status})
    /\ UNCHANGED <<row, rq, locks, memory, horse, ui>>

ExecNotify(j) ==
    /\ Goto(Exe(j), "notify", "release")
    /\ TryShow(j, ent[Exe(j)].status)
    /\ UNCHANGED <<store, rq, locks, memory, horse>>

\* The retention policy has run; the finally block releases the lock and RQ
\* marks the entry finished.
ExecRelease(j) ==
    /\ Goto(Exe(j), "release", "done")
    /\ ReleaseCluster(j)
    /\ rq' = [rq EXCEPT ![j] = "finished"]
    /\ ForgetHorse(j)
    /\ UNCHANGED <<store, globalLock, ui>>

\* Any other exception in the use case, from the call it is about to make.
\* Dumps and Telegram edits swallow theirs.  At "release" it is the retention
\* policy that fails, after a successful job was saved as finished.
ExecRaise(j) ==
    /\ "raise" \in Faults
    /\ pc[Exe(j)] \in ExeLive \ {"loop", "dump", "notify", "alert"}
    /\ pc[Exe(j)] = "release" => ent[Exe(j)].status \in {"SUCCESS", "PARTIAL_SUCCESS"}
    /\ pc' = [pc EXCEPT ![Exe(j)] = "alert"]
    /\ ReleaseCluster(j)
    /\ UNCHANGED <<store, rq, globalLock, memory, horse, ui>>

\* The handler of _execute edits the message and alerts the errors topic; the
\* exception goes on to RQ, which fails the entry.
ExecAlert(j) ==
    /\ Goto(Exe(j), "alert", "failed")
    /\ TryShow(j, "worker_error")
    /\ rq' = [rq EXCEPT ![j] = "failed"]
    /\ ForgetHorse(j)
    /\ UNCHANGED <<store, locks>>

\* RQ's job timeout (180 s by default) while the loop waits: the coroutine is
\* cancelled, its finally block runs, the handlers of Exception do not.  Raised in
\* the code of the coroutine itself, JobTimeoutException is an Exception like any
\* other: ExecRaise, or in a dump the failed collection of ExecCollected.
ExecTimeout(j) ==
    /\ "timeout" \in Faults
    /\ pc[Exe(j)] \in ExeLive
    /\ pc' = [pc EXCEPT ![Exe(j)] = "failed"]
    /\ ReleaseCluster(j)
    /\ rq' = [rq EXCEPT ![j] = "failed"]
    /\ ForgetHorse(j)
    /\ UNCHANGED <<store, globalLock, ui>>

-----------------------------------------------------------------------------
(***************************************************************************)
(* The environment.                                                        *)
(***************************************************************************)

\* The horse is killed outright (out of memory, host restart, RQ's monitor).
HorseKill(j) ==
    /\ "horse_kill" \in Faults
    /\ pc[Exe(j)] \in ExeLive
    /\ pc' = [pc EXCEPT ![Exe(j)] = "dead"]
    /\ rq' = [rq EXCEPT ![j] = "failed"]
    /\ ForgetHorse(j)
    /\ UNCHANGED <<store, locks, ui>>

\* The bot dies and restarts; every update it was handling is lost.
BotCrash ==
    LET lost == {s \in Requests : pc[s] \in ReqLive} \cup {s \in Cancels : pc[s] \in CanLive}
    IN  /\ "bot_crash" \in Faults
        /\ lost # {}
        /\ pc' = [s \in Sessions |->
                    CASE s \in lost \cap Requests -> "dead"
                      [] s \in lost \cap Cancels  -> "idle"
                      [] OTHER                    -> pc[s]]
        /\ ent' = [s \in Sessions |-> IF s \in lost THEN NoRow ELSE ent[s]]
        /\ orm' = [s \in Sessions |-> IF s \in lost THEN NoRow ELSE orm[s]]
        /\ UNCHANGED <<store, rq, locks, horse, ui>>

\* SIGTERM reaches the horse: _handle_sigterm sets the flag.
Sigterm(j) ==
    /\ "sigterm" \in Faults
    /\ pc[Exe(j)] \in ExeLive
    /\ ~shutdown[j]
    /\ shutdown' = [shutdown EXCEPT ![j] = TRUE]
    /\ UNCHANGED <<store, rq, locks, pc, memory, targets, ui>>

\* The TTL of 3600 s may run out.  Under TtlOutlivesHolder only for a lock
\* whose session is over: a request takes seconds, and RQ ends an execution
\* within its job timeout.
MayExpire(token) ==
    /\ token # NoToken
    /\ TtlOutlivesHolder => pc[token] \in {"done", "failed", "dead"}

ExpireGlobal ==
    /\ MayExpire(globalLock)
    /\ globalLock' = NoToken
    /\ UNCHANGED <<store, rq, clusterLock, pc, memory, horse, ui>>

ExpireCluster(c) ==
    /\ MayExpire(clusterLock[c])
    /\ clusterLock' = [clusterLock EXCEPT ![c] = NoToken]
    /\ UNCHANGED <<store, rq, globalLock, pc, memory, horse, ui>>

-----------------------------------------------------------------------------
\* Steps a session takes by itself once it has started.
RequestStep(j) ==
    \/ RequestRefuse(j) \/ RequestCreate(j) \/ RequestFetch(j) \/ RequestEnqueue(j)
    \/ RequestMarkQueued(j) \/ RequestMarkQueuedRaises(j) \/ RequestSave(j)
    \/ RequestFinish(j) \/ RequestReply(j)

CancelStep(u, j) ==
    \/ CancelRq(u, j) \/ CancelSelect(u, j) \/ CancelUpdate(u, j) \/ CancelFinish(u, j)

ExecStep(j) ==
    \/ ExecLookup(j) \/ ExecLock(j) \/ ExecBegin(j) \/ ExecBeginRaises(j)
    \/ ExecBeginSave(j) \/ ExecResolve(j) \/ ExecDump(j) \/ ExecCollected(j)
    \/ ExecProgressSave(j) \/ ExecFinalize(j) \/ ExecFinalSave(j) \/ ExecAudit(j)
    \/ ExecNotify(j) \/ ExecRelease(j) \/ ExecAlert(j)

RequestNext(j) == RequestDeny(j) \/ RequestLock(j) \/ RequestStep(j) \/ RequestRaise(j)
CancelNext(u, j) == CancelRead(u, j) \/ CancelStep(u, j) \/ CancelRaise(u, j)
ExecNext(j) ==
    Dispatch(j) \/ ExecStep(j) \/ ExecRaise(j) \/ ExecTimeout(j) \/ HorseKill(j) \/ Sigterm(j)

Next ==
    \/ \E j \in Jobs : RequestNext(j) \/ ExecNext(j)
    \/ \E u \in Cancellers, j \in Jobs : CancelNext(u, j)
    \/ BotCrash
    \/ ExpireGlobal
    \/ \E c \in Clusters : ExpireCluster(c)

Spec == Init /\ [][Next]_vars

\* Coroutines and horses run to their end and RQ serves due entries.  Users and
\* faults owe nothing, and no property counts on the TTL of a lock.
Fairness ==
    /\ \A j \in Jobs : WF_vars(RequestStep(j)) /\ WF_vars(Dispatch(j)) /\ WF_vars(ExecStep(j))
    /\ \A u \in Cancellers, j \in Jobs : WF_vars(CancelStep(u, j))

FairSpec == Spec /\ Fairness
-----------------------------------------------------------------------------
(***************************************************************************)
(* Properties.                                                             *)
(***************************************************************************)

\* Every variable keeps its type; a program counter is one of its kind.
TypeOK ==
    /\ row \in [Jobs -> Row]
    /\ audit \in [Jobs -> SUBSET AuditEvents]
    /\ rq \in [Jobs -> RqStatus]
    /\ globalLock \in Requests \cup {NoToken}
    /\ clusterLock \in [Clusters -> Executions \cup {NoToken}]
    /\ pc \in [Sessions -> Pcs]
    /\ ent \in [Sessions -> Row]
    /\ orm \in [Sessions -> Row]
    /\ targets \in [Jobs -> Nat]
    /\ shutdown \in [Jobs -> BOOLEAN]
    /\ ui \in [Jobs -> UiTexts]

\* A request between acquiring backup:global and its finally block.
InRequest(j) == pc[Req(j)] \in ReqLive \ {"reply"}

\* An execution between acquiring its cluster lock and its finally block.
InBackup(j) == pc[Exe(j)] \in ExeLive \ {"lookup", "lock", "alert"}

\* The inductive invariant behind the safety theorems, in named parts.

\* An execution that left its loop has decided the outcome it saves and reports.
OutcomeDecided ==
    \A j \in Jobs :
        pc[Exe(j)] \in {"finalSave", "audit", "notify"} => ent[Exe(j)].status \in Terminal

\* Whoever is in a guarded section holds the lock of that section.
LocksHeld ==
    \A j \in Jobs :
        /\ InRequest(j) => globalLock = Req(j)
        /\ InBackup(j) => clusterLock[ClusterOf[j]] = Exe(j)

\* Whoever works on a row, or refers to it from the queue, finds it inserted and
\* holds an entity that was read from it.
RowsExist ==
    \A j \in Jobs :
        /\ pc[Req(j)] \in ReqLive \ {"locked"} => row[j].status # "NONE"
        /\ pc[Req(j)] \in {"fetched", "enqueued", "saving"} => ent[Req(j)].status # "NONE"
        /\ rq[j] # "absent" => row[j].status # "NONE"
        /\ pc[Exe(j)] \in ExeLive => rq[j] # "absent"
        /\ pc[Exe(j)] \in ExeLive \ {"lookup", "alert"} => ent[Exe(j)].status # "NONE"
        /\ \A u \in Cancellers : pc[Can(u, j)] \in CanLive =>
              row[j].status # "NONE" /\ ent[Can(u, j)].status # "NONE"

\* A queue_job_id, in the table or in an entity, names an RQ entry.
EntriesExist ==
    \A j \in Jobs :
        /\ row[j].queueId => rq[j] # "absent"
        /\ ent[Req(j)].queueId \/ ent[Exe(j)].queueId => rq[j] # "absent"
        /\ pc[Req(j)] \in {"enqueued", "saving"} => rq[j] # "absent"
        /\ \A u \in Cancellers :
              ent[Can(u, j)].queueId \/ pc[Can(u, j)] = "rq" => rq[j] # "absent"

\* The queue never runs ahead of the audit log.
RequestsLogged ==
    \A j \in Jobs :
        /\ pc[Req(j)] = "fetched" \/ rq[j] # "absent" => "BACKUP_REQUESTED" \in audit[j]
        /\ "BACKUP_STARTED" \in audit[j] => rq[j] # "absent"

Inductive == TypeOK /\ OutcomeDecided /\ RowsExist /\ EntriesExist /\ RequestsLogged

\* The global lock does its job (RequestBackupUseCase, step 3): no two requests
\* are ever past it together, whatever fails and whoever crashes.
RequestsExclusive == \A j, k \in Jobs : InRequest(j) /\ InRequest(k) => j = k

\* The cluster lock does its job (ExecuteBackupUseCase): two workers never back
\* up the same cluster at the same time, whatever fails and whoever crashes.
BackupsExclusive ==
    \A j, k \in Jobs :
        InBackup(j) /\ InBackup(k) /\ ClusterOf[j] = ClusterOf[k] => j = k

\* Every way out of a guarded section releases its lock (the finally blocks): a lock
\* that is still taken belongs to a session in its section or to a process that was
\* killed there.  Only then has anybody to wait for the TTL.  A Redis that fails the
\* release (fault "redis") is left out.
OnlyTheDeadLeaveLocks ==
    \A j \in Jobs :
        /\ globalLock = Req(j) => InRequest(j) \/ pc[Req(j)] = "dead"
        /\ clusterLock[ClusterOf[j]] = Exe(j) => InBackup(j) \/ pc[Exe(j)] = "dead"

\* The worker never finds the job missing, so the lookup retry of the use case
\* always succeeds at its first try: the row is committed before the RQ entry
\* exists and no fault of the bot undoes that.
WorkerFindsRow == \A j \in Jobs : pc[Exe(j)] = "lookup" => row[j].status # "NONE"

\* The audit trail is never out of order: no backup starts that the trail does
\* not show as requested (audit before enqueue in RequestBackupUseCase).
StartedWasRequested ==
    \A j \in Jobs : "BACKUP_STARTED" \in audit[j] => "BACKUP_REQUESTED" \in audit[j]

\* The two stores agree: the audit log never reports a state that the jobs
\* table does not show, whatever crashes between a save and its audit entry.
AuditAgreesWithTable ==
    \A j \in Jobs :
        /\ "JOB_QUEUED" \in audit[j] => row[j].queueId
        /\ "BACKUP_STARTED" \in audit[j] => row[j].status \in {"RUNNING"} \cup Terminal
        /\ \A t \in audit[j] \cap Terminal : row[j].status = t

\* Only the session that wrote a token removes it, and the TTL: a holder that
\* comes back after its lock expired and was taken over must not delete the new
\* holder's lock (the token comparison of the release script).
LocksRemovedByOwner ==
    [][\A j \in Jobs :
          /\ globalLock = Req(j) /\ globalLock' # Req(j) =>
                globalLock' = NoToken /\ (pc'[Req(j)] # pc[Req(j)] \/ pc' = pc)
          /\ LET c == ClusterOf[j] IN
             clusterLock[c] = Exe(j) /\ clusterLock'[c] # Exe(j) =>
                clusterLock'[c] = NoToken /\ (pc'[Exe(j)] # pc[Exe(j)] \/ pc' = pc)]_vars

\* A finished row accounts for every collection of the job: SUCCESS has all of
\* them, FAILED none, PARTIAL_SUCCESS some of each, and none is missing.
\* (_finalize_job against the progress columns, across every crash.)
FinishedRowAddsUp ==
    \A j \in Jobs : LET r == row[j] IN
        /\ r.status = "SUCCESS" => r.failed = 0 /\ r.completed = r.total
        /\ r.status = "FAILED" => r.completed = 0 /\ r.failed = r.total /\ r.total > 0
        /\ r.status = "PARTIAL_SUCCESS" =>
              r.completed > 0 /\ r.failed > 0 /\ r.completed + r.failed = r.total

\* A job that was accepted ends: with a worker running and nothing failing, a
\* row does not stay PENDING, QUEUED or RUNNING, even when users cancel.
AcceptedJobsEnd ==
    \A j \in Jobs : row[j].status # "NONE" ~> row[j].status \in Terminal

\* A SIGTERM with two or more collections to go ends the job as CANCELLED: the
\* dump in progress is the last one (_cancel_check, cooperative shutdown).
ShutdownCancels ==
    \A j \in Jobs :
        (pc[Exe(j)] = "dump" /\ shutdown[j] /\ Remaining(j) >= 2)
            ~> (row[j].status = "CANCELLED" /\ row[j].by = System)

\* A cancellation that takes the RQ entry away before a worker got it is
\* reliable: the row becomes CANCELLED and no save that was under way, of the
\* request or of another cancellation, changes it again (JobManager.cancel_job).
QueuedCancelSticks ==
    \A j \in Jobs :
        [](rq[j] = "canceled" /\ pc[Exe(j)] = "idle" => <>[](row[j].status = "CANCELLED"))

\* The status a backup ends with reaches the status message and stays there
\* (README, Live Progress Tracking), unless a user cancelled the job: then the
\* message keeps what it showed.
FinalStatusIsShown ==
    \A j \in Jobs :
        [](row[j].status \in Terminal =>
             <>[](\/ ui[j] = row[j].status
                  \/ "JOB_CANCELLED" \in audit[j]))

\* A user who cancels a running backup is told so, and the job stays cancelled
\* (cmd_cancel, "Cancel a running or queued job by its identifier").
CancelledRunStaysCancelled ==
    [][\A j \in Jobs :
          row[j].status = "CANCELLED" /\ "BACKUP_STARTED" \in audit[j]
            => row'[j].status = "CANCELLED"]_vars

\* The message says that the worker failed only about a job whose row says so.
ErrorMessageMeansFailed ==
    \A j \in Jobs : ui[j] = "worker_error" ~> row[j].status = "FAILED"

\* The status column follows the state machine of the entity, for every process
\* that writes it.
Lifecycle == INSTANCE JobLifecycle WITH status <- [j \in Jobs |-> row[j].status]
FollowsLifecycle == Lifecycle!Spec
=============================================================================
