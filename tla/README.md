# TLA+ verification of the MongoDB Atlas Operations Automation Platform

The platform is a Telegram bot through which operators request MongoDB backups.
A request becomes a row in SQLite and an entry in a Redis/RQ queue; a worker
process executes it with `mongodump`, edits the original chat message as it goes,
and cleans old archives up. This directory holds TLA+ models of that program,
the TLC configurations that check them on small instances, and TLAPS proofs of
the properties that matter most. File references are relative to the repository
root.

## 1. Inventory

### Processes and shared state

| Process / store | What runs or lives there |
|---|---|
| bot | one asyncio loop (`app/telegram/bot.py`); every Telegram update is a coroutine with its own database session; a background task, `FSMTimeoutMonitor`, resets abandoned wizards |
| worker | RQ worker (`app/workers/backup_worker.py`); it forks one *horse* process per job, which runs `ExecuteBackupUseCase` in its own event loop |
| Redis | RQ entries (scheduled, started, finished, failed, canceled), the locks `backup:global` and `backup:cluster:<hash>` with a TTL of 3600 s and `size_query:global` with 300 s, aiogram's per-user update locks, FSM storage, rate-limit windows |
| SQLite | `jobs`, `users`, `audit_logs`, `rate_limits`; written by bot and worker, no row lock or version column |
| file system | `<base>/<cluster hash>/<job id>/...`, written by the worker, deleted by retention |
| Telegram | the status message of a job, edited by bot and worker |

### Components

| Component (code) | State | Operations | Talks to | Hard behaviour | What makes it correct |
|---|---|---|---|---|---|
| Job entity (`domain/entities/backup_job.py`) | status, queue id, cancelled_by, progress | `mark_*`, `can_be_cancelled_by` | everybody holds detached copies | stale copies | status only moves along the transition table |
| Job repository (`persistence/sql_job_repository.py`) | `jobs` table | `save`, `get_by_id`, lists, counts | bot, worker | `save` = SELECT, merge, UPDATE without a lock: lost updates | a finished row is consistent; a row never disappears |
| Redis locks (`queue/redis_lock_manager.py`) | one key per lock | `acquire`, `release`, expiry | request, worker | crash in the critical section, lost answer, TTL under a slow holder | mutual exclusion; only owners release, and all do unless they are killed |
| Request (`use_cases/request_backup.py`, `services/job_manager.py`) | the coroutine's entity | permission, lock, disk check, insert, audit, enqueue, mark queued | Redis, SQLite, RQ | the worker and a cancel run before it is over; errors and crashes between its stores | the worker finds the row; audit before start |
| Cancellation (`use_cases/cancel_job.py`, `JobManager.cancel_job`) | its stale entity | read, RQ cancel, save, audit | RQ, SQLite | races the request and the worker | a cancelled job stays cancelled and does not run |
| Execution (`use_cases/execute_backup.py`, `workers/backup_worker.py`) | entity, targets, shutdown flag | lookup, lock, run, dump loop, finalize, notify, retention | all | partial failure, SIGTERM, RQ timeout, kill, Telegram errors | counters match the status; the job ends; the message tells the truth |
| Queue (`queue/rq_job_queue.py`, RQ) | entries | `enqueue` (2 s delay), `cancel_job` | bot, worker | delay against the commit of the bot | an accepted job runs or is cancelled |
| Status message (`notifier/telegram_notifier.py`, `routers/backup.py`) | message text | edit with retries, global rate limit | Telegram | edits of two processes unordered | the last text is the final status (it need not be: section 4) |
| Backup wizard (`routers/backup.py`, `fsm_timeout.py`, `states/backup_states.py`) | FSM state and data per chat | choose type, databases, collections, page, confirm, run, cancel; timeout | request | the timeout monitor does not take the per-user lock | what is requested is what the user chose |
| Retention (`services/retention_manager.py`) | directory listing, running jobs | `cleanup_old_backups`, `enforce_max_storage` | file system, jobs | deletes while another job writes; stale in-use check | keeps at least one backup per type; never deletes one in use |
| Rate limiting (Redis and SQL repositories, middleware) | windows | `check_limit`, `increment` | every update | check-then-act, window boundary | never more than the limit in a window; one row per window |
| Dump engine (`backup/mongodump_engine.py`) | config file, subprocess, output file | spawn, drain, time out, validate, clean up | worker | partial output, cancellation in the middle | success only for a complete dump; nothing is left behind |
| Users (`use_cases/add_user.py`, `sql_user_repository.py`, `routers/admin.py`) | `users` | add, role, activate | SQLite | read-modify-write by two administrators, old buttons | no change undoes another; `/auth` never overwrites |
| Update pipeline (`telegram/middlewares/`, `telegram_role_validator.py`) | data of one update, cached answers of Telegram | error, topic, rate limit, auth, role, audit | every handler | the user is read once and used after awaits; errors after a change | revoked rights end; every change is audited |
| Size queries (`use_cases/query_size.py`, `routers/size.py`) | the lock `size_query:global` | query, page | MongoDB | crash or failed release under the lock | one query at a time; the lock ends with its query |
| Metrics, lists, health | none | queries | SQLite, MongoDB | none beyond their rate limit | read-only |
| Compressor, domain events | none | no caller in the backup flow | | | not modelled |
| Configuration, logging, keyboards, wiring, `alembic`, `scripts` | none over time | start-up and formatting | | | not modelled |

`PROJECT.json` repeats the list with its sources and lists, under `hazards`, every
place in this code where something can go wrong that a test would hardly reach.

## 2. Plan

In order of importance.

1. **The life of a job** (done): `BackupJob`, `SQLJobRepository`,
   `RedisLockManager`, composed by `BackupPlatform`; the abstract specification
   `JobLifecycle`; theorems in `BackupPlatformProofs`,
   `BackupOutcomeProofs` and `BackupExecutionProofs`.
2. **The wizard** (done): `BackupWizard`, with the timeout monitor.
3. **Retention** (done): `Retention`, concurrent clean-ups.
4. **Rate limiting** (done): the abstract `SlidingWindow`, and `RateLimit`, the two
   stores.
5. **Users and the update pipeline** (done): `Permissions`, `UpdatePipeline`.
6. **Dump engine** (done): `DumpEngine`, composed with the platform by
   `BackupExecution`.
7. **Theorems about the update pipeline** (done): all its safety properties.
8. **Theorems about outcomes and dumps** (done): the refinement of `JobLifecycle`,
   the finished rows, the audit log, the dumps on the disk, the engine's clean-up.
9. **Theorems about the wizard and retention** (done): both safety properties of each.
10. **The dumps with cancellations** (done): `CompletedAlwaysOnDisk` for any set of
   users who cancel.
11. **Next theorems**: that the limiter of backup requests admits at most the maximum per fixed
   window (from `RequestsAreCounted`, with a history of the admissions); what remains of the life of a job when users cancel
   (a row CANCELLED by a user leaves that status only by a save of its request or its
   execution).
12. **Next models**: the notifier's retries with Telegram's rate limit; the wizard
   with a failing Redis.

## 3. The modules and the code

| Module | Models | Kind |
|---|---|---|
| `BackupJob` | the entity's transition table, cancellation rule, `_finalize_job` | operators |
| `SQLJobRepository` | a row, and `save()` as a column-wise merge | operators |
| `RedisLockManager` | SET NX and the release script | operators |
| `JobLifecycle` | what the status column promises: created once, then only valid transitions | abstract specification |
| `BackupPlatform` | request, cancellation, execution, RQ, locks, faults | composition, refines `JobLifecycle` |
| `BackupPlatformProofs` | types, locks, rows, queue entries and audit order | TLAPS |
| `BackupOutcomeProofs` | the final rows, when nobody cancels; the refinement of `JobLifecycle` | TLAPS |
| `DumpEngine` | `MongodumpBackupEngine.backup_collection` and the mongodump process | component |
| `BackupExecution` | the platform with its dump engine | composition |
| `BackupExecutionProofs` | that it implements the platform; the dumps, config files and processes | TLAPS |
| `Permissions` | roles, topics, commands, the role ring | operators |
| `SlidingWindow` | what a rate limit promises | abstract specification |
| `SlidingWindowProofs` | that the promise bounds every period | TLAPS |
| `RateLimit` | the Redis sorted set and the SQL window | operators |
| `UpdatePipeline` | middlewares, user administration, size queries, the limiter of requests | state machine, refines `SlidingWindow` |
| `UpdatePipelineProofs` | types, size lock, audit | TLAPS |
| `UpdateGuardsProofs` | the two limiters; who changes the table users, and what | TLAPS |
| `BackupWizard` | the `/backup` wizard and the timeout monitor | state machine |
| `BackupWizardProofs` | one request per confirmation, and the one that was shown | TLAPS |
| `Retention` | `RetentionManager.apply_policy` by several workers | state machine |
| `RetentionProofs` | what survives, and what the size pass selects | TLAPS |
| `MCBackupPlatform`, `MCBackupExecution`, `MCUpdatePipeline`, `MCBackupWizard`, `MCRetention` | values for the constants | instances for TLC |

An operator whose comment begins "Mutant of" is a deliberately wrong variant of the
operator after it, the way a plausible bug would write it. No specification uses
it; it documents what the property named for it in `PROJECT.json` guards against,
and TLC finds that property violated when the variant takes its place.

Composition: `BackupPlatform` extends `SQLJobRepository` (which extends `BackupJob`)
and `RedisLockManager`. `BackupWizard` meets it in one step: `RequestBackup` stands
for the whole use case (accepted, refused, raised), whose inside is the request of
`BackupPlatform`. `BackupExecution` extends `BackupPlatform` and instantiates `DumpEngine`: a dump
starts with `ExecDump`, ends with `ExecCollected`, and what ends the execution in
between (`ExecTimeout`, `HorseKill`) is one step of both. `UpdatePipeline` extends
`RateLimit`, `Permissions` and `RedisLockManager`; its kind `confirm` ends where the
request of `BackupPlatform` begins (after the limiter), and its `answer` where the
handlers of `BackupWizard` work. `Retention` hangs on the step before `ExecRelease`: `Finish(j)` is
a backup that reached `_apply_retention`.

### BackupPlatform, in detail

Every coroutine or horse is a *session*: `Req(j)` the request that creates job
`j`, `Exe(j)` its execution, `Can(u, j)` a cancellation by user `u`. A session is
also the token it writes into a lock. `pc[s]` says which call session `s` makes
next; one action is the code up to and including the next access to shared state,
which is where another process can get in between.

| Variable | In the code |
|---|---|
| `row` | the `jobs` table |
| `audit` | which audit events exist for the job |
| `rq` | status of the RQ entry |
| `globalLock`, `clusterLock` | the two kinds of Redis lock |
| `ent` | the detached `BackupJob` each session works on |
| `orm` | the row the SELECT of `save()` loaded, until its UPDATE |
| `targets` | number of resolved collections (`_resolve_targets`) |
| `shutdown` | `_shutdown_requested` of the horse |
| `ui` | last text of the status message |

*Requests* (`RequestDeny` … `RequestReply`) follow `RequestBackupUseCase.execute`:
the lock is tried once, the PENDING row inserted and committed, BACKUP_REQUESTED
logged, the job read again, the RQ entry scheduled, the row saved as QUEUED,
JOB_QUEUED logged, the lock released in `finally`, and then the handler edits the
message. `RequestRaise` lets any of these calls fail.
*Cancellations* (`CancelRead` … `CancelFinish`) read the job, check the right to
cancel, cancel the RQ entry if the row read was QUEUED, and save CANCELLED onto
whatever the row is by then. A user may cancel again and again.
*Executions* (`Dispatch`, `ExecLookup` … `ExecRelease`) follow the worker: RQ
hands over a due entry, the row is looked up, the cluster lock tried once,
`mark_running` saved, targets resolved, then one dump and one progress save per
collection, the final status saved, logged and shown, retention, release.
`ExecRaise` and `ExecAlert` are the exception path. `ExecTimeout` is RQ's job timeout
when it cancels the waiting coroutine; raised inside the code of the coroutine,
JobTimeoutException is an ordinary exception, which is `ExecRaise` or, in a dump, a
failed collection. `JobNotFoundError` after five look-ups is left out because
`WorkerFindsRow` makes it unreachable.
*Environment*: `HorseKill`, `BotCrash`, `Sigterm`, `ExpireGlobal`, `ExpireCluster`.

`SaveLoad` and `SaveWrite` are the two halves of `SQLJobRepository.save`: the flush
writes only the columns in which the entity differs from the row just loaded, so
two interleaved saves mix their columns (`Merged`).

Parameters that stand for an assumption about the environment:

* `Faults` names the faults an instance allows: `raise` (any database, Redis or
  file system error), `timeout` (RQ's job timeout), `horse_kill`, `bot_crash`,
  `sigterm`, `telegram` (an edit is lost after all retries) and `redis` (the answer
  of SET is lost, or a release fails and is only logged). Safety theorems hold for
  every subset.
* `TtlOutlivesHolder`: no lock expires under a living holder. The TTL is 3600 s, a
  request takes seconds and RQ's default job timeout is 180 s (the horse is killed
  60 s later). Mutual exclusion needs this; that only owners release
  (`LocksRemovedByOwner`) and that they do release (`OnlyTheDeadLeaveLocks`) is
  checked and proved without it.
* `DelayCovers`: what the request has always done when the 2 s delay of `enqueue_in`
  is over: `nothing`, or `commit`, the save of the QUEUED row, which is what the
  delay is for (`rq_job_queue.py:86`). Safety is checked with `nothing`. Progress
  needs `commit`: a worker that comes earlier refuses the PENDING row for good, and
  SQLite's busy timeout of 15 s makes that possible, so `AcceptedJobsEnd` holds only
  as far as this assumption does. Nothing orders the bot's reply after the delay; what
  that means for the status message is the run `final_status_overwritten`.

Abstractions: an id is a model value; a collection is a number; a dump is one
success or failure; a cluster's output files, the audit entry's fields and
correlation ids are left out; a job is requested once and has one RQ entry. A
cancellation that the rules refuse changes nothing and is not a step. The bot's
per-user ordering of updates is *not* assumed: cancellations of one job by one
user are sequential, everything else interleaves freely.

### BackupWizard, in detail

`state` and `data` are the FSM storage, `active` the sorted set of last
interactions (a score is fresh or older than ten minutes), `screens` the wizard
messages with the buttons they still show, `handler` the update in progress with
what it has read, `monitor` and `expired` the position of `_check_timeouts`. A
handler is one definition whose disjuncts are its Redis calls in order: `Press`
(filter and touch), `Read`, `SetState`, `Load` and `Store` (the two halves of
`update_data`). The monitor takes no lock, so it may act between any two of them.
`fresh` and `trusted` are history variables of the properties.

### Retention, in detail

`present` are the archives on disk, `mtime` their modification times (kept after a
deletion, so a property can ask what once existed).
Each finished job runs the two passes: `ListByAge`, `PlanByAge`, `Delete`...,
`ListBySize`, `PlanBySize`, `Delete`.... `Vanished` is the stat of a file that
another clean-up deleted after the listing. The in-use check is left out because
no listed path lies inside a job's output directory.

### DumpEngine and BackupExecution, in detail

`stage` is where `backup_collection` is, `config` whether its temporary file with
the URI exists, `mongodump` the state of the subprocess and `file` what is on the
disk for each collection: nothing, a part, or the whole dump. mongodump is a process
of its own: `MongodumpExits` may come at any time, also after the horse is gone.
`TimesOut` is the branch of `asyncio.wait_for` (kill, wait), `Cancelled` a
cancellation of the coroutine from outside: the `finally` block removes the config
file, nothing kills mongodump. A killed horse leaves everything. `DumpEnds` ties the
result of the engine to the counters of the job, so `CompletedAreOnDisk` relates
the table to the disk. RQ's job timeout (180 s by default) is shorter than the dump
timeout (300 s), so `ExecTimeout` usually comes first; the model allows both, in any
order, because both are configurable or may be.

### UpdatePipeline, in detail

An update is a task; `task[t].pc` names the call it makes next, and the record
carries what the code keeps in local variables across its awaits: the principal
(`who`), the row a SELECT returned (`row`), the row of the limiter (`quota`).

| Variable | In the code |
|---|---|
| `hits` | the sorted sets `rate_limit:<user>:<action>` in Redis |
| `quota` | the table `rate_limits` (action BACKUP) |
| `users`, `log` | the tables `users` and `audit_logs` |
| `isolation` | aiogram's lock of a user's updates in Redis |
| `sizeLock` | the lock `size_query:global` |
| `cache` | the `TTLCache` of `TelegramRoleValidator` |
| `admins` | who administers the chat, as Telegram knows it |
| `shown` | role buttons still in the chat (a button carries the role it showed) |
| `admitted`, `changed`, `lost`, `revoked` | history, for the properties only |
| `overtaken` | history: the tasks of each user whose update lock expired before their last message |

A step is the code up to the next access to something shared: the check of the
limiter and its increment are two scripts, hence two steps; `toggle_active` and
`update_role` are a SELECT and an UPDATE of the column that changed; `/auth` looks
the user up twice (`AddCheck`, `AddLoad`) before it writes. Faults: an exception from
any call (`raise`), an error of Telegram's API, a lost answer or failed release of the
size lock, a failed audit entry, and a crash of the bot, which loses tasks and cache and leaves the locks.

Assumptions about the environment:

* The update lock (60 s) outlives the two Redis calls of the rate limiter, which come
  first. Anywhere later it may expire under its living holder, who goes on without it:
  `get_chat_member`, `callback.answer()`, the messages and MongoDB can each wait as long
  as that. What a property claims for a holder that was overtaken so is said in the
  property, by `overtaken`: `OneQuotaRow` and `RequestsAreCounted` make no claim for
  requests that were. Such requests can interleave between the SELECT of the limiter and
  its write, and then they make a second row or lose a count: the "atomic
  increment-and-check" of `request_backup.py:108` is as atomic as that lock is lasting.
* The size lock (300 s) outlives a query.
* Telegram's answer is stored without a tick of the clock in between: the cache
  lifetime is 600 s and the two lines follow each other.
* Both limiters have the same maximum and window, as `build_request_backup_use_case`
  passes them (`rate_limit_max_requests`, `rate_limit_window_seconds`).
* The lists show what the table held when the query ran, even if the edit of the
  message fails afterwards: more buttons than there are, never fewer.

## 4. Runs

| Run | Instance | What it shows |
|---|---|---|
| `core_safety` | 2 jobs of 2 users, 1 cluster, 2 workers, no collections, one user cancels repeatedly; raise, horse_kill | `TypeOK`, `RequestsExclusive`, `BackupsExclusive`, `OnlyTheDeadLeaveLocks`. Two jobs of two users on one cluster, two workers, one user cancelling at any time, errors anywhere and killed horses: the two locks serialise what they guard, every way out of a guarded section releases its lock, and every variable keeps its type. |
| `core_lifecycle` | 1 job with its dump engine, up to 3 collections, no cancellation; every fault | `FinishedRowAddsUp`, `AuditAgreesWithTable`, `CompletedAreOnDisk`, `ConfigFilesRemoved`, `MongodumpEndsWithItsDump`, `WorkerFindsRow`, `StartedWasRequested`, `FollowsLifecycle`. One job with its dumps through every fault, without user cancellations: the worker finds its row, no backup starts without its audit entry, the status follows the entity's state machine, a finished row adds up and is covered by the files on the disk, the audit log never contradicts it, and neither a config file nor a mongodump is left behind. |
| `core_recovery` | 2 jobs, 2 workers, locks may expire under living holders; horse_kill, timeout, bot_crash, redis | `LocksRemovedByOwner`. Locks whose holders die, time out, hang past the TTL or lose Redis answers: nobody deletes another owner's lock. |
| `core_progress` | 2 jobs of 2 users, 1 worker, up to 3 collections, nobody cancels; sigterm; `DelayCovers = "commit"`; fair | `AcceptedJobsEnd`, `ShutdownCancels`. Two jobs of two users on one cluster and one worker, with up to three collections and SIGTERM at any point: once the delay covers the commit, every accepted job reaches a terminal status, and a shutdown ends its job. |
| `core_cancel` | 1 job without collections, its owner and an administrator cancel repeatedly; no faults; `DelayCovers = "commit"`; fair | `AcceptedJobsEnd`, `QueuedCancelSticks`. One job that its owner and an administrator cancel, at once and again and again, while its request saves QUEUED and a worker may get it: a cancellation that beats the worker is final, and the job ends however the three meet. |
| `cancel_is_overwritten` | 1 job, its owner cancels, no faults (violation) | `CancelledRunStaysCancelled`. A cancellation of a running job is overwritten by the worker's next save, and the job ends as SUCCESS. |
| `error_without_failure` | 1 job; raise; fair (violation) | `ErrorMessageMeansFailed`. An exception in the worker makes the message say FAILED while the row stays QUEUED, RUNNING or SUCCESS for ever. |
| `final_status_overwritten` | 1 job of up to 1 collection, nobody cancels, no faults; `DelayCovers = "commit"`; fair (violation) | `FinalStatusIsShown`. The bot's late reply "Backup en cola" overwrites the final status of a short backup in the job's message, and nothing edits it again. |
| `wizard` | 1 user, 2 databases (one empty), 2 collections, 2 `/backup` commands; raise; fair | `OneRequestPerConfirmation`, `RequestMatchesSummary`, `AbandonedWizardsExpire`. One user through two wizards with old keyboards, failing calls and the timeout monitor at any point: a confirmation runs at most once and as shown, and an abandoned wizard expires. |
| `wizard_reset` | the same without failing calls (violation) | `RestingWizardsStartOver`. The monitor resets a wizard under a running handler, which then moves it from idle to confirming with its data gone. |
| `retention` | 2 clean-ups, 5 archives of all types, clock up to 6; failing deletions | `OneOfEachTypeSurvives`, `SizePassFollowsPolicy`. Two concurrent clean-ups of five archives that arrive at any time, with failing deletions: a type is never wiped out and each size pass selects what the policy asks for. |
| `updates` | 2 users, each an administrator in another way, 2 updates: changes of the table `users`, reports, confirmations, size queries and pages; limit, window and cache lifetime 1, clock up to 1; raise, telegram, redis, audit, crash | `TypeOK`, `OneQuotaRow`, `LocksHaveOwners`, `SizeQueriesExclusive`, `ChangesAreAudited`, `KeepsSlidingWindow`, `RequestsAreCounted`, `OnlyRecentAdminsChangeUsers`, `ChangesTouchOneColumn`, `AddKeepsRegistered`. Updates of two administrators through the whole stack with every fault and with update locks that expire under waiting holders: changes of the table users and of each other's rights, backup requests, size queries. Rights end with the cache, no change undoes another, every change is audited, both limiters hold as far as the locks do, one size query runs at a time, and only a dead bot or a failing Redis leaves a lock behind. |

The runs named "violation" report disagreements between the code and its
documentation; `PROJECT.json` quotes the lines:

* `cancel_is_overwritten`: the worker never re-reads the row; a `/cancel` of a
  running job is confirmed to the user and then overwritten by the next save.
* `error_without_failure`: an exception in the worker makes the message say FAILED
  while the row keeps QUEUED or RUNNING for ever, or SUCCESS when only the audit
  entry or retention failed.
* `final_status_overwritten`: the bot's "Backup en cola" and the worker's final status
  are edits of the same message by two processes that nothing orders but the 2 s
  delay; when the bot's edit comes last, it stays.
* `wizard_reset`: the monitor resets a wizard under a running handler, which then
  moves it from idle to the confirmation with its data gone.

### Bounds, and why they are enough

Locks, queue and rows of different jobs meet only through the two locks and the
worker slots, so two jobs on one cluster with two workers contain every pairwise
conflict; runs about one row (its savers, its message, its counters) use one job,
because no other job writes it. Two collections suffice for every final status;
the runs about loops allow three, so that a shutdown can come before, between and
during dumps, and every smaller number, including none, is explored. Two users
give the administrator/requester distinction; in `core_cancel` both cancel, so two
cancellations of one job run at once; in `core_safety` and `cancel_is_overwritten` one
user cancels, and in the other runs nobody. A cancellation of a waiting job
and the wait itself are thus checked apart for progress (`core_cancel` has one job,
`core_progress` has two and no cancellation).
A job is requested and executed once because nothing in the code requeues an
entry (`retry_job` has no caller). Where the theorems of section 5 apply, the
bounds do not matter at all.

Wizards of different users share only the monitor's loop, so one user suffices;
two `/backup` commands leave one old keyboard beside the current one, which is
what confusions between wizards need; two databases, one of them empty, and two
collections reach every branch of the handlers. In `updates` two tasks are the
smallest number that interleave: what changes the table `users` meets
its like from the other user, a request one of the same user, a size query one of either
user, and the reports follow a change; one administrator by Telegram and one by the table
give both sources of rights and both ways to lose them; a limit, a window and a
cache lifetime of one make their boundaries fall inside a clock of two values. The
theorems cover every other value. `core_safety` has two jobs of everything and a canceller, and
therefore two kinds of fault, an exception in any call and a killed horse; crashes and
timeouts are in `core_lifecycle` and `core_recovery`, and its invariants are theorems
for every set of faults (`OnlyTheDeadLeaveLocks` for every set without "redis"). Two clean-ups are the smallest
company; two archives per known type and one of no known type, with sizes 2 and
1, a cap of 2 and windows of 2 and 1, make both passes select, skip and stop.

### Deadlock and fairness

Deadlock checking is off: when all jobs are done or failed, a platform with
finitely many requests rests.
The fair runs assume weak fairness of the steps a coroutine or horse takes by itself,
and of `Dispatch` (RQ serves due entries while a worker is free); in the wizard, of
the monitor's loop, of the passing of time, and of handlers once begun. No property
counts on the expiry of a lock: in the instances of the fair runs whoever takes one
releases it. The update pipeline is checked for safety only.
asyncio runs every ready coroutine, a horse is a process of its own, and RQ polls, so
each of these happens eventually unless a fault of the instance ends it. Users (requests, cancellations, button presses, updates), time and faults have
no fairness: they may never act. Progress properties are checked without the
faults that break them by design: after `raise`, `timeout` or `horse_kill` nothing
in the code ever completes the row, which is what `error_without_failure` reports.

## 5. Proofs

The theorems hold for all values of the constants that satisfy the named
assumptions: for the platform `PlatformAssumption`, `UsersAssumption` and
`TokenAssumption` (a token is not "no token", a system id is not a user), for the
updates `RateLimitAssumption` and `UpdatePipelineAssumption` (numbers are naturals,
the initial tables and the sets of updates are of their types, the lock tokens
differ), for the wizard `WizardAssumption`, for retention `RetentionAssumption`.

| Theorem | Statement |
|---|---|
| `TypeCorrect` | Every variable keeps its type, for any jobs, users, clusters, workers and faults. |
| `RequestsAreExclusive` | While locks outlive their holders' sections, the global lock serialises requests, whatever fails. |
| `BackupsAreExclusive` | While locks outlive their holders' sections, two executions never work on the same cluster together. |
| `InductiveInvariant` | The strengthening behind the safety theorems (types, decided outcomes, existing rows, entries and audit entries) is an invariant. |
| `WorkerAlwaysFindsRow` | A worker that picks up a job finds its row, even with cancellations and crashes. |
| `StartedWasAlwaysRequested` | No backup starts that the audit log does not show as requested. |
| `FinallyReleases` | While Redis answers, whatever raises, times out or ends releases its lock: only a killed process leaves one behind, also when locks expire under living holders. |
| `LocksOnlyRemovedByOwner` | A token leaves a lock only by a step of its own session or by expiry, even when locks expire under living holders. |
| `RowHasOneWriter` | As long as nobody cancels, request and execution always know the row they write: no save misses a write of the other, whatever fails. |
| `LifecycleIsFollowed` | As long as nobody cancels, the platform implements JobLifecycle, although save() checks no transition. |
| `FinishedRowsAddUp` | As long as nobody cancels, a finished row accounts for every collection of its job. |
| `AuditAgrees` | As long as nobody cancels, the audit log reports nothing that the jobs table does not show. |
| `ExecutionRefinesPlatform` | The composition with the dump engine implements the platform, so the platform's theorems hold for it. |
| `ConfigFilesAreRemoved` | A config file with a cluster's URI outlives its dump only when its horse is killed. |
| `CompletedAlwaysOnDisk` | A row never claims more collections than there are whole dumps on the disk, whatever fails and whoever cancels. |
| `MongodumpNeverLeftBehind` | No mongodump runs beside the rest of its job unless the execution was cut short. |
| `SlidingWindowLimits` | The abstract rate limiter never admits more than the limit in any period of one window's length, past periods included. |
| `UpdatesTypeCorrect` | Every variable keeps its type, and no row of the users table ever has an unknown role, for any users, updates and faults. |
| `SizeQueriesAreExclusive` | Two size queries never run at once, whatever fails and whoever crashes. |
| `LocksAreOwned` | A user's update lock names a live update of that user and the size lock a running query, or a token that nobody knows any more (the bot died, or Redis failed). |
| `ChangesGetAudited` | An update that changed the users table ends with an audit entry, unless the bot dies or the entry itself fails. |
| `QuotaHasOneRow` | A second live row of a user in the fixed-window table comes only from a request that had lost its update lock: requests that kept theirs never make one, although the lock may expire under any task that waits for Telegram or MongoDB. |
| `EveryRequestCounts` | For a user none of whose updates outlived its lock, the fixed-window counter loses no increment: a request adds exactly one to the live row there is at its UPDATE, whatever the updates of others do. |
| `LimiterImplementsWindow` | The Redis limiter, with its check and its increment as separate scripts, implements the abstract sliding window. |
| `LimitIsKept` | In every period of a window's length the middleware admits at most the configured number of updates of a user and action. |
| `ChangersAreAdmins` | The users table changes only through somebody who had an administrator's rights when the update began or less than a cache lifetime before. |
| `ChangesKeepOtherColumn` | A role change never touches the flag of a user and a toggle never the role, however the two interleave. |
| `AddLeavesRegistered` | /auth never changes a user who was registered when the command came in. |
| `RetentionInvariant` | Types, distinct times, and the strengthening: the newest archive of each type is on the disk and in nobody's plan. |
| `EveryTypeSurvives` | A known type that was ever stored is never wiped out, for any number of clean-ups and archives, with failing deletions. |
| `SizePassSelectsByPolicy` | Every size pass selects what the policy asks for: enough, oldest first, no more than needed, and never the last of a known type. |
| `WizardInvariant` | The strengthening behind the wizard's theorems: what a handler has read and what the storage holds agree with the summary on the screen, unless the timeout monitor came in between. |
| `OneRequestEach` | A wizard that the monitor left alone makes at most one request, for any users, databases and old keyboards. |
| `RequestIsTheSummary` | What is requested is what the summary showed when the user pressed the button. |

**The argument, platform.** `TypeOK` is not inductive: the audit event and the message
text an execution writes at its end are of the right type only because the outcome
was decided before, so it is proved together with `OutcomeDecided`.
`WorkerFindsRow` needs that an entry's row was inserted and that no save turns it
back: a save writes the entity's status, so every entity in flight must itself
have come from an existing row (`RowsExist`); a cancellation may reach RQ's cancel
for an entry only if the entry exists, which follows from the queue id it read,
so every queue id in a row or entity must name an entry (`EntriesExist`).
`StartedWasRequested` rests on `RequestsLogged`: the entry exists only after the
audit entry. Their conjunction `Inductive` is closed under every step. The two
exclusion theorems use `LocksHeld` (whoever is in a guarded section holds its
lock), which is inductive under `TtlOutlivesHolder`: a lock is only taken when
free, released only by its token, and expires only when its session is over.
`FinallyReleases` is the converse (a lock that names a living session finds it in its
guarded section); it is inductive by itself, needs no such assumption, and holds
while Redis does not fail a release.
`LocksOnlyRemovedByOwner` is an action property and needs only types.

**The argument, outcomes.** `BackupOutcomeProofs` assumes `Cancellers = {}`: with a
cancellation a row has two writers, and the run `cancel_is_overwritten` shows a status
that leaves the state machine. The hypothesis cannot be dropped: with one user who
cancels, TLC finds a finished row that does not add up (status FAILED with one failed
collection of two: the columns of the cancellation's save and the execution's mix), a status that moves
against the lifecycle, and an audit entry that the row contradicts. A save writes what its session knows and takes no lock, so the invariant `OutcomeInv`
says what request and execution know of the row at each step: until the request
saved QUEUED the row is as it was created; an execution that read it earlier is
refused by the state machine, and one that read it later finds the request past its
only save. So the row has one writer at a time, a save leaves exactly the entity
(`SaveReplaces`), and the status moves as the entity's does (`LifecycleIsFollowed`).
The counters of the entity stay within the number of targets (`Counts`), from which
`_finalize_job`'s status adds up.

**The argument, dumps.** `BackupExecution` implements the platform because each of its
steps is one of the platform's or none, so the theorems above carry over.
`EngineOwns` says which stages of the engine own the config file and the process.
`DiskInv` says that collections whose turn has not come have no file
(`NothingAhead`), that mongodump runs only over a missing file and a success means a
whole one (`FileSoFar`), and that nobody who writes the row knows of more completed
collections than there are whole dumps other than the current one
(`CountedAreOnDisk`); a success adds the current one to both. It speaks of all sessions
of the job, not only of the row: a cancellation saves a counter it read long ago, and
the row takes it over. But a save only copies a counter somebody knew (`MergedCounter`),
so nothing but a finished collection brings a new one (`NothingNewCounted`), and the
theorem needs no assumption about who cancels.

**The argument, updates.** `Types` is `TypeOK` together with `RowsKept` (a task that
is about to update a row has loaded a registered user, and rows are never deleted):
without it the UPDATE of one column could make a row of no role. Frame lemmas say
once what a step of task `t` leaves alone, and the step lemmas group the actions by
what they touch, so that each invariant needs cases only for the few that matter.
*The update lock* may expire under any task but one that is between its receipt and
the increment of the middleware's limiter. `LockInv` says what is left: a task that
has not reached its last message (`Working`) holds its user's lock or is in `overtaken`, so
of two tasks of one user that work at once one was overtaken (`WorkingAlone`).
*The limiter of requests*: `QuotaInv` makes that a statement about rows. Rows bear the
number of the request that inserted them, which is over or at its write (`RowsAreOld`), and keep
their start (`RowsKeepStart`); what a request has loaded still stands in the table, if
with another count (`LoadedStands`); one that kept its lock and found nothing will find
at its write only rows of overtaken requests (`NothingFound`); and for a user none of
whose updates was overtaken it has seen all there is (`AllSeen`). `QuotaHasOneRow` and
`EveryRequestCounts` follow. *Locks*: `LocksAreOwned` needs that tasks are numbered
as they come in (`Numbered`), so that a token is never one of a task still to come.
*The limiter of the middleware*: `LimitInv` says that the sorted
set of a key holds every admission that is still in the window, and nothing else
that counts (`TrimIsWindow`), and that a task which passed the check still finds room
when it increments, since nobody else adds to its key; so `LimitIncrement` is `Admit`
of `SlidingWindow`, `Tick` is `Tick`, everything else stutters. `SlidingWindowProofs`
shows what that promise is worth: the limit holds for every period that has ended,
not only at the moments of admission. `LimitIsKept` combines both.
*Rights*: `RightsInv` follows an administrator's right from Telegram's answer or the
row through the cache and the task: as long as it is used, its owner had it when the
update began, or lost it less than `Ttl` before. *Additions*: `KnownInv` says that who
was registered when a task began still is, rows being never deleted, and that a task
which is about to insert does not insert one of them. *Audit*: `AuditInv` says that a
task which changed the table is on its way to the audit entry, and nothing but that
entry ends it.

**The argument, wizard.** `OneRequestPerConfirmation` is not inductive: that a request
is under way only while `fresh` holds needs to know who can bring a wizard to
"confirming", hence `Confirmable`, and that the handler which requested is the one that
will clear the state (aiogram runs one update of a user at a time). `RequestMatchesSummary`
needs what `trusted` promises at each step of a handler: its message is the newest and
carries the buttons of that state (`OwnMessage`), its data are those that are stored
(`DataAsRead`), beyond the choice of databases the stored type is "CUSTOM"
(`CustomStored`), and the summary on the screen shows the stored selection
(`SummaryShown`). The monitor and older keyboards withdraw the trust, so these parts are
only claimed under it; `Confirmable` and the types are claimed always. A step belongs
to one user, and `SameKeeps` disposes of the others. TLC checked `WizardInv` on the
instance of the run `wizard` before it was proved.

**The argument, retention.** A clean-up works on a listing that others have deleted
from, so its own "keep one" says nothing about the disk. What holds is stronger: the
*newest* archive of a type is on the disk and in nobody's plan (`NewestKept`), because
each pass keeps the newest of what it has listed, and an archive that is newer than the
listing is not in it. For the pass by size, `PassedIsChosen` says by induction over the
loop that after time `n` exactly those files up to `n` are selected that found the rest
too large and were not the last of their type; the clauses of `SizeSelection` follow:
`FitsEndsTheLoop` (no more than needed), `OlderIsNotLast` (oldest first),
`NewestNotSelected` (no type is wiped out).

**Not proved, only model-checked.** The liveness properties (fairness and ENABLED are out
of the prover's reach): `ShutdownCancels`, `QueuedCancelSticks`, `AcceptedJobsEnd` and `AbandonedWizardsExpire`.
Every invariant and
every action property of a passing run is a theorem.

*Induction.* The theorems on induction in the library take an operator as a parameter.
`RetentionProofs` proves induction for a given *set* of numbers from the least element
of its complement, which is enough for a loop of the model whose statement is made into
such a set; what a loop returns is then proved for every input.

## 6. Not modelled

* Telegram's own limits: the notifier's limiter in front of it only delays edits, and
  edits may already be late or lost in the models.
* The answers of read-only queries (sizes, metrics, job lists, health): only their
  place in the pipeline, their lock and their audit entries are modelled.
* Contents: file formats, texts, layout of keyboards, correlation ids, sizes of dumps.
* The middleware's fallback to the SQL limiter when there is no Redis client
  (`app/__main__.py` always passes one), and `reset()` of both limiters, which has no
  caller.
* The 60 s timeout of aiogram's per-user lock in `BackupWizard`: handlers are assumed
  shorter there, so the updates of one user are serial. A handler that waits for Telegram
  or MongoDB for a minute lets the next press of its user in, and the wizard's theorems
  say nothing of that case. `UpdatePipeline` models the expiry.
* The dumps among the files of a clean-up. It lists `base.glob("backup_*.tar.gz")`
  (`retention_manager.py:87`, `:119`), while the worker writes
  `<base>/<hash>/<job id>/<db>/<collection>.bson` (`execute_backup.py:155`) and nothing
  in the repository makes an archive of it: as the code stands, no dump is ever deleted and
  the storage cap of `README.md:49` does not hold for them. `Retention` shows what the
  policy does with the archives that somebody puts there.
* `on_db_continuar` answers a callback without an accessible message with nothing
  (`backup.py:250`): it ends there as after a failing call.
* Exceptions of `_drain_streams` other than its timeout (`mongodump_engine.py:286`), RQ's
  JobTimeoutException among them when it is raised there: `execute_backup.py:306` counts a
  failed collection, the config file is removed, but nothing kills mongodump, which may run
  beside the next collection. `MongodumpEndsWithItsDump` says nothing of that case.
* A failing Redis inside a wizard handler, and a bot crash there: between an
  accepted request and `state.clear()` it leaves a wizard that can be confirmed
  again. It is listed as a hazard.
* Equal modification times of archives (their order would then be the directory's).
* Configuration, logging, domain events, compressor, `alembic`, `scripts`: start-up,
  formatting, or without a caller.
