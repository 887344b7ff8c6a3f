--------------------------- MODULE SQLJobRepository ---------------------------
(***************************************************************************)
(* The jobs table as SQLJobRepository reads and writes it                  *)
(* (app/infrastructure/persistence/sql_job_repository.py).                 *)
(*                                                                         *)
(* Callers work on a detached domain entity that get_by_id built.  save()  *)
(* selects the row again, copies every attribute of the entity onto the    *)
(* ORM object, flushes and commits.  The session's identity map holds its  *)
(* objects weakly and nothing else refers to them between two calls, so    *)
(* the SELECT loads the row as it is then; the flush writes only the       *)
(* columns whose new value differs from the loaded one.  No lock is held   *)
(* between the SELECT and the UPDATE (SQLite begins the transaction with   *)
(* the first write), so a save is two steps: load the row, then merge the  *)
(* entity, column by column, into a row that another session may have      *)
(* changed in between.  The refresh after the flush only reads.            *)
(***************************************************************************)
EXTENDS BackupJob

CONSTANTS Users,      \* Telegram users of the platform
          NoUser,     \* cancelled_by IS NULL
          System      \* BackupJob.SYSTEM_TELEGRAM_ID

ASSUME UsersAssumption == NoUser \notin Users \cup {System} /\ System \notin Users

\* The columns the model keeps.  "NONE" is the status of a row not inserted
\* yet; queueId says whether queue_job_id is set; total, completed and failed
\* are the progress columns, 0 while they are NULL.
Row == [status    : JobStatus \cup {"NONE"},
        by        : Users \cup {NoUser, System},
        queueId   : BOOLEAN,
        total     : Nat,
        completed : Nat,
        failed    : Nat]

NoRow == [status |-> "NONE", by |-> NoUser, queueId |-> FALSE,
          total |-> 0, completed |-> 0, failed |-> 0]

\* Mutant of NewRow: _to_orm leaves the status column out.
NewRowWithoutStatus == [NoRow EXCEPT !.status = "NULL"]

\* The row create_job inserts: BackupJob's defaults through _to_orm.
NewRow == [NoRow EXCEPT !.status = "PENDING"]

\* One column of an UPDATE: written only if the entity changed it.
Column(stored, loaded, value) == IF value # loaded THEN value ELSE stored

\* The stored row after the UPDATE of save(entity) whose SELECT had returned
\* "loaded".  An entity without progress leaves the progress columns alone.
Merged(stored, loaded, entity) ==
    LET Progress(s, l, e) == IF entity.total = 0 THEN s ELSE Column(s, l, e)
    IN  [status    |-> Column(stored.status,  loaded.status,  entity.status),
         by        |-> Column(stored.by,      loaded.by,      entity.by),
         queueId   |-> Column(stored.queueId, loaded.queueId, entity.queueId),
         total     |-> Progress(stored.total, loaded.total, entity.total),
         completed |-> Progress(stored.completed, loaded.completed, entity.completed),
         failed    |-> Progress(stored.failed, loaded.failed, entity.failed)]
=============================================================================
