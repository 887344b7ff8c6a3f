------------------------------ MODULE BackupJob ------------------------------
(***************************************************************************)
(* The domain entity of app/domain/entities/backup_job.py: the finite      *)
(* state machine of a backup job, the rule that says who may cancel it,    *)
(* and the status an execution ends with.  Constant level only; the        *)
(* modules that keep jobs in a database or in memory extend it.            *)
(***************************************************************************)
EXTENDS Naturals

\* JobStatus (app/domain/value_objects/enums.py).
Terminal  == {"SUCCESS", "FAILED", "PARTIAL_SUCCESS", "CANCELLED"}
JobStatus == {"PENDING", "QUEUED", "RUNNING"} \cup Terminal

\* The adjacency list _VALID_TRANSITIONS.
ValidTransitions ==
    {<<"PENDING", "QUEUED">>, <<"PENDING", "CANCELLED">>}
      \cup {<<"QUEUED", "RUNNING">>, <<"QUEUED", "CANCELLED">>}
      \cup ({"RUNNING"} \X Terminal)

\* The guard of BackupJob._transition, and so of every mark_* method.
CanTransition(from, to) == <<from, to>> \in ValidTransitions

\* BackupJob.can_be_cancelled_by for an active user.
CanBeCancelledBy(status, isAdmin, isRequester) ==
    status \notin Terminal /\ (isAdmin \/ isRequester)

\* Mutant of FinalStatus: one failed collection no longer degrades the job.
FinalStatusIgnoresFailures(wasCancelled, total, failed) ==
    CASE wasCancelled                     -> "CANCELLED"
      [] ~wasCancelled /\ failed < total  -> "SUCCESS"
      [] OTHER                            -> "FAILED"

\* ExecuteBackupUseCase._finalize_job: the terminal status of an execution
\* with "failed" failed collections out of "total" targets.  A job with no
\* target at all succeeds.
FinalStatus(wasCancelled, total, failed) ==
    CASE wasCancelled                                      -> "CANCELLED"
      [] ~wasCancelled /\ total > 0 /\ failed = total      -> "FAILED"
      [] ~wasCancelled /\ failed > 0 /\ failed # total     -> "PARTIAL_SUCCESS"
      [] OTHER                                             -> "SUCCESS"
=============================================================================
