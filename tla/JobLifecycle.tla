----------------------------- MODULE JobLifecycle -----------------------------
(***************************************************************************)
(* What the jobs table promises: every job is created once, as PENDING,    *)
(* and from then on its status only moves along the entity's transitions.  *)
(* This is the abstract specification that BackupPlatform implements when  *)
(* no user cancels (FollowsLifecycle).                                     *)
(***************************************************************************)
EXTENDS BackupJob

CONSTANT Jobs

VARIABLE status     \* [Jobs -> JobStatus], "NONE" before the job exists

Init == status = [j \in Jobs |-> "NONE"]

\* JobManager.create_job.
Create(j) ==
    /\ status[j] = "NONE"
    /\ status' = [status EXCEPT ![j] = "PENDING"]

\* BackupJob._transition, saved.
Move(j) == \E s \in JobStatus :
    /\ CanTransition(status[j], s)
    /\ status' = [status EXCEPT ![j] = s]

Next == \E j \in Jobs : Create(j) \/ Move(j)

Spec == Init /\ [][Next]_status
=============================================================================
