--------------------------- MODULE MCBackupExecution ---------------------------
(***************************************************************************)
(* Instance of BackupExecution for TLC: one job, every fault, and enough   *)
(* collections for it to end in each of its statuses.                      *)
(***************************************************************************)
EXTENDS BackupExecution

CONSTANTS j1, c1, alice

OneJob     == {j1}
OneCluster == {c1}
OneUser    == {alice}
Nobody     == {}

TheCluster == [j \in Jobs |-> c1]
AliceAsks  == [j \in Jobs |-> alice]
=============================================================================
