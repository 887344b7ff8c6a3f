--------------------------- MODULE MCBackupPlatform ---------------------------
(***************************************************************************)
(* Instances of BackupPlatform for TLC.  Two jobs on one cluster are the   *)
(* smallest instance in which requests, locks and workers meet; two        *)
(* collections are the smallest in which a job can end in every status.    *)
(***************************************************************************)
EXTENDS BackupPlatform, TLC

CONSTANTS j1, j2, c1, alice, bob

OneJob    == {j1}
TwoJobs   == {j1, j2}
OneCluster == {c1}
Everyone  == {alice, bob}
OnlyBob   == {bob}
Nobody    == {}
OnlyAlice == {alice}

SameCluster == [j \in Jobs |-> c1]
AliceAsks   == [j \in Jobs |-> alice]
EachAsks    == [j \in Jobs |-> IF j = j1 THEN alice ELSE bob]
=============================================================================
