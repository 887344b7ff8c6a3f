---------------------------- MODULE MCBackupWizard ----------------------------
(***************************************************************************)
(* Instances of BackupWizard for TLC: one user, since wizards share only   *)
(* the monitor's loop; a database with a collection and an empty one; two  *)
(* /backup commands, so that an old keyboard survives beside a new one.    *)
(***************************************************************************)
EXTENDS BackupWizard, TLC

CONSTANTS alice, full, empty, c1, c2

OneUser        == {alice}
TwoDatabases   == {full, empty}
TwoCollections == {c1, c2}
OneEmpty       == full :> {c1, c2} @@ empty :> {}
=============================================================================
