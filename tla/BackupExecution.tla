---------------------------- MODULE BackupExecution ----------------------------
(***************************************************************************)
(* BackupPlatform with its dump engine: what _backup_single_collection     *)
(* does between ExecDump and ExecCollected, and what becomes of mongodump, *)
(* its config file and its dump files when the execution ends early.       *)
(***************************************************************************)
EXTENDS BackupPlatform

VARIABLES stage, current, config, mongodump, file

\* A job's collections are numbered in the order in which it dumps them.
Engine == INSTANCE DumpEngine WITH Horses <- Jobs, Collections <- 1..(MaxCollections + 1)

engine == <<stage, current, config, mongodump, file>>
executionVars == <<vars, engine>>

ExecutionInit == Init /\ Engine!Init /\ current = [j \in Jobs |-> 1]

Dumping(j) == pc[Exe(j)] = "dump"

\* The engine is called for the next collection ...
DumpStarts(j) ==
    /\ ExecDump(j)
    /\ Engine!Start(j, ent[Exe(j)].completed + ent[Exe(j)].failed + 1)

\* ... works on its own ...
DumpRuns(j) == Dumping(j) /\ Engine!EngineStep(j) /\ UNCHANGED vars

MongodumpRuns(j) == Engine!MongodumpExits(j) /\ UNCHANGED vars

\* ... and returns, or raises: the collection counts as completed or failed.
DumpEnds(j) ==
    /\ ExecCollected(j)
    /\ Engine!Return(j)
    /\ (ent'[Exe(j)].failed = ent[Exe(j)].failed) <=> (stage[j] = "success")

\* The execution ends in the middle of a dump.
DumpTimesOut(j) == Dumping(j) /\ ExecTimeout(j) /\ Engine!Cancelled(j)

DumpKilled(j) == Dumping(j) /\ HorseKill(j) /\ Engine!Killed(j)

\* Every other step of the platform, which neither enters nor leaves a dump.
Elsewhere ==
    /\ Next
    /\ \A j \in Jobs : Dumping(j)' = Dumping(j)
    /\ UNCHANGED engine

ExecutionNext ==
    \/ \E j \in Jobs :
          \/ DumpStarts(j) \/ DumpRuns(j) \/ MongodumpRuns(j) \/ DumpEnds(j)
          \/ DumpTimesOut(j) \/ DumpKilled(j)
    \/ Elsewhere

ExecutionSpec == ExecutionInit /\ [][ExecutionNext]_executionVars
-----------------------------------------------------------------------------
(***************************************************************************)
(* Properties.                                                             *)
(***************************************************************************)

\* The table never claims more collections than there are whole dumps on the disk
\* (backup_collection's checks of exit code and file, and the counters of
\* _run_backup_loop).
CompletedAreOnDisk ==
    \A j \in Jobs :
        row[j].completed <= Cardinality({c \in DOMAIN file[j] : file[j][c] = "whole"})

\* The config file, which holds the cluster's URI, is gone whenever no dump is
\* under way, however the dump ended; only a killed horse leaves it.
ConfigFilesRemoved ==
    \A j \in Jobs : config[j] => Dumping(j) \/ pc[Exe(j)] = "dead"

\* No mongodump runs beside the rest of its job: the dump that started it waits
\* for it, or the job was cut short by RQ's timeout or a kill.
MongodumpEndsWithItsDump ==
    \A j \in Jobs :
        mongodump[j] = "running" =>
            (Dumping(j) /\ stage[j] = "drain") \/ pc[Exe(j)] \in {"failed", "dead"}
=============================================================================
