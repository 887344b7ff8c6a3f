------------------------------- MODULE DumpEngine -------------------------------
(***************************************************************************)
(* MongodumpBackupEngine.backup_collection                                 *)
(* (app/infrastructure/backup/mongodump_engine.py) in every horse: it      *)
(* writes a config file with the URI, starts mongodump, drains its pipes   *)
(* under a timeout, looks at the exit code and at the dump file, and       *)
(* removes the config file.  mongodump itself is a process of its own,     *)
(* which survives the horse.                                               *)
(***************************************************************************)
EXTENDS Naturals

CONSTANTS
    Horses,       \* the processes that dump, one collection at a time
    Collections   \* what a horse may dump

VARIABLES
    stage,      \* where each horse's engine is
    current,    \* the collection it dumps
    config,     \* whether the config file is on the disk
    mongodump,  \* the horse's last mongodump: its process, then its exit
    file        \* the dump file of each collection

engine == <<stage, current, config, mongodump, file>>

Stages == {"idle", "check", "spawn", "drain", "validate", "success", "failed"}
Processes == {"none", "running", "ok", "error", "killed"}
Files == {"none", "partial", "whole"}
Busy == {"check", "spawn", "drain", "validate"}

Init ==
    /\ stage = [h \in Horses |-> "idle"]
    /\ current \in [Horses -> Collections]
    /\ config = [h \in Horses |-> FALSE]
    /\ mongodump = [h \in Horses |-> "none"]
    /\ file = [h \in Horses |-> [c \in Collections |-> "none"]]

Goto(h, from, to) == stage[h] = from /\ stage' = [stage EXCEPT ![h] = to]
RemoveConfig(h)   == config' = [config EXCEPT ![h] = FALSE]
Exit(h, how)      == mongodump' = [mongodump EXCEPT ![h] = how]
Leave(h, how)     == file' = [file EXCEPT ![h][current[h]] = how]

Start(h, c) ==
    /\ Goto(h, "idle", "check")
    /\ current' = [current EXCEPT ![h] = c]
    /\ UNCHANGED <<config, mongodump, file>>

\* There is no mongodump binary, or a name is not valid.
Refuse(h) ==
    /\ Goto(h, "check", "failed")
    /\ UNCHANGED <<current, config, mongodump, file>>

WriteConfig(h) ==
    /\ Goto(h, "check", "spawn")
    /\ config' = [config EXCEPT ![h] = TRUE]
    /\ UNCHANGED <<current, mongodump, file>>

\* create_subprocess_exec.
Spawn(h) ==
    /\ Goto(h, "spawn", "drain")
    /\ Exit(h, "running")
    /\ UNCHANGED <<current, config, file>>

\* Mutant of SpawnFails: the config file is removed after a success only.
SpawnFailsUnclean(h) ==
    /\ Goto(h, "spawn", "failed")
    /\ UNCHANGED <<current, config, mongodump, file>>

SpawnFails(h) ==
    /\ Goto(h, "spawn", "failed")
    /\ RemoveConfig(h)
    /\ UNCHANGED <<current, mongodump, file>>

\* External: mongodump runs to its end.  Without an error it has written the whole
\* file, or none if the collection is gone; with an error the file may be cut.
MongodumpExits(h) ==
    /\ mongodump[h] = "running"
    /\ \/ Exit(h, "ok") /\ Leave(h, "whole")
       \/ Exit(h, "ok") /\ UNCHANGED file
       \/ Exit(h, "error") /\ Leave(h, "partial")
       \/ Exit(h, "error") /\ UNCHANGED file
    /\ UNCHANGED <<stage, current, config>>

\* Mutant of Drained: the exit code is not looked at.
DrainedAnyCode(h) ==
    /\ mongodump[h] # "running"
    /\ Goto(h, "drain", "validate")
    /\ UNCHANGED <<current, config, mongodump, file>>

\* Both pipes are at their end and the process is reaped.  Left out: any other
\* exception while the pipes are read (RQ's JobTimeoutException may come up here).  It
\* is a failed collection whose mongodump nobody kills, so what is said of processes
\* does not cover it.
Drained(h) ==
    \/ /\ mongodump[h] = "ok"
       /\ Goto(h, "drain", "validate")
       /\ UNCHANGED <<current, config, mongodump, file>>
    \/ /\ mongodump[h] = "error"
       /\ Goto(h, "drain", "failed")
       /\ RemoveConfig(h)
       /\ UNCHANGED <<current, mongodump, file>>

\* Mutant of TimesOut: the process is left alone.
TimesOutOnly(h) ==
    /\ Goto(h, "drain", "failed")
    /\ RemoveConfig(h)
    /\ UNCHANGED <<current, mongodump, file>>

\* The dump takes longer than dump_timeout_seconds: kill and wait.  A process
\* that has just exited by itself makes no difference to the caller.
TimesOut(h) ==
    /\ Goto(h, "drain", "failed")
    /\ RemoveConfig(h)
    /\ IF mongodump[h] = "running"
       THEN Exit(h, "killed") /\ (Leave(h, "partial") \/ UNCHANGED file)
       ELSE UNCHANGED <<mongodump, file>>
    /\ UNCHANGED current

\* _validate_dump_file: the file must exist; no size is too small.
Validate(h) ==
    /\ Goto(h, "validate", IF file[h][current[h]] # "none" THEN "success" ELSE "failed")
    /\ RemoveConfig(h)
    /\ UNCHANGED <<current, mongodump, file>>

\* The caller has the result.
Return(h) ==
    /\ stage[h] \in {"success", "failed"}
    /\ stage' = [stage EXCEPT ![h] = "idle"]
    /\ UNCHANGED <<current, config, mongodump, file>>

\* The coroutine is cancelled: its finally block runs, but nothing of it kills
\* mongodump.  asyncio may, when it collects the transport before the horse exits.
Cancelled(h) ==
    /\ stage' = [stage EXCEPT ![h] = "idle"]
    /\ RemoveConfig(h)
    /\ \/ UNCHANGED <<mongodump, file>>
       \/ /\ mongodump[h] = "running"
          /\ Exit(h, "killed")
          /\ Leave(h, "partial") \/ UNCHANGED file
    /\ UNCHANGED current

\* The horse is killed: nothing runs, nothing is removed.
Killed(h) ==
    /\ stage' = [stage EXCEPT ![h] = "idle"]
    /\ UNCHANGED <<current, config, mongodump, file>>

EngineStep(h) ==
    \/ Refuse(h) \/ WriteConfig(h) \/ Spawn(h) \/ SpawnFails(h)
    \/ Drained(h) \/ TimesOut(h) \/ Validate(h)

TypeOK ==
    /\ stage \in [Horses -> Stages]
    /\ current \in [Horses -> Collections]
    /\ config \in [Horses -> BOOLEAN]
    /\ mongodump \in [Horses -> Processes]
    /\ file \in [Horses -> [Collections -> Files]]
=============================================================================
