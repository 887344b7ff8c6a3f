------------------------------- MODULE Retention -------------------------------
(***************************************************************************)
(* RetentionManager (app/application/services/retention_manager.py), run   *)
(* by every backup that ends in SUCCESS or PARTIAL_SUCCESS, in the worker  *)
(* of that job.  Two workers on different clusters run it at the same time *)
(* on the same directory, while archives may be added.                     *)
(*                                                                         *)
(* A clean-up is two passes, one by age and one by total size; each lists  *)
(* the directory, describes what it listed, and then deletes its selection *)
(* one path at a time.  The glob backup_*.tar.gz sees the archives at the  *)
(* top of the base directory.  The dumps the worker writes lie two levels  *)
(* below, nothing here makes archives of them, and no clean-up sees them;  *)
(* this is also why the in-use check (a path inside the output directory   *)
(* of a running job) never applies to a listed path.                       *)
(***************************************************************************)
EXTENDS Naturals, FiniteSets, FiniteSetsExt

CONSTANTS
    Jobs,          \* backups; each cleans up once when it has ended
    Archives,      \* backup_*.tar.gz files, by name
    TypeOf,        \* [Archives -> {"full", "custom", "unknown"}]
    SizeOf,        \* [Archives -> Nat]
    Weeks,         \* retention windows: [{"full", "custom"} -> Nat]
    MaxBytes,      \* retention_max_gb
    MaxTime,       \* bound on the clock
    Faults         \* subset of {"delete"}: a deletion fails

KnownTypes == {"full", "custom"}

ASSUME RetentionAssumption ==
    /\ TypeOf \in [Archives -> KnownTypes \cup {"unknown"}]
    /\ SizeOf \in [Archives -> Nat]
    /\ Weeks \in [KnownTypes -> Nat]
    /\ MaxBytes \in Nat /\ MaxTime \in Nat
    /\ Faults \subseteq {"delete"}

VARIABLES
    now,      \* the clock
    present,  \* archives on disk
    mtime,    \* modification time of an archive, kept after its deletion; 0
              \* before it was written
    pc,       \* where the clean-up of each job is
    listed,   \* what its present pass has listed
    plan      \* what this pass still has to delete

vars == <<now, present, mtime, pc, listed, plan>>
disk == <<now, present, mtime>>

Init ==
    /\ now = 1
    /\ present = {}
    /\ mtime = [f \in Archives |-> 0]
    /\ pc = [j \in Jobs |-> "idle"]
    /\ listed = [j \in Jobs |-> {}]
    /\ plan = [j \in Jobs |-> {}]

Size(files)         == MapThenSumSet(LAMBDA f : SizeOf[f], files)
OfType(files, type) == {f \in files : TypeOf[f] = type}
Newer(g, f)         == mtime[g] > mtime[f]

\* Mutant of PruneByAge: minimum_keep = 0.
PruneByAgeAll(files, type) ==
    {f \in OfType(files, type) : mtime[f] + Weeks[type] < now}

\* _prune_by_age: what is older than the cutoff, but never the last one of its
\* type.  The loop goes from the oldest to the newest, so the one it keeps is
\* the newest.
PruneByAge(files, type) ==
    LET same == OfType(files, type)
    IN  {f \in same : mtime[f] + Weeks[type] < now /\ \E g \in same : Newer(g, f)}

Fits(files) == Size(files) <= MaxBytes

\* Mutant of LastOne: the minimum is compared with all files of the type, without
\* those already selected.
LastOneListed(f, files, selected) ==
    TypeOf[f] \in KnownTypes /\ Cardinality(OfType(files, TypeOf[f])) <= 1

\* The last remaining backup of a known type.
LastOne(f, files, selected) ==
    TypeOf[f] \in KnownTypes /\ Cardinality(OfType(files \ selected, TypeOf[f])) <= 1

\* _prune_by_size: oldest first, until the rest fits, skipping the last remaining
\* one of a known type.  The loop passes the files in the order of their times:
\* loop[n] is what it has selected of those up to n.
PruneBySize(files) ==
    LET loop[n \in 0..now] ==
            IF n = 0 THEN {}
            ELSE loop[n - 1] \cup
                   {f \in files : /\ mtime[f] = n
                                 /\ ~Fits(files \ loop[n - 1])
                                 /\ ~LastOne(f, files, loop[n - 1])}
    IN  loop[now]

-----------------------------------------------------------------------------
\* External: an archive appears, with a modification time of its own.
Arrive(f) ==
    /\ mtime[f] = 0
    /\ now < MaxTime
    /\ now' = now + 1
    /\ present' = present \cup {f}
    /\ mtime' = [mtime EXCEPT ![f] = now]
    /\ UNCHANGED <<pc, listed, plan>>

Tick ==
    /\ now < MaxTime
    /\ now' = now + 1
    /\ UNCHANGED <<present, mtime, pc, listed, plan>>

\* A backup has saved its final status; apply_policy begins.
Finish(j) ==
    /\ pc[j] = "idle"
    /\ pc' = [pc EXCEPT ![j] = "listByAge"]
    /\ UNCHANGED <<disk, listed, plan>>

\* list_files_recursive; with nothing listed the pass is over.
List(j, from, describe, skip) ==
    /\ pc[j] = from
    /\ listed' = [listed EXCEPT ![j] = present]
    /\ pc' = [pc EXCEPT ![j] = IF present = {} THEN skip ELSE describe]
    /\ UNCHANGED <<disk, plan>>

ListByAge(j)  == List(j, "listByAge", "planByAge", "listBySize")
ListBySize(j) == List(j, "listBySize", "planBySize", "done")

\* _build_backup_descriptors and the selection.
Select(j, from, selection, to) ==
    /\ pc[j] = from
    /\ plan' = [plan EXCEPT ![j] = selection]
    /\ pc' = [pc EXCEPT ![j] = to]
    /\ UNCHANGED <<disk, listed>>

PlanByAge(j) ==
    Select(j, "planByAge", UNION {PruneByAge(listed[j], t) : t \in KnownTypes}, "deleteByAge")
PlanBySize(j) ==
    Select(j, "planBySize", PruneBySize(listed[j]), "deleteBySize")

\* A listed file that another clean-up has deleted before its stat: the OSError
\* ends the policy, and _apply_retention logs it.
Vanished(j) ==
    /\ pc[j] \in {"planByAge", "planBySize"}
    /\ listed[j] \ present # {}
    /\ pc' = [pc EXCEPT ![j] = "aborted"]
    /\ listed' = [listed EXCEPT ![j] = {}]
    /\ UNCHANGED <<disk, plan>>

\* _execute_deletions, one path at a time in any order.  A path that is gone
\* counts as deleted; after an error the loop goes on.
Delete(j) ==
    /\ pc[j] \in {"deleteByAge", "deleteBySize"}
    /\ \E f \in plan[j] :
          /\ plan' = [plan EXCEPT ![j] = @ \ {f}]
          /\ \/ present' = present \ {f}
             \/ "delete" \in Faults /\ UNCHANGED present
    /\ UNCHANGED <<now, mtime, pc, listed>>

\* The loop is over; the listing goes out of scope.
EndPass(j) ==
    /\ plan[j] = {}
    /\ \/ pc[j] = "deleteByAge" /\ pc' = [pc EXCEPT ![j] = "listBySize"]
       \/ pc[j] = "deleteBySize" /\ pc' = [pc EXCEPT ![j] = "done"]
    /\ listed' = [listed EXCEPT ![j] = {}]
    /\ UNCHANGED <<disk, plan>>

CleanUp(j) ==
    \/ ListByAge(j) \/ PlanByAge(j) \/ ListBySize(j) \/ PlanBySize(j)
    \/ Vanished(j) \/ Delete(j) \/ EndPass(j)

Next ==
    \/ Tick
    \/ \E f \in Archives : Arrive(f)
    \/ \E j \in Jobs : Finish(j) \/ CleanUp(j)

Spec == Init /\ [][Next]_vars
-----------------------------------------------------------------------------
\* Once there was an archive of a known type there always is one, however many
\* clean-ups run at once on different listings (cleanup_old_backups,
\* enforce_max_storage).
OneOfEachTypeSurvives ==
    \A t \in KnownTypes :
        (\E f \in OfType(Archives, t) : mtime[f] > 0) => OfType(present, t) # {}

\* The selection by size is what the policy asks for: the rest fits or is down
\* to the last of each type, no known type is wiped out, nothing newer is
\* selected while an older one of its type is kept, and without the newest
\* selected one it would not fit.
SizeSelection(files, selected) ==
    LET rest      == files \ selected
        minimal   == /\ OfType(rest, "unknown") = {}
                     /\ \A t \in KnownTypes : Cardinality(OfType(rest, t)) <= 1
    IN  /\ Fits(rest) \/ minimal
        /\ \A t \in KnownTypes : OfType(files, t) # {} => OfType(rest, t) # {}
        /\ \A f \in selected, g \in rest : TypeOf[f] = TypeOf[g] => Newer(g, f)
        /\ \A f \in selected : (\A g \in selected \ {f} : Newer(f, g))
                                  => ~Fits(rest \cup {f})

\* Every size pass of enforce_max_storage deletes such a selection.
SizePassFollowsPolicy ==
    [][\A j \in Jobs : pc[j] = "planBySize" /\ pc'[j] = "deleteBySize"
          => SizeSelection(listed[j], plan'[j])]_vars
=============================================================================
