------------------------- MODULE BackupExecutionProofs -------------------------
(***************************************************************************)
(* Theorems about BackupExecution for every set of jobs, clusters and      *)
(* faults: the composition still is the platform, and no dump leaves its   *)
(* config file or its mongodump behind, except where a cut-short execution *)
(* has to.  The invariant says which stages of the engine own which of the *)
(* two; a step of another job disturbs none of it.                         *)
(***************************************************************************)
EXTENDS BackupExecution, BackupOutcomeProofs, FiniteSetTheorems

\* What job j's engine has under way.
EngineOwns(j) ==
    /\ Dumping(j) <=> stage[j] # "idle"
    /\ config[j] => stage[j] \in {"spawn", "drain", "validate"} \/ pc[Exe(j)] = "dead"
    /\ mongodump[j] = "running" => stage[j] = "drain" \/ pc[Exe(j)] \in {"failed", "dead"}

EngineType ==
    /\ stage \in [Jobs -> Engine!Stages]
    /\ config \in [Jobs -> BOOLEAN]
    /\ mongodump \in [Jobs -> Engine!Processes]

EngineInv == EngineType /\ \A j \in Jobs : EngineOwns(j)

\* Every step of the composition is a step of the platform or a stutter of it.
LEMMA ExecutionIsPlatform == [ExecutionNext]_executionVars => [Next]_vars
  BY DEF ExecutionNext, DumpStarts, DumpRuns, MongodumpRuns, DumpEnds, DumpTimesOut, DumpKilled,
     Elsewhere, Next, ExecNext, ExecStep, executionVars

\* The engine's own steps keep its types.
LEMMA EngineTypeStep ==
  ASSUME EngineType, [ExecutionNext]_executionVars
  PROVE  EngineType'
<1>1. ASSUME NEW j \in Jobs,
             Engine!Start(j, ent[Exe(j)].completed + ent[Exe(j)].failed + 1) \/ Engine!Return(j)
             \/ Engine!Killed(j)
      PROVE  EngineType'
  BY <1>1 DEF EngineType, Engine!Start, Engine!Return, Engine!Killed, Engine!Goto, Engine!Stages
<1>2. ASSUME NEW j \in Jobs, Engine!EngineStep(j) PROVE EngineType'
  BY <1>2 DEF EngineType, Engine!EngineStep, Engine!Refuse, Engine!WriteConfig, Engine!Spawn,
     Engine!SpawnFails, Engine!Drained, Engine!TimesOut, Engine!Validate, Engine!Goto,
     Engine!RemoveConfig, Engine!Exit, Engine!Stages, Engine!Processes
<1>3. ASSUME NEW j \in Jobs, Engine!MongodumpExits(j) \/ Engine!Cancelled(j) PROVE EngineType'
  BY <1>3 DEF EngineType, Engine!MongodumpExits, Engine!Cancelled, Engine!RemoveConfig,
     Engine!Exit, Engine!Stages, Engine!Processes
<1>4. CASE UNCHANGED engine
  BY <1>4 DEF EngineType, engine
<1>. QED
  BY <1>1, <1>2, <1>3, <1>4 DEF ExecutionNext, DumpStarts, DumpRuns, MongodumpRuns, DumpEnds,
     DumpTimesOut, DumpKilled, Elsewhere, executionVars

\* A step of job k's execution leaves what job j's engine owns alone.
LEMMA EngineLocal ==
  ASSUME TypeOK, EngineType, NEW j \in Jobs, NEW k \in Jobs, j # k, EngineOwns(j),
         \/ DumpStarts(k) \/ DumpRuns(k) \/ MongodumpRuns(k) \/ DumpEnds(k)
         \/ DumpTimesOut(k) \/ DumpKilled(k)
  PROVE  EngineOwns(j)'
<1>1. stage'[j] = stage[j] /\ config'[j] = config[j] /\ mongodump'[j] = mongodump[j]
  <2>1. CASE DumpStarts(k) \/ DumpEnds(k) \/ DumpKilled(k)
    BY <2>1 DEF EngineType, DumpStarts, DumpEnds, DumpKilled, Engine!Start, Engine!Return,
       Engine!Killed, Engine!Goto
  <2>2. CASE DumpRuns(k)
    BY <2>2 DEF EngineType, DumpRuns, Engine!EngineStep, Engine!Refuse, Engine!WriteConfig,
       Engine!Spawn, Engine!SpawnFails, Engine!Drained, Engine!TimesOut, Engine!Validate,
       Engine!Goto, Engine!RemoveConfig, Engine!Exit
  <2>3. CASE MongodumpRuns(k) \/ DumpTimesOut(k)
    BY <2>3 DEF EngineType, MongodumpRuns, DumpTimesOut, Engine!MongodumpExits, Engine!Cancelled,
       Engine!RemoveConfig, Engine!Exit
  <2>. QED BY <2>1, <2>2, <2>3
<1>2. pc'[Exe(j)] = pc[Exe(j)]
  <2>1. Exe(j) \in Sessions /\ Exe(j) # Exe(k)
    BY SessionsType, SessionsDistinct
  <2>2. ExecNext(k) \/ UNCHANGED vars
    BY DEF DumpStarts, DumpRuns, MongodumpRuns, DumpEnds, DumpTimesOut, DumpKilled,
       ExecNext, ExecStep
  <2>. QED BY <2>1, <2>2, ExecLocal DEF vars, memory
<1>. QED
  BY <1>1, <1>2 DEF EngineOwns, Dumping

\* An execution that is over stays over, whoever moves.
LEMMA OverForGood ==
  ASSUME TypeOK, [Next]_vars, NEW j \in Jobs, pc[Exe(j)] \in {"failed", "dead"}
  PROVE  pc'[Exe(j)] = pc[Exe(j)]
<1>. Exe(j) \in Sessions /\ pc \in [Sessions -> Pcs]
  BY SessionsType DEF TypeOK
<1>1. ASSUME NEW k \in Jobs, RequestNext(k) PROVE pc'[Exe(j)] = pc[Exe(j)]
  BY <1>1, RequestLocal, SessionsDistinct
<1>2. ASSUME NEW u \in Cancellers, NEW k \in Jobs, CancelNext(u, k) PROVE pc'[Exe(j)] = pc[Exe(j)]
  BY <1>2, CancelLocal, SessionsDistinct
<1>3. ASSUME NEW k \in Jobs, ExecNext(k) PROVE pc'[Exe(j)] = pc[Exe(j)]
  <2>1. CASE k # j
    BY <1>3, <2>1, ExecLocal, SessionsDistinct
  <2>2. CASE k = j
    BY <1>3, <2>2 DEF ExecNext, ExecStep, Dispatch, ExecLookup, ExecLock, ExecBegin,
       ExecBeginRaises, ExecBeginSave, ExecResolve, ExecDump, ExecCollected, ExecProgressSave,
       ExecFinalize, ExecFinalSave, ExecAudit, ExecNotify, ExecRelease, ExecRaise, ExecAlert,
       ExecTimeout, HorseKill, Sigterm, Goto, memory, ExeLive
  <2>. QED BY <2>1, <2>2
<1>4. CASE BotCrash
  <2>1. Exe(j) \notin Requests \cup Cancels
    BY SessionsDistinct DEF Requests, Cancels
  <2>. QED BY <1>4, <2>1 DEF BotCrash
<1>5. CASE ExpireGlobal \/ (\E c \in Clusters : ExpireCluster(c)) \/ UNCHANGED vars
  BY <1>5 DEF ExpireGlobal, ExpireCluster, memory, vars
<1>. QED BY <1>1, <1>2, <1>3, <1>4, <1>5 DEF Next

\* A step of job j's own execution hands over what its engine owns.
LEMMA EngineStepKeeps ==
  ASSUME TypeOK, EngineType, NEW j \in Jobs, EngineOwns(j),
         \/ DumpStarts(j) \/ DumpRuns(j) \/ MongodumpRuns(j) \/ DumpEnds(j)
         \/ DumpTimesOut(j) \/ DumpKilled(j)
  PROVE  EngineOwns(j)'
<1>. Exe(j) \in Sessions /\ pc \in [Sessions -> Pcs]
  BY SessionsType DEF TypeOK
<1>1. CASE DumpStarts(j)
  BY <1>1 DEF DumpStarts, ExecDump, Goto, Engine!Start, Engine!Goto, EngineOwns, EngineType, Dumping
<1>2. CASE DumpRuns(j)
  <2>. pc' = pc /\ Dumping(j)
    BY <1>2 DEF DumpRuns, vars, memory
  <2>1. CASE Engine!Refuse(j) \/ Engine!WriteConfig(j) \/ Engine!Spawn(j)
    BY <2>1 DEF Engine!Refuse, Engine!WriteConfig, Engine!Spawn, Engine!Goto, Engine!Exit,
       EngineOwns, EngineType, Dumping
  <2>2. CASE Engine!SpawnFails(j) \/ Engine!Drained(j)
    BY <2>2 DEF Engine!SpawnFails, Engine!Drained, Engine!Goto, Engine!RemoveConfig, EngineOwns,
       EngineType, Dumping
  <2>3. CASE Engine!TimesOut(j) \/ Engine!Validate(j)
    BY <2>3 DEF Engine!TimesOut, Engine!Validate, Engine!Goto, Engine!RemoveConfig, Engine!Exit,
       EngineOwns, EngineType, Dumping
  <2>. QED BY <1>2, <2>1, <2>2, <2>3 DEF DumpRuns, Engine!EngineStep
<1>3. CASE MongodumpRuns(j)
  BY <1>3 DEF MongodumpRuns, vars, memory, Engine!MongodumpExits, Engine!Exit, EngineOwns,
     EngineType, Dumping
<1>4. CASE DumpEnds(j)
  BY <1>4 DEF DumpEnds, ExecCollected, Goto, Engine!Return, EngineOwns, EngineType, Dumping
<1>5. CASE DumpTimesOut(j)
  BY <1>5 DEF DumpTimesOut, ExecTimeout, Engine!Cancelled, Engine!RemoveConfig, Engine!Exit,
     EngineOwns, EngineType, Dumping
<1>6. CASE DumpKilled(j)
  BY <1>6 DEF DumpKilled, HorseKill, Engine!Killed, EngineOwns, EngineType, Dumping
<1>. QED BY <1>1, <1>2, <1>3, <1>4, <1>5, <1>6

\* Every step of the composition keeps the invariant.
LEMMA EngineInvStep ==
  ASSUME TypeOK, EngineInv, [ExecutionNext]_executionVars
  PROVE  EngineInv'
<1>1. EngineType /\ EngineType'
  BY EngineTypeStep DEF EngineInv
<1>2. SUFFICES ASSUME NEW j \in Jobs PROVE EngineOwns(j)'
  BY <1>1 DEF EngineInv
<1>3. EngineOwns(j)
  BY DEF EngineInv
<1>4. ASSUME NEW k \in Jobs,
             \/ DumpStarts(k) \/ DumpRuns(k) \/ MongodumpRuns(k) \/ DumpEnds(k)
             \/ DumpTimesOut(k) \/ DumpKilled(k)
      PROVE  EngineOwns(j)'
  BY <1>1, <1>3, <1>4, EngineLocal, EngineStepKeeps
<1>5. CASE Elsewhere
  <2>1. /\ stage' = stage /\ config' = config /\ mongodump' = mongodump
        /\ Dumping(j)' = Dumping(j)
    BY <1>5 DEF Elsewhere, engine
  <2>2. pc[Exe(j)] \in {"failed", "dead"} => pc'[Exe(j)] = pc[Exe(j)]
    BY <1>5, OverForGood DEF Elsewhere
  <2>. QED BY <1>3, <2>1, <2>2 DEF EngineOwns
<1>6. CASE UNCHANGED executionVars
  BY <1>3, <1>6 DEF executionVars, engine, vars, memory, EngineOwns, Dumping
<1>. QED BY <1>4, <1>5, <1>6 DEF ExecutionNext

\* Nothing is under way before the first request.
LEMMA EngineInvInit == ExecutionInit => EngineInv
  BY SessionsType DEF ExecutionInit, Init, Engine!Init, Engine!Stages, Engine!Processes, EngineInv,
     EngineType, EngineOwns, Dumping

\* The dump engine adds detail and no behaviour: every execution of the composition
\* is one of BackupPlatform, so each of its theorems holds here too
\* (_backup_single_collection returns or raises, as ExecCollected has it).
THEOREM ExecutionRefinesPlatform == ExecutionSpec => Spec
<1>1. ExecutionInit => Init
  BY DEF ExecutionInit
<1>. QED
  BY <1>1, ExecutionIsPlatform, PTL DEF ExecutionSpec, Spec

\* Every stage of the engine owns what it should, in every execution.
LEMMA EngineInvariant == ExecutionSpec => []EngineInv
<1>1. ExecutionSpec => []TypeOK
  BY ExecutionRefinesPlatform, TypeCorrect, PTL
<1>. QED
  BY <1>1, EngineInvInit, EngineInvStep, PTL DEF ExecutionSpec

\* The config file with the cluster's URI outlives its dump only when the horse is
\* killed, whatever else fails (the finally block of backup_collection).
THEOREM ConfigFilesAreRemoved == ExecutionSpec => []ConfigFilesRemoved
<1>1. EngineInv => ConfigFilesRemoved
  BY DEF EngineInv, EngineOwns, ConfigFilesRemoved
<1>. QED BY <1>1, EngineInvariant, PTL

\* No mongodump runs beside the rest of its job: _execute_mongodump waits for it or
\* kills it, unless the execution itself was cut short.
THEOREM MongodumpNeverLeftBehind == ExecutionSpec => []MongodumpEndsWithItsDump
<1>1. EngineInv => MongodumpEndsWithItsDump
  BY DEF EngineInv, EngineOwns, MongodumpEndsWithItsDump
<1>. QED BY <1>1, EngineInvariant, PTL

-----------------------------------------------------------------------------
(***************************************************************************)
(* CompletedAreOnDisk: the dump files against the progress columns.        *)
(***************************************************************************)

Numbers == 1..(MaxCollections + 1)

WholeDumps(j) == {c \in DOMAIN file[j] : file[j][c] = "whole"}

\* The dumps that are on the disk apart from the one the engine works on.
EarlierDumps(j) == IF Dumping(j) THEN WholeDumps(j) \ {current[j]} ELSE WholeDumps(j)

Dumped(j) == ent[Exe(j)].completed + ent[Exe(j)].failed

\* Collections whose turn has not come have no dump file.
NothingAhead(j) ==
    /\ pc[Exe(j)] \in {"idle", "lookup", "lock", "begin", "beginSave", "resolve"} =>
          \A c \in Numbers : file[j][c] = "none"
    /\ pc[Exe(j)] \in {"loop", "progressSave"} =>
          \A c \in Numbers : c > Dumped(j) => file[j][c] = "none"
    /\ pc[Exe(j)] = "dump" =>
          /\ current[j] = Dumped(j) + 1
          /\ \A c \in Numbers : c > Dumped(j) + 1 => file[j][c] = "none"

\* How far the dump of the current collection is.
FileSoFar(j) ==
    /\ mongodump[j] = "running" => file[j][current[j]] = "none"
    /\ stage[j] \in {"check", "spawn"} => file[j][current[j]] = "none"
    /\ stage[j] = "drain" /\ mongodump[j] = "ok" => file[j][current[j]] \in {"none", "whole"}
    /\ stage[j] = "validate" => file[j][current[j]] \in {"none", "whole"}
    /\ stage[j] = "success" => file[j][current[j]] = "whole"

\* The sessions that write the row of job j, and the numbers of completed collections
\* which they and the row know of.
Writers(j) == {Req(j), Exe(j)} \cup {Can(u, j) : u \in Cancellers}
Known(j)  == {0, row[j].completed} \cup {ent[s].completed : s \in Writers(j)}

CountedAreOnDisk(j) == \A n \in Known(j) : n <= Cardinality(EarlierDumps(j))

DiskType ==
    /\ file \in [Jobs -> [Numbers -> Engine!Files]]
    /\ current \in [Jobs -> Numbers]
    /\ targets \in [Jobs -> 0..MaxCollections]

DiskInv ==
    DiskType /\ \A j \in Jobs : NothingAhead(j) /\ FileSoFar(j) /\ CountedAreOnDisk(j)

\* Sets of collections are finite, and a larger one has no fewer.
LEMMA CollectionSets ==
  ASSUME NEW S, S \subseteq Numbers, NEW R, R \subseteq S
  PROVE  /\ IsFiniteSet(S) /\ Cardinality(S) \in Nat
         /\ Cardinality(R) \in Nat /\ Cardinality(R) <= Cardinality(S)
<1>1. IsFiniteSet(Numbers)
  BY FS_Interval, PlatformAssumption DEF Numbers
<1>2. IsFiniteSet(S)
  BY <1>1, FS_Subset
<1>3. IsFiniteSet(R) /\ Cardinality(R) <= Cardinality(S)
  BY <1>2, FS_Subset
<1>. QED BY <1>2, <1>3, FS_CardinalityType

\* The dumps on the disk are some of the collections.
LEMMA DumpsAreCollections ==
  ASSUME DiskType, NEW j \in Jobs
  PROVE  EarlierDumps(j) \subseteq WholeDumps(j) /\ WholeDumps(j) \subseteq Numbers
  BY DEF EarlierDumps, WholeDumps, DiskType

\* The sessions of one job are no sessions of another.
LEMMA WritersDistinct ==
  ASSUME NEW j \in Jobs
  PROVE  /\ Writers(j) \subseteq Sessions
         /\ Req(j) \in Writers(j) /\ Exe(j) \in Writers(j)
         /\ \A u \in Cancellers : Can(u, j) \in Writers(j)
         /\ \A k \in Jobs : k # j => Writers(j) \cap Writers(k) = {}
  BY SessionsType DEF Writers, Req, Exe, Can

\* A column that save() writes is the stored one or the entity's, however stale either is.
LEMMA MergedCounter ==
  ASSUME NEW r, NEW o, NEW e
  PROVE  Merged(r, o, e).completed \in {r.completed, e.completed}
  BY DEF Merged, Column

\* A step that copies counters between the row and the writers of one job adds none.
LEMMA CopiesAddNothing ==
  ASSUME TypeOK, NEW j \in Jobs, NEW k \in Jobs,
         \A i \in Jobs \ {k} : row'[i] = row[i],
         \A s \in Sessions \ Writers(k) : ent'[s] = ent[s],
         row'[k].completed \in Known(k),
         \A s \in Writers(k) : ent'[s].completed \in Known(k)
  PROVE  Known(j)' \subseteq Known(j)
<1>1. CASE j = k
  BY <1>1 DEF Known, Writers
<1>2. CASE j # k
  <2>1. \A s \in Writers(j) : ent'[s] = ent[s]
    BY <1>2, WritersDistinct
  <2>2. row'[j] = row[j]
    BY <1>2
  <2>3. Writers(j)' = Writers(j)
    BY DEF Writers, Req, Exe, Can
  <2>. QED BY <2>1, <2>2, <2>3 DEF Known
<1>. QED BY <1>1, <1>2

\* One session of job k moves: it ends up with an entity whose counter is known, and
\* the row is created, or takes the entity over, or stays.
LEMMA SessionMoves ==
  ASSUME TypeOK, NEW j \in Jobs, NEW k \in Jobs, NEW s \in Writers(k),
         \A t \in Sessions : t # s => ent'[t] = ent[t],
         ent'[s].completed \in Known(k),
         row' = row \/ SaveWrite(s, k) \/ row' = [row EXCEPT ![k] = NewRow]
  PROVE  Known(j)' \subseteq Known(j)
<1>. s \in Sessions /\ row \in [Jobs -> Row]
  BY WritersDistinct DEF TypeOK
<1>1. \A i \in Jobs \ {k} : row'[i] = row[i]
  BY DEF SaveWrite
<1>2. \A t \in Sessions \ Writers(k) : ent'[t] = ent[t]
  OBVIOUS
<1>3. /\ row[k].completed \in Known(k) /\ 0 \in Known(k)
      /\ \A t \in Writers(k) : ent[t].completed \in Known(k)
  BY DEF Known
<1>4. row'[k].completed \in Known(k)
  <2>1. CASE SaveWrite(s, k)
    <3>1. row'[k] = Merged(row[k], orm[s], ent[s])
      BY <2>1 DEF SaveWrite
    <3>. QED BY <1>3, <3>1, MergedCounter
  <2>2. CASE row' = [row EXCEPT ![k] = NewRow]
    BY <1>3, <2>2, NamedRows
  <2>3. CASE row' = row
    BY <1>3, <2>3
  <2>. QED BY <2>1, <2>2, <2>3
<1>5. \A t \in Writers(k) : ent'[t].completed \in Known(k)
  BY <1>3, WritersDistinct
<1>. QED BY <1>1, <1>2, <1>4, <1>5, CopiesAddNothing

\* A request creates the row, reads it and saves the entity: no counter is new.
LEMMA RequestCopies ==
  ASSUME TypeOK, NEW j \in Jobs, NEW k \in Jobs, RequestNext(k)
  PROVE  Known(j)' \subseteq Known(j)
<1> DEFINE s == Req(k)
<1>. s \in Sessions /\ s \in Writers(k) /\ ent \in [Sessions -> Row] /\ ent[s] \in Row
  BY SessionsType, WritersDistinct DEF TypeOK
<1>1. \A t \in Sessions : t # s => ent'[t] = ent[t]
  BY RequestFrame
<1>2. NoRow.completed = 0 /\ row[k].completed \in Known(k) /\ ent[s].completed \in Known(k)
      /\ 0 \in Known(k)
  BY NamedRows DEF Known
<1>3. ent'[s].completed \in Known(k)
  <2>1. CASE RequestMarkQueued(k)
    <3>1. ent'[s] = [ent[s] EXCEPT !.status = "QUEUED", !.queueId = TRUE]
      BY <2>1 DEF RequestMarkQueued, SaveLoad
    <3>2. ent'[s].completed = ent[s].completed
      BY <3>1 DEF Row
    <3>. QED BY <1>2, <3>2
  <2>2. CASE RequestFetch(k)
    BY <1>2, <2>2 DEF RequestFetch
  <2>3. CASE ent'[s] = NoRow \/ ent' = ent
    BY <1>2, <2>3
  <2>. QED
    BY <2>1, <2>2, <2>3 DEF RequestNext, RequestStep, RequestDeny, RequestLock, RequestRefuse,
       RequestCreate, RequestEnqueue, RequestMarkQueuedRaises, RequestSave, RequestFinish,
       RequestReply, RequestRaise, Forget, memory
<1>4. row' = row \/ SaveWrite(s, k) \/ row' = [row EXCEPT ![k] = NewRow]
  BY DEF RequestNext, RequestStep, RequestDeny, RequestLock, RequestRefuse, RequestCreate,
     RequestFetch, RequestEnqueue, RequestMarkQueued, RequestMarkQueuedRaises, RequestSave,
     RequestFinish, RequestReply, RequestRaise, store
<1>. QED BY <1>1, <1>3, <1>4, SessionMoves

\* A cancellation writes back the counter it has read, which may be an old one.
LEMMA CancelCopies ==
  ASSUME TypeOK, NEW j \in Jobs, NEW u \in Cancellers, NEW k \in Jobs, CancelNext(u, k)
  PROVE  Known(j)' \subseteq Known(j)
<1> DEFINE s == Can(u, k)
<1>. s \in Sessions /\ s \in Writers(k) /\ ent \in [Sessions -> Row] /\ ent[s] \in Row
  BY SessionsType, WritersDistinct DEF TypeOK
<1>1. \A t \in Sessions : t # s => ent'[t] = ent[t]
  BY CancelLocal
<1>2. NoRow.completed = 0 /\ row[k].completed \in Known(k) /\ ent[s].completed \in Known(k)
      /\ 0 \in Known(k)
  BY NamedRows DEF Known
<1>3. ent'[s].completed \in Known(k)
  <2>1. CASE CancelSelect(u, k)
    <3>1. ent'[s] = [ent[s] EXCEPT !.status = "CANCELLED", !.by = u]
      BY <2>1 DEF CancelSelect, SaveLoad
    <3>2. ent'[s].completed = ent[s].completed
      BY <3>1 DEF Row
    <3>. QED BY <1>2, <3>2
  <2>2. CASE CancelRead(u, k)
    BY <1>2, <2>2 DEF CancelRead
  <2>3. CASE ent'[s] = NoRow \/ ent' = ent
    BY <1>2, <2>3
  <2>. QED
    BY <2>1, <2>2, <2>3 DEF CancelNext, CancelStep, CancelRq, CancelUpdate, CancelFinish,
       CancelRaise, Forget, memory
<1>4. row' = row \/ SaveWrite(s, k)
  BY DEF CancelNext, CancelStep, CancelRead, CancelRq, CancelSelect, CancelUpdate, CancelFinish,
     CancelRaise, store
<1>. QED BY <1>1, <1>3, <1>4, SessionMoves

\* So does an execution, except when it has finished a collection.
LEMMA ExecCopies ==
  ASSUME TypeOK, NEW j \in Jobs, NEW k \in Jobs, ExecNext(k), ~ExecCollected(k)
  PROVE  Known(j)' \subseteq Known(j)
<1> DEFINE s == Exe(k)
<1>. s \in Sessions /\ s \in Writers(k) /\ ent \in [Sessions -> Row] /\ ent[s] \in Row
  BY SessionsType, WritersDistinct DEF TypeOK
<1>1. \A t \in Sessions : t # s => ent'[t] = ent[t]
  BY ExecFrame
<1>2. NoRow.completed = 0 /\ row[k].completed \in Known(k) /\ ent[s].completed \in Known(k)
      /\ 0 \in Known(k)
  BY NamedRows DEF Known
<1>3. ent'[s].completed \in Known(k)
  <2>1. CASE ExecBegin(k)
    <3>1. ent'[s] = [ent[s] EXCEPT !.status = "RUNNING"]
      BY <2>1 DEF ExecBegin, SaveLoad
    <3>2. ent'[s].completed = ent[s].completed
      BY <3>1 DEF Row
    <3>. QED BY <1>2, <3>2
  <2>2. CASE ExecFinalize(k)
    <3>1. PICK t, b : ent'[s] = [ent[s] EXCEPT !.status = t, !.by = b]
      BY <2>2 DEF ExecFinalize, SaveLoad
    <3>2. ent'[s].completed = ent[s].completed
      BY <3>1 DEF Row
    <3>. QED BY <1>2, <3>2
  <2>3. CASE ExecLookup(k)
    BY <1>2, <2>3 DEF ExecLookup
  <2>4. CASE ent'[s] = NoRow \/ ent' = ent
    BY <1>2, <2>4
  <2>. QED
    BY <2>1, <2>2, <2>3, <2>4 DEF ExecNext, ExecStep, Dispatch, ExecLock, ExecBeginRaises,
       ExecBeginSave, ExecResolve, ExecDump, ExecProgressSave, ExecFinalSave, ExecAudit,
       ExecNotify, ExecRelease, ExecRaise, ExecAlert, ExecTimeout, HorseKill, Sigterm, ForgetHorse,
       Forget, memory
<1>4. row' = row \/ SaveWrite(s, k)
  BY DEF ExecNext, ExecStep, Dispatch, ExecLookup, ExecLock, ExecBegin, ExecBeginRaises,
     ExecBeginSave, ExecResolve, ExecDump, ExecProgressSave, ExecFinalize, ExecFinalSave,
     ExecAudit, ExecNotify, ExecRelease, ExecRaise, ExecAlert, ExecTimeout, HorseKill, Sigterm,
     store
<1>. QED BY <1>1, <1>3, <1>4, SessionMoves

\* A new counter comes only from a finished collection.
LEMMA NothingNewCounted ==
  ASSUME TypeOK, NEW j \in Jobs, Next, \A k \in Jobs : ~ExecCollected(k)
  PROVE  Known(j)' \subseteq Known(j)
<1>1. CASE \E k \in Jobs : RequestNext(k) \/ ExecNext(k)
  BY <1>1, RequestCopies, ExecCopies
<1>2. CASE \E u \in Cancellers, k \in Jobs : CancelNext(u, k)
  BY <1>2, CancelCopies
<1>3. CASE BotCrash
  <2>1. row' = row /\ \A s \in Sessions : ent'[s] = NoRow \/ ent'[s] = ent[s]
    BY <1>3 DEF BotCrash, store
  <2>2. Writers(j) \subseteq Sessions /\ Writers(j)' = Writers(j) /\ NoRow.completed = 0
    BY WritersDistinct, NamedRows DEF Writers, Req, Exe, Can
  <2>. QED BY <2>1, <2>2 DEF Known
<1>4. CASE ExpireGlobal \/ \E c \in Clusters : ExpireCluster(c)
  <2>1. row' = row /\ ent' = ent /\ Writers(j)' = Writers(j)
    BY <1>4 DEF ExpireGlobal, ExpireCluster, store, memory, Writers, Req, Exe, Can
  <2>. QED BY <2>1 DEF Known
<1>. QED BY <1>1, <1>2, <1>3, <1>4 DEF Next

\* Where the engine, the execution and the counter stay, so does what is known of the
\* disk.
LEMMA DiskFrame ==
  ASSUME NEW j \in Jobs, NothingAhead(j), FileSoFar(j), CountedAreOnDisk(j),
         stage'[j] = stage[j], mongodump'[j] = mongodump[j], file'[j] = file[j],
         current'[j] = current[j], pc'[Exe(j)] = pc[Exe(j)], ent'[Exe(j)] = ent[Exe(j)],
         Known(j)' \subseteq Known(j)
  PROVE  NothingAhead(j)' /\ FileSoFar(j)' /\ CountedAreOnDisk(j)'
<1>1. NothingAhead(j)'
  BY DEF NothingAhead, Dumped
<1>2. FileSoFar(j)'
  BY DEF FileSoFar
<1>3. WholeDumps(j)' = WholeDumps(j) /\ EarlierDumps(j)' = EarlierDumps(j)
  BY DEF WholeDumps, EarlierDumps, Dumping
<1>4. CountedAreOnDisk(j)'
  BY <1>3 DEF CountedAreOnDisk
<1>. QED BY <1>1, <1>2, <1>4

\* A step on another job leaves everything of this one.
LEMMA DumpFrame ==
  ASSUME TypeOK, EngineType, DiskType, NEW j \in Jobs, NEW k \in Jobs, j # k,
         \/ DumpStarts(k) \/ DumpRuns(k) \/ MongodumpRuns(k) \/ DumpEnds(k)
         \/ DumpTimesOut(k) \/ DumpKilled(k)
  PROVE  /\ stage'[j] = stage[j] /\ mongodump'[j] = mongodump[j] /\ file'[j] = file[j]
         /\ current'[j] = current[j] /\ pc'[Exe(j)] = pc[Exe(j)] /\ ent'[Exe(j)] = ent[Exe(j)]
         /\ Known(j)' \subseteq Known(j)
<1>1. /\ stage'[j] = stage[j] /\ mongodump'[j] = mongodump[j] /\ file'[j] = file[j]
      /\ current'[j] = current[j]
  <2>1. CASE DumpStarts(k) \/ DumpEnds(k) \/ DumpKilled(k)
    BY <2>1 DEF EngineType, DiskType, DumpStarts, DumpEnds, DumpKilled, Engine!Start,
       Engine!Return, Engine!Killed, Engine!Goto
  <2>2. CASE DumpRuns(k)
    BY <2>2 DEF EngineType, DiskType, DumpRuns, Engine!EngineStep, Engine!Refuse,
       Engine!WriteConfig, Engine!Spawn, Engine!SpawnFails, Engine!Drained, Engine!TimesOut,
       Engine!Validate, Engine!Goto, Engine!Exit, Engine!Leave
  <2>3. CASE MongodumpRuns(k) \/ DumpTimesOut(k)
    BY <2>3 DEF EngineType, DiskType, MongodumpRuns, DumpTimesOut, Engine!MongodumpExits,
       Engine!Cancelled, Engine!Exit, Engine!Leave
  <2>. QED BY <2>1, <2>2, <2>3
<1>2. ExecNext(k) \/ UNCHANGED vars
  BY DEF DumpStarts, DumpRuns, MongodumpRuns, DumpEnds, DumpTimesOut, DumpKilled,
     ExecNext, ExecStep
<1>3. Exe(j) \in Sessions /\ Exe(j) # Exe(k)
  BY SessionsType, SessionsDistinct
<1>4. pc'[Exe(j)] = pc[Exe(j)] /\ row'[j] = row[j] /\ \A s \in Writers(j) : ent'[s] = ent[s]
  BY <1>2, <1>3, WritersDistinct, ExecFrame DEF vars, memory, store
<1>5. Known(j)' \subseteq Known(j) /\ Exe(j) \in Writers(j)
  BY <1>4 DEF Known, Writers, Req, Exe, Can
<1>. QED BY <1>1, <1>4, <1>5

\* Counters that nobody writes stay known.
LEMMA SameKnown ==
  ASSUME row' = row, ent' = ent, NEW j \in Jobs
  PROVE  Known(j)' = Known(j)
  BY DEF Known, Writers, Req, Exe, Can

\* What is known of the counters stays true while no earlier dump disappears.
LEMMA MoreDumps ==
  ASSUME TypeOK, NEW j \in Jobs, CountedAreOnDisk(j), Known(j)' \subseteq Known(j), DiskType',
         EarlierDumps(j) \subseteq EarlierDumps(j)'
  PROVE  CountedAreOnDisk(j)'
<1>1. EarlierDumps(j)' \subseteq Numbers
  BY DEF EarlierDumps, WholeDumps, DiskType
<1>2. /\ Cardinality(EarlierDumps(j)) \in Nat /\ Cardinality(EarlierDumps(j)') \in Nat
      /\ Cardinality(EarlierDumps(j)) <= Cardinality(EarlierDumps(j)')
  BY <1>1, CollectionSets
<1>3. Known(j) \subseteq Nat
  BY WritersDistinct DEF TypeOK, Known, Row
<1>4. ASSUME NEW n \in Known(j)' PROVE n <= Cardinality(EarlierDumps(j)')
  <2>1. n \in Nat /\ n <= Cardinality(EarlierDumps(j))
    BY <1>3 DEF CountedAreOnDisk
  <2>. QED BY <1>2, <2>1
<1>. QED BY <1>4 DEF CountedAreOnDisk

\* A dump starts with the next collection, of which there is no file.
LEMMA StartKeepsDisk ==
  ASSUME TypeOK, EngineType, DiskType, NEW j \in Jobs, EngineOwns(j),
         NothingAhead(j), FileSoFar(j), CountedAreOnDisk(j), DumpStarts(j)
  PROVE  DiskType' /\ NothingAhead(j)' /\ FileSoFar(j)' /\ CountedAreOnDisk(j)'
<1>. /\ Exe(j) \in Sessions /\ pc \in [Sessions -> Pcs] /\ ent[Exe(j)] \in Row
     /\ MaxCollections \in Nat /\ targets[j] \in 0..MaxCollections
  BY SessionsType, PlatformAssumption DEF TypeOK, DiskType
<1>. /\ ent[Exe(j)].completed \in Nat /\ ent[Exe(j)].failed \in Nat
  BY DEF Row
<1>1. /\ pc[Exe(j)] = "loop" /\ pc'[Exe(j)] = "dump" /\ ent' = ent /\ row' = row
      /\ targets' = targets /\ Remaining(j) > 0
      /\ file' = file /\ mongodump' = mongodump
  BY DEF DumpStarts, ExecDump, Goto, memory, store, horse, Engine!Start
<1>2. Dumped(j) + 1 \in Numbers
  BY <1>1 DEF Dumped, Numbers, Remaining
<1>3. current' = [current EXCEPT ![j] = Dumped(j) + 1] /\ stage' = [stage EXCEPT ![j] = "check"]
  BY DEF DumpStarts, Engine!Start, Engine!Goto, Dumped
<1>4. DiskType' /\ current'[j] = Dumped(j) + 1 /\ stage'[j] = "check"
  BY <1>1, <1>2, <1>3 DEF DiskType, EngineType
<1>5. file[j][Dumped(j) + 1] = "none"
  BY <1>1, <1>2 DEF NothingAhead, Dumped
<1>6. NothingAhead(j)'
  <2>1. \A c \in Numbers : c > Dumped(j) + 1 => file[j][c] = "none"
    BY <1>1 DEF NothingAhead, Numbers, Dumped
  <2>. QED BY <1>1, <1>4, <2>1 DEF NothingAhead, Dumped
<1>7. FileSoFar(j)'
  BY <1>1, <1>4, <1>5 DEF FileSoFar
<1>8. EarlierDumps(j)' = EarlierDumps(j)
  BY <1>1, <1>4, <1>5 DEF EarlierDumps, WholeDumps, Dumping
<1>9. CountedAreOnDisk(j)'
  BY <1>1, <1>8, SameKnown DEF CountedAreOnDisk
<1>. QED BY <1>4, <1>6, <1>7, <1>9

\* What happens to the file of one collection while its dump is under way.
LEMMA RunKeepsDisk ==
  ASSUME TypeOK, EngineType, DiskType, NEW j \in Jobs, EngineOwns(j),
         NothingAhead(j), FileSoFar(j), CountedAreOnDisk(j), DumpRuns(j)
  PROVE  DiskType' /\ NothingAhead(j)' /\ FileSoFar(j)' /\ CountedAreOnDisk(j)'
<1>1. /\ pc' = pc /\ ent' = ent /\ row' = row /\ targets' = targets /\ pc[Exe(j)] = "dump"
  BY DEF DumpRuns, Dumping, vars, memory, store, horse
<1>2. current' = current
  BY DEF DumpRuns, Engine!EngineStep, Engine!Refuse, Engine!WriteConfig, Engine!Spawn,
     Engine!SpawnFails, Engine!Drained, Engine!TimesOut, Engine!Validate
<1>3. file' = file \/ file' = [file EXCEPT ![j][current[j]] = "partial"]
  BY DEF DumpRuns, Engine!EngineStep, Engine!Refuse, Engine!WriteConfig, Engine!Spawn,
     Engine!SpawnFails, Engine!Drained, Engine!TimesOut, Engine!Validate, Engine!Leave
<1>4. DiskType'
  BY <1>1, <1>2, <1>3 DEF DiskType, Engine!Files
<1>5. \A c \in Numbers : c # current[j] => file'[j][c] = file[j][c]
  BY <1>3 DEF DiskType
<1>6. NothingAhead(j)'
  <2>. Exe(j) \in Sessions /\ ent[Exe(j)] \in Row
    BY SessionsType DEF TypeOK
  <2>1. Dumped(j) \in Nat
    BY DEF Dumped, Row
  <2>2. current[j] = Dumped(j) + 1
    BY <1>1 DEF NothingAhead
  <2>3. \A c \in Numbers : c > Dumped(j) + 1 => file'[j][c] = "none"
    BY <1>1, <1>5, <2>1, <2>2 DEF NothingAhead, Numbers
  <2>. QED BY <1>1, <1>2, <2>2, <2>3 DEF NothingAhead, Dumped
<1>7. FileSoFar(j)'
  <2>1. CASE Engine!Refuse(j) \/ Engine!WriteConfig(j) \/ Engine!SpawnFails(j)
    BY <1>2, <2>1 DEF EngineType, FileSoFar, Engine!Refuse, Engine!WriteConfig,
       Engine!SpawnFails, Engine!Goto
  <2>2. CASE Engine!Spawn(j)
    BY <1>2, <2>2 DEF EngineType, FileSoFar, Engine!Spawn, Engine!Goto, Engine!Exit
  <2>3. CASE Engine!Drained(j)
    BY <1>2, <2>3 DEF EngineType, FileSoFar, Engine!Drained, Engine!Goto
  <2>4. CASE Engine!TimesOut(j)
    BY <1>2, <2>4 DEF EngineType, FileSoFar, Engine!TimesOut, Engine!Goto, Engine!Exit
  <2>5. CASE Engine!Validate(j)
    BY <1>2, <2>5 DEF EngineType, FileSoFar, Engine!Validate, Engine!Goto
  <2>. QED BY <2>1, <2>2, <2>3, <2>4, <2>5 DEF DumpRuns, Engine!EngineStep
<1>8. EarlierDumps(j)' = EarlierDumps(j)
  BY <1>1, <1>2, <1>4, <1>5 DEF EarlierDumps, WholeDumps, Dumping, DiskType
<1>9. CountedAreOnDisk(j)'
  BY <1>1, <1>8, SameKnown DEF CountedAreOnDisk
<1>. QED BY <1>4, <1>6, <1>7, <1>9

\* mongodump itself only ever writes a file that was not there.
LEMMA MongodumpKeepsDisk ==
  ASSUME TypeOK, EngineType, DiskType, NEW j \in Jobs, EngineOwns(j),
         NothingAhead(j), FileSoFar(j), CountedAreOnDisk(j), MongodumpRuns(j)
  PROVE  DiskType' /\ NothingAhead(j)' /\ FileSoFar(j)' /\ CountedAreOnDisk(j)'
<1>1. /\ pc' = pc /\ ent' = ent /\ row' = row /\ targets' = targets
      /\ current' = current /\ stage' = stage
  BY DEF MongodumpRuns, vars, memory, store, horse, Engine!MongodumpExits
<1>2. /\ mongodump[j] = "running" /\ file[j][current[j]] = "none"
      /\ \/ mongodump'[j] = "ok"
            /\ (file' = file \/ file' = [file EXCEPT ![j][current[j]] = "whole"])
         \/ mongodump'[j] = "error"
            /\ (file' = file \/ file' = [file EXCEPT ![j][current[j]] = "partial"])
  BY DEF MongodumpRuns, Engine!MongodumpExits, Engine!Exit, Engine!Leave, EngineType, FileSoFar
<1>3. DiskType'
  <2>1. CASE file' = file
    BY <1>1, <2>1 DEF DiskType
  <2>2. CASE file' = [file EXCEPT ![j][current[j]] = "whole"]
    BY <1>1, <2>2 DEF DiskType, Engine!Files
  <2>3. CASE file' = [file EXCEPT ![j][current[j]] = "partial"]
    BY <1>1, <2>3 DEF DiskType, Engine!Files
  <2>. QED BY <1>2, <2>1, <2>2, <2>3
<1>4. \A c \in Numbers : c # current[j] => file'[j][c] = file[j][c]
  BY <1>2 DEF DiskType
<1>5. stage[j] = "drain" \/ pc[Exe(j)] \in {"failed", "dead"}
  BY <1>2 DEF EngineOwns
<1>6. stage[j] = "drain" <=> pc[Exe(j)] = "dump"
  BY <1>2, <1>5 DEF EngineOwns, Dumping
<1>7. NothingAhead(j)'
  <2>1. CASE pc[Exe(j)] \in {"failed", "dead"}
    BY <1>1, <2>1 DEF NothingAhead
  <2>2. CASE pc[Exe(j)] = "dump"
    <3>. Exe(j) \in Sessions /\ ent[Exe(j)] \in Row
      BY SessionsType DEF TypeOK
    <3>1. Dumped(j) \in Nat /\ current[j] = Dumped(j) + 1
      BY <2>2 DEF Dumped, Row, NothingAhead
    <3>2. \A c \in Numbers : c > Dumped(j) + 1 => file'[j][c] = "none"
      BY <1>4, <2>2, <3>1 DEF NothingAhead, Numbers
    <3>. QED BY <1>1, <2>2, <3>1, <3>2 DEF NothingAhead, Dumped
  <2>. QED BY <1>5, <1>6, <2>1, <2>2
<1>8. FileSoFar(j)'
  <2>1. mongodump'[j] = "ok" => file'[j][current[j]] \in {"none", "whole"}
    BY <1>2 DEF DiskType
  <2>2. stage[j] \in {"drain", "idle"}
    BY <1>5, <1>6 DEF EngineOwns, Dumping
  <2>. QED BY <1>1, <1>2, <2>1, <2>2 DEF FileSoFar
<1>9. CountedAreOnDisk(j)'
  <2>1. EarlierDumps(j) \subseteq EarlierDumps(j)'
    BY <1>1, <1>2, <1>3, <1>4 DEF EarlierDumps, WholeDumps, Dumping, DiskType
  <2>. QED BY <1>1, <1>3, <2>1, SameKnown, MoreDumps
<1>. QED BY <1>3, <1>7, <1>8, <1>9

\* A collection counts as completed only with its dump on the disk.
LEMMA EndKeepsDisk ==
  ASSUME TypeOK, EngineType, DiskType, NEW j \in Jobs, EngineOwns(j),
         NothingAhead(j), FileSoFar(j), CountedAreOnDisk(j), DumpEnds(j)
  PROVE  DiskType' /\ NothingAhead(j)' /\ FileSoFar(j)' /\ CountedAreOnDisk(j)'
<1> DEFINE e == ent[Exe(j)]
           f == ent'[Exe(j)]
<1>. /\ Exe(j) \in Sessions /\ pc \in [Sessions -> Pcs] /\ e \in Row
     /\ e.completed \in Nat /\ e.failed \in Nat /\ current[j] \in Numbers
  BY SessionsType DEF TypeOK, Row, DiskType
<1>1. /\ pc[Exe(j)] = "dump" /\ pc'[Exe(j)] = "progressSave" /\ row' = row
      /\ targets' = targets /\ file' = file /\ current' = current
      /\ mongodump' = mongodump /\ stage'[j] = "idle"
  BY DEF DumpEnds, ExecCollected, Goto, store, horse, Engine!Return, EngineType
<1>2. \/ f.completed = e.completed + 1 /\ f.failed = e.failed /\ stage[j] = "success"
      \/ f.completed = e.completed /\ f.failed = e.failed + 1
  BY CollectedColumns DEF DumpEnds
<1>3. DiskType'
  BY <1>1 DEF DiskType
<1>4. NothingAhead(j)'
  <2>1. f.completed + f.failed = e.completed + e.failed + 1
    BY <1>2
  <2>2. \A c \in Numbers : c > e.completed + e.failed + 1 => file[j][c] = "none"
    BY <1>1 DEF NothingAhead, Dumped
  <2>3. Dumped(j)' = e.completed + e.failed + 1
    BY <2>1 DEF Dumped
  <2>4. \A c \in Numbers : c > Dumped(j)' => file'[j][c] = "none"
    BY <1>1, <2>2, <2>3
  <2>. QED BY <1>1, <2>4 DEF NothingAhead
<1>5. FileSoFar(j)'
  BY <1>1 DEF FileSoFar
<1>6. CountedAreOnDisk(j)'
  <2>1. /\ EarlierDumps(j) = WholeDumps(j) \ {current[j]}
        /\ EarlierDumps(j)' = WholeDumps(j) /\ WholeDumps(j)' = WholeDumps(j)
    BY <1>1 DEF EarlierDumps, WholeDumps, Dumping
  <2>2. /\ IsFiniteSet(EarlierDumps(j)) /\ Cardinality(EarlierDumps(j)) \in Nat
        /\ Cardinality(WholeDumps(j)) \in Nat
        /\ Cardinality(EarlierDumps(j)) <= Cardinality(WholeDumps(j))
    BY DumpsAreCollections, CollectionSets
  <2>3. /\ \A n \in Known(j) : n \in Nat /\ n <= Cardinality(EarlierDumps(j))
        /\ e.completed \in Known(j)
    BY WritersDistinct DEF CountedAreOnDisk, TypeOK, Row, Known
  <2>4. f.completed <= Cardinality(WholeDumps(j))
    <3>1. CASE f.completed = e.completed + 1 /\ stage[j] = "success"
      <4>1. current[j] \in WholeDumps(j)
        BY <3>1 DEF FileSoFar, WholeDumps, DiskType
      <4>2. WholeDumps(j) = EarlierDumps(j) \cup {current[j]} /\ current[j] \notin EarlierDumps(j)
        BY <2>1, <4>1
      <4>3. Cardinality(WholeDumps(j)) = Cardinality(EarlierDumps(j)) + 1
        BY <2>2, <4>2, FS_AddElement
      <4>. QED BY <2>2, <2>3, <3>1, <4>3
    <3>2. CASE f.completed = e.completed
      BY <2>2, <2>3, <3>2
    <3>. QED BY <1>2, <3>1, <3>2
  <2>5. Known(j)' \subseteq Known(j) \cup {f.completed}
    <3>1. \A s \in Writers(j) : s # Exe(j) => ent'[s] = ent[s]
      BY WritersDistinct, ExecFrame DEF DumpEnds, ExecNext, ExecStep
    <3>2. Writers(j)' = Writers(j)
      BY DEF Writers, Req, Exe, Can
    <3>. QED BY <1>1, <3>1, <3>2 DEF Known
  <2>6. \A n \in Known(j)' : n <= Cardinality(WholeDumps(j))
    BY <2>2, <2>3, <2>4, <2>5
  <2>. QED BY <2>1, <2>6 DEF CountedAreOnDisk
<1>. QED BY <1>3, <1>4, <1>5, <1>6

\* An execution that is cut short takes no earlier dump along.
LEMMA CutKeepsDisk ==
  ASSUME TypeOK, EngineType, DiskType, NEW j \in Jobs, EngineOwns(j),
         NothingAhead(j), FileSoFar(j), CountedAreOnDisk(j), DumpTimesOut(j) \/ DumpKilled(j)
  PROVE  DiskType' /\ NothingAhead(j)' /\ FileSoFar(j)' /\ CountedAreOnDisk(j)'
<1>. /\ Exe(j) \in Sessions /\ pc \in [Sessions -> Pcs] /\ MaxCollections \in Nat
     /\ current[j] \in Numbers
  BY SessionsType, PlatformAssumption DEF TypeOK, DiskType
<1>1. /\ pc[Exe(j)] = "dump" /\ pc'[Exe(j)] \in {"failed", "dead"} /\ row' = row
      /\ targets' = [targets EXCEPT ![j] = 0] /\ current' = current /\ stage'[j] = "idle"
  BY DEF DumpTimesOut, DumpKilled, ExecTimeout, HorseKill, ForgetHorse, Dumping, store,
     Engine!Cancelled, Engine!Killed, EngineType
<1>2. \/ file' = file /\ mongodump' = mongodump
      \/ /\ mongodump'[j] = "killed"
         /\ file[j][current[j]] = "none"
         /\ file' = file \/ file' = [file EXCEPT ![j][current[j]] = "partial"]
  BY DEF DumpTimesOut, DumpKilled, Engine!Cancelled, Engine!Killed, Engine!Exit, Engine!Leave,
     EngineType, FileSoFar
<1>3. DiskType'
  <2>1. file' \in [Jobs -> [Numbers -> Engine!Files]]
    <3>1. CASE file' = file
      BY <3>1 DEF DiskType
    <3>2. CASE file' = [file EXCEPT ![j][current[j]] = "partial"]
      <4>1. file[j] \in [Numbers -> Engine!Files] /\ "partial" \in Engine!Files
        BY DEF DiskType, Engine!Files
      <4>2. [file[j] EXCEPT ![current[j]] = "partial"] \in [Numbers -> Engine!Files]
        BY <4>1
      <4>. QED BY <3>2, <4>2 DEF DiskType
    <3>. QED BY <1>2, <3>1, <3>2
  <2>2. 0 \in 0..MaxCollections
    OBVIOUS
  <2>3. targets' \in [Jobs -> 0..MaxCollections]
    BY <1>1, <2>2 DEF DiskType
  <2>. QED BY <1>1, <2>1, <2>3 DEF DiskType
<1>4. NothingAhead(j)'
  BY <1>1 DEF NothingAhead
<1>5. FileSoFar(j)'
  BY <1>1, <1>2 DEF FileSoFar
<1>6. \A c \in Numbers : c # current[j] => file'[j][c] = file[j][c]
  BY <1>2 DEF DiskType
<1>7. EarlierDumps(j) \subseteq EarlierDumps(j)'
  BY <1>1, <1>3, <1>6 DEF EarlierDumps, WholeDumps, Dumping, DiskType
<1>8. Known(j)' \subseteq Known(j)
  <2>1. ExecNext(j) /\ ~ExecCollected(j)
    BY <1>1 DEF DumpTimesOut, DumpKilled, ExecNext, ExecCollected, Goto
  <2>. QED BY <2>1, ExecCopies
<1>9. CountedAreOnDisk(j)'
  BY <1>3, <1>7, <1>8, MoreDumps
<1>. QED BY <1>3, <1>4, <1>5, <1>9

\* Outside of dumps no counter is new and no file changes.
LEMMA ElsewhereKeepsDisk ==
  ASSUME TypeOK, EngineType, DiskType, Elsewhere,
         NEW j \in Jobs, NothingAhead(j), FileSoFar(j), CountedAreOnDisk(j)
  PROVE  /\ NothingAhead(j)' /\ FileSoFar(j)' /\ CountedAreOnDisk(j)'
         /\ targets'[j] \in 0..MaxCollections
<1>. /\ Exe(j) \in Sessions /\ Req(j) \in Sessions /\ pc \in [Sessions -> Pcs]
     /\ MaxCollections \in Nat /\ targets \in [Jobs -> 0..MaxCollections]
  BY SessionsType, PlatformAssumption DEF TypeOK, DiskType
<1>1. /\ stage' = stage /\ mongodump' = mongodump /\ file' = file /\ current' = current
      /\ Dumping(j)' = Dumping(j) /\ Next
  BY DEF Elsewhere, engine
<1>2. FileSoFar(j)'
  BY <1>1 DEF FileSoFar
<1>3. CountedAreOnDisk(j)'
  <2>1. ASSUME NEW k \in Jobs PROVE ~ExecCollected(k)
    BY SessionsType DEF Elsewhere, Dumping, ExecCollected, Goto, TypeOK
  <2>2. Known(j)' \subseteq Known(j)
    BY <1>1, <2>1, NothingNewCounted
  <2>3. EarlierDumps(j)' = EarlierDumps(j)
    BY <1>1 DEF EarlierDumps, WholeDumps
  <2>. QED BY <2>2, <2>3 DEF CountedAreOnDisk
<1>4. ASSUME pc'[Exe(j)] = pc[Exe(j)], ent'[Exe(j)] = ent[Exe(j)], targets'[j] = targets[j]
      PROVE  NothingAhead(j)' /\ targets'[j] \in 0..MaxCollections
  BY <1>1, <1>4 DEF NothingAhead, Dumped
<1>5. NothingAhead(j)' /\ targets'[j] \in 0..MaxCollections
  <2>1. CASE \E k \in Jobs : RequestNext(k)
    BY <1>4, <2>1, RequestFrame, SessionsDistinct
  <2>2. CASE \E u \in Cancellers, k \in Jobs : CancelNext(u, k)
    <3>1. pc'[Exe(j)] = pc[Exe(j)] /\ ent'[Exe(j)] = ent[Exe(j)]
      BY <2>2, CancelLocal, SessionsDistinct
    <3>2. targets' = targets
      BY <2>2 DEF CancelNext, CancelStep, CancelRead, CancelRq, CancelSelect, CancelUpdate,
         CancelFinish, CancelRaise, horse
    <3>. QED BY <1>4, <3>1, <3>2
  <2>3. CASE BotCrash
    <3>1. Exe(j) \notin Requests \cup Cancels
      BY SessionsDistinct DEF Requests, Cancels
    <3>2. pc'[Exe(j)] = pc[Exe(j)] /\ ent'[Exe(j)] = ent[Exe(j)] /\ targets' = targets
      BY <2>3, <3>1 DEF BotCrash, horse
    <3>. QED BY <1>4, <3>2
  <2>4. CASE ExpireGlobal \/ (\E c \in Clusters : ExpireCluster(c))
    <3>1. pc' = pc /\ ent' = ent /\ targets' = targets
      BY <2>4 DEF ExpireGlobal, ExpireCluster, memory, horse
    <3>. QED BY <1>4, <3>1
  <2>5. CASE \E k \in Jobs : k # j /\ ExecNext(k)
    BY <1>4, <2>5, ExecFrame, SessionsDistinct
  <2>6. CASE ExecNext(j)
    <3>1. CASE Sigterm(j)
      BY <1>4, <3>1 DEF Sigterm, memory
    <3>2. CASE Dispatch(j) \/ ExecLookup(j) \/ ExecLock(j) \/ ExecBegin(j) \/ ExecBeginSave(j)
      <4>1. /\ pc[Exe(j)] \in {"idle", "lookup", "lock", "begin", "beginSave"}
            /\ pc'[Exe(j)] \in {"lookup", "lock", "begin", "alert", "beginSave", "resolve"}
            /\ targets' = targets
        BY <3>2 DEF Dispatch, ExecLookup, ExecLock, ExecBegin, ExecBeginSave, Goto, horse
      <4>. QED BY <1>1, <4>1 DEF NothingAhead
    <3>3. CASE ExecResolve(j)
      <4>1. /\ pc[Exe(j)] = "resolve" /\ pc'[Exe(j)] = "loop"
            /\ targets'[j] \in 0..MaxCollections
        BY <3>3 DEF ExecResolve, Goto
      <4>. QED BY <1>1, <4>1 DEF NothingAhead
    <3>4. CASE ExecDump(j) \/ ExecCollected(j)
      BY <1>1, <3>4 DEF ExecDump, ExecCollected, Goto, Dumping
    <3>5. CASE ExecProgressSave(j)
      <4>1. /\ pc[Exe(j)] = "progressSave" /\ pc'[Exe(j)] = "loop" /\ ent' = ent
            /\ targets' = targets
        BY <3>5 DEF ExecProgressSave, Goto, horse
      <4>. QED BY <1>1, <4>1 DEF NothingAhead, Dumped
    <3>6. CASE ExecBeginRaises(j) \/ ExecFinalize(j) \/ ExecFinalSave(j) \/ ExecAudit(j)
               \/ ExecNotify(j) \/ ExecRelease(j) \/ ExecRaise(j) \/ ExecAlert(j)
               \/ ExecTimeout(j) \/ HorseKill(j)
      <4>1. pc'[Exe(j)] \in {"alert", "finalSave", "audit", "notify", "release", "done", "failed",
                              "dead"}
        BY <3>6 DEF ExecBeginRaises, ExecFinalize, ExecFinalSave, ExecAudit, ExecNotify,
           ExecRelease, ExecRaise, ExecAlert, ExecTimeout, HorseKill, Goto
      <4>2. targets'[j] = targets[j] \/ targets'[j] = 0
        BY <3>6 DEF ExecBeginRaises, ExecFinalize, ExecFinalSave, ExecAudit, ExecNotify,
           ExecRelease, ExecRaise, ExecAlert, ExecTimeout, HorseKill, ForgetHorse, horse
      <4>. QED BY <4>1, <4>2 DEF NothingAhead
    <3>. QED BY <2>6, <3>1, <3>2, <3>3, <3>4, <3>5, <3>6 DEF ExecNext, ExecStep
  <2>. QED BY <1>1, <2>1, <2>2, <2>3, <2>4, <2>5, <2>6 DEF Next
<1>. QED BY <1>2, <1>3, <1>5

\* Every step of the composition keeps what is known of the disk.
LEMMA DiskInvStep ==
  ASSUME TypeOK, OutcomeDecided, EngineInv, DiskInv,
         [ExecutionNext]_executionVars
  PROVE  DiskInv'
<1> DEFINE Disk(j) == NothingAhead(j) /\ FileSoFar(j) /\ CountedAreOnDisk(j)
<1>. DiskType /\ EngineType /\ \A j \in Jobs : EngineOwns(j) /\ Disk(j)
  BY DEF DiskInv, EngineInv
<1>1. ASSUME NEW k \in Jobs,
             \/ DumpStarts(k) \/ DumpRuns(k) \/ MongodumpRuns(k) \/ DumpEnds(k)
             \/ DumpTimesOut(k) \/ DumpKilled(k)
      PROVE  DiskInv'
  <2>1. DiskType' /\ Disk(k)'
    BY <1>1, StartKeepsDisk, RunKeepsDisk, MongodumpKeepsDisk, EndKeepsDisk, CutKeepsDisk
  <2>2. ASSUME NEW j \in Jobs, j # k PROVE Disk(j)'
    BY <1>1, <2>2, DumpFrame, DiskFrame
  <2>. QED BY <2>1, <2>2 DEF DiskInv
<1>2. CASE Elsewhere
  <2>1. ASSUME NEW j \in Jobs PROVE Disk(j)' /\ targets'[j] \in 0..MaxCollections
    BY <1>2, ElsewhereKeepsDisk
  <2>2. targets' \in [Jobs -> Nat]
    BY <1>2, TypeStep DEF Elsewhere, TypeOK
  <2>3. targets' \in [Jobs -> 0..MaxCollections]
    BY <2>1, <2>2
  <2>4. DiskType'
    BY <1>2, <2>3 DEF DiskType, Elsewhere, engine
  <2>. QED BY <2>1, <2>4 DEF DiskInv
<1>3. CASE UNCHANGED executionVars
  <2>1. /\ stage' = stage /\ mongodump' = mongodump /\ file' = file /\ current' = current
        /\ pc' = pc /\ ent' = ent /\ row' = row /\ targets' = targets
    BY <1>3 DEF executionVars, engine, vars, memory, store, horse
  <2>2. DiskType' /\ \A j \in Jobs : Disk(j)'
    BY <2>1, DiskFrame, SameKnown DEF DiskType
  <2>. QED BY <2>2 DEF DiskInv
<1>. QED BY <1>1, <1>2, <1>3 DEF ExecutionNext

\* Initially there is no dump and nothing is counted.
LEMMA DiskInvInit == ExecutionInit => DiskInv
<1>. SUFFICES ASSUME ExecutionInit PROVE DiskInv
  OBVIOUS
<1>. MaxCollections \in Nat
  BY PlatformAssumption
<1>1. DiskType
  BY DEF ExecutionInit, Init, Engine!Init, DiskType, Numbers, Engine!Files
<1>2. ASSUME NEW j \in Jobs PROVE NothingAhead(j) /\ FileSoFar(j) /\ CountedAreOnDisk(j)
  <2>1. /\ pc[Exe(j)] = "idle" /\ row[j] = NoRow /\ stage[j] = "idle" /\ mongodump[j] = "none"
        /\ \A c \in Numbers : file[j][c] = "none"
    BY <1>2, SessionsType DEF ExecutionInit, Init, Engine!Init, Numbers
  <2>2. NothingAhead(j) /\ FileSoFar(j)
    BY <2>1 DEF NothingAhead, FileSoFar
  <2>3. Cardinality(EarlierDumps(j)) \in Nat
    BY <1>1, DumpsAreCollections, CollectionSets
  <2>4. \A s \in Writers(j) : ent[s] = NoRow
    BY WritersDistinct DEF ExecutionInit, Init
  <2>5. Known(j) \subseteq {0}
    BY <2>1, <2>4, NamedRows DEF Known
  <2>6. CountedAreOnDisk(j)
    BY <2>3, <2>5 DEF CountedAreOnDisk
  <2>. QED BY <2>2, <2>6
<1>. QED BY <1>1, <1>2 DEF DiskInv

\* The table never claims more collections than there are whole dumps on the disk,
\* whatever fails and whoever cancels: exit code and dump file are looked at before a
\* collection counts, nothing later touches an earlier dump, and a stale save only puts
\* a smaller counter back (backup_collection, _run_backup_loop and the saves).
THEOREM CompletedAlwaysOnDisk == ExecutionSpec => []CompletedAreOnDisk
<1>1. ExecutionSpec => [](TypeOK /\ OutcomeDecided)
  BY ExecutionRefinesPlatform, InductiveInvariant, PTL DEF Inductive
<1>2. TypeOK /\ OutcomeDecided /\ EngineInv /\ DiskInv
        /\ [ExecutionNext]_executionVars => DiskInv'
  BY DiskInvStep
<1>3. ExecutionSpec => []DiskInv
  BY <1>1, <1>2, DiskInvInit, EngineInvariant, PTL DEF ExecutionSpec
<1>4. TypeOK /\ DiskInv => CompletedAreOnDisk
  <2>. SUFFICES ASSUME TypeOK, DiskInv, NEW j \in Jobs
                PROVE  row[j].completed <= Cardinality(WholeDumps(j))
    BY DEF CompletedAreOnDisk, WholeDumps
  <2>1. /\ Cardinality(EarlierDumps(j)) \in Nat /\ Cardinality(WholeDumps(j)) \in Nat
        /\ Cardinality(EarlierDumps(j)) <= Cardinality(WholeDumps(j))
    BY DumpsAreCollections, CollectionSets DEF DiskInv
  <2>2. row[j].completed \in Nat /\ row[j].completed <= Cardinality(EarlierDumps(j))
    BY DEF TypeOK, Row, DiskInv, CountedAreOnDisk, Known
  <2>. QED BY <2>1, <2>2
<1>. QED BY <1>1, <1>3, <1>4, PTL
=============================================================================
