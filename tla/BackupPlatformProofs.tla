------------------------- MODULE BackupPlatformProofs -------------------------
(***************************************************************************)
(* Theorems about BackupPlatform for every set of jobs, users, clusters    *)
(* and faults and every number of workers and collections.                 *)
(*                                                                         *)
(* The invariant is proved in parts, one step lemma per part: types and    *)
(* decided outcomes (TypeCorrect), rows, queue entries and audit entries   *)
(* (InductiveInvariant), and, only while locks outlive their holders, the  *)
(* locks (LocksAlwaysHeld).  A step lemma splits on the session that takes *)
(* the step; the "Local" lemmas dispose of the sessions that do not.       *)
(***************************************************************************)
EXTENDS BackupPlatform, TLAPS

\* The missing row and a freshly created one are rows.
LEMMA NoRowType == NoRow \in Row /\ NewRow \in Row
  BY UsersAssumption DEF NoRow, NewRow, Row, JobStatus

\* What save() leaves in the table is a row (SQLJobRepository.save).
LEMMA MergedType ==
  ASSUME NEW s \in Row, NEW l \in Row, NEW e \in Row
  PROVE  Merged(s, l, e) \in Row
  BY DEF Merged, Column, Row

\* Setting one column of a row to a value of its type gives a row.
LEMMA ColumnType ==
  ASSUME NEW r \in Row
  PROVE  /\ \A st \in JobStatus : [r EXCEPT !.status = st] \in Row
         /\ \A u \in Users \cup {NoUser, System} : [r EXCEPT !.by = u] \in Row
         /\ \A b \in BOOLEAN : [r EXCEPT !.queueId = b] \in Row
         /\ \A n \in Nat : [r EXCEPT !.total = n] \in Row
         /\ [r EXCEPT !.completed = @ + 1] \in Row
         /\ [r EXCEPT !.failed = @ + 1] \in Row
<1>1. \A st \in JobStatus : [r EXCEPT !.status = st] \in Row
  BY DEF Row
<1>2. \A u \in Users \cup {NoUser, System} : [r EXCEPT !.by = u] \in Row
  BY DEF Row
<1>3. \A b \in BOOLEAN : [r EXCEPT !.queueId = b] \in Row
  BY DEF Row
<1>4. \A n \in Nat : [r EXCEPT !.total = n] \in Row
  BY DEF Row
<1>5. [r EXCEPT !.completed = @ + 1] \in Row /\ [r EXCEPT !.failed = @ + 1] \in Row
  BY DEF Row
<1>. QED BY <1>1, <1>2, <1>3, <1>4, <1>5

\* The changes the use cases make to an entity before saving it give a row.
LEMMA EntityType ==
  ASSUME NEW r \in Row, NEW st \in JobStatus, NEW u \in Users \cup {NoUser, System}
  PROVE  /\ [r EXCEPT !.status = st] \in Row
         /\ [r EXCEPT !.status = st, !.queueId = TRUE] \in Row
         /\ [r EXCEPT !.status = st, !.by = u] \in Row
         /\ \A n \in Nat : /\ [r EXCEPT !.total = n, !.completed = @ + 1] \in Row
                           /\ [r EXCEPT !.total = n, !.failed = @ + 1] \in Row
<1>1. [r EXCEPT !.status = st] \in Row
  BY ColumnType
<1>2. [r EXCEPT !.status = st, !.queueId = TRUE] \in Row
  BY <1>1, ColumnType
<1>3. [r EXCEPT !.status = st, !.by = u] \in Row
  BY <1>1, ColumnType
<1>4. ASSUME NEW n \in Nat
      PROVE  /\ [r EXCEPT !.total = n, !.completed = @ + 1] \in Row
             /\ [r EXCEPT !.total = n, !.failed = @ + 1] \in Row
  <2>1. [r EXCEPT !.total = n] \in Row
    BY ColumnType
  <2>. DEFINE q == [r EXCEPT !.total = n]
  <2>2. [q EXCEPT !.completed = @ + 1] \in Row /\ [q EXCEPT !.failed = @ + 1] \in Row
    BY <2>1, ColumnType
  <2>. QED BY <2>2
<1>. QED BY <1>1, <1>2, <1>3, <1>4

\* _finalize_job picks a terminal status, whatever it counted.
LEMMA FinalStatusType ==
  ASSUME NEW c \in BOOLEAN, NEW t, NEW f
  PROVE  FinalStatus(c, t, f) \in Terminal
  BY DEF FinalStatus, Terminal

\* Both halves of save(), and the end of a session, keep entities and rows typed.
LEMMA SaveType ==
  ASSUME TypeOK, NEW s \in Sessions, NEW j \in Jobs, NEW e \in Row
  PROVE  /\ SaveLoad(s, j, e) => ent' \in [Sessions -> Row] /\ orm' \in [Sessions -> Row]
         /\ SaveWrite(s, j) => row' \in [Jobs -> Row] /\ orm' \in [Sessions -> Row]
         /\ Forget(s) => ent' \in [Sessions -> Row] /\ orm' \in [Sessions -> Row]
  BY NoRowType, MergedType DEF TypeOK, SaveLoad, SaveWrite, Forget

\* Requests, executions and cancellations are sessions.
LEMMA SessionsType ==
  /\ \A j \in Jobs : Req(j) \in Requests /\ Req(j) \in Sessions
  /\ \A j \in Jobs : Exe(j) \in Executions /\ Exe(j) \in Sessions
  /\ \A u \in Cancellers, j \in Jobs : Can(u, j) \in Cancels /\ Can(u, j) \in Sessions
  BY DEF Requests, Executions, Cancels, Sessions

\* The empty system is typed.
LEMMA InitType == Init => TypeOK
  BY NoRowType DEF Init, TypeOK, Pcs, RqStatus, UiTexts

\* Every step of a request keeps the types.
LEMMA RequestType ==
  ASSUME TypeOK, NEW j \in Jobs, RequestNext(j)
  PROVE  TypeOK'
<1> USE SessionsType DEF TypeOK, Pcs, ReqLive, store, locks, memory, horse
<1>1. CASE RequestDeny(j)
  BY <1>1 DEF RequestDeny, Goto, TryShow, Show, UiTexts
<1>2. CASE RequestLock(j)
  BY <1>2 DEF RequestLock, Goto, SetNX
<1>3. CASE RequestRefuse(j)
  BY <1>3, SaveType, NoRowType DEF RequestRefuse, Goto, TryShow, Show, UiTexts, ReleaseGlobal, ReleaseScript, Forget
<1>4. CASE RequestCreate(j)
  BY <1>4, NoRowType DEF RequestCreate, Goto
<1>5. CASE RequestFetch(j)
  BY <1>5 DEF RequestFetch, Goto, Log, AuditEvents
<1>6. CASE RequestEnqueue(j)
  BY <1>6 DEF RequestEnqueue, Goto, RqStatus
<1>7. CASE RequestMarkQueued(j)
  <2>1. [ent[Req(j)] EXCEPT !.status = "QUEUED", !.queueId = TRUE] \in Row
    <3>1. ent[Req(j)] \in Row /\ "QUEUED" \in JobStatus
      BY DEF JobStatus
    <3>. HIDE DEF TypeOK
    <3>. QED BY <3>1, EntityType, UsersAssumption
  <2>. QED BY <1>7, <2>1, SaveType DEF RequestMarkQueued, Goto
<1>8. CASE RequestMarkQueuedRaises(j)
  BY <1>8, NoRowType DEF RequestMarkQueuedRaises, Goto, Forget, ReleaseGlobal, ReleaseScript
<1>9. CASE RequestSave(j)
  BY <1>9, MergedType, NoRowType DEF RequestSave, Goto, SaveWrite
<1>10. CASE RequestFinish(j)
  BY <1>10, NoRowType DEF RequestFinish, Goto, Log, AuditEvents, Forget, ReleaseGlobal, ReleaseScript
<1>11. CASE RequestReply(j)
  BY <1>11 DEF RequestReply, Goto, TryShow, Show, UiTexts
<1>12. CASE RequestRaise(j)
  BY <1>12, NoRowType DEF RequestRaise, Forget, ReleaseGlobal, ReleaseScript
<1>. QED
  BY <1>1, <1>2, <1>3, <1>4, <1>5, <1>6, <1>7, <1>8, <1>9, <1>10, <1>11, <1>12
  DEF RequestNext, RequestStep

\* Every step of a cancellation keeps the types.
LEMMA CancelType ==
  ASSUME TypeOK, NEW u \in Cancellers, NEW j \in Jobs, CancelNext(u, j)
  PROVE  TypeOK'
<1> USE SessionsType DEF TypeOK, Pcs, CanLive, store, locks, memory, horse
<1>1. CASE CancelRead(u, j)
  BY <1>1 DEF CancelRead, Goto
<1>2. CASE CancelRq(u, j)
  BY <1>2, NoRowType DEF CancelRq, Goto, Forget, RqStatus
<1>3. CASE CancelSelect(u, j)
  <2>1. [ent[Can(u, j)] EXCEPT !.status = "CANCELLED", !.by = u] \in Row
    <3>1. ent[Can(u, j)] \in Row /\ "CANCELLED" \in JobStatus
      BY DEF JobStatus, Terminal
    <3>2. u \in Users
      BY PlatformAssumption
    <3>. HIDE DEF TypeOK
    <3>. QED BY <3>1, <3>2, EntityType
  <2>. QED BY <1>3, <2>1, SaveType DEF CancelSelect, Goto
<1>4. CASE CancelUpdate(u, j)
  BY <1>4, MergedType, NoRowType DEF CancelUpdate, Goto, SaveWrite
<1>5. CASE CancelFinish(u, j)
  BY <1>5, NoRowType DEF CancelFinish, Goto, Log, AuditEvents, Forget
<1>6. CASE CancelRaise(u, j)
  BY <1>6, NoRowType DEF CancelRaise, Forget
<1>. QED
  BY <1>1, <1>2, <1>3, <1>4, <1>5, <1>6 DEF CancelNext, CancelStep

\* Every step of an execution, and of RQ on its behalf, keeps the types.
LEMMA ExecType ==
  ASSUME TypeOK, OutcomeDecided, NEW j \in Jobs, ExecNext(j)
  PROVE  TypeOK'
<1> USE SessionsType DEF TypeOK, Pcs, ExeLive, store, locks, memory, horse
<1>1. CASE Dispatch(j)
  BY <1>1 DEF Dispatch, Goto, RqStatus
<1>2. CASE ExecLookup(j)
  BY <1>2 DEF ExecLookup, Goto
<1>3. CASE ExecLock(j)
  BY <1>3, PlatformAssumption DEF ExecLock, Goto, SetNX
<1>4. CASE ExecBegin(j)
  <2>1. [ent[Exe(j)] EXCEPT !.status = "RUNNING"] \in Row
    <3>1. ent[Exe(j)] \in Row /\ "RUNNING" \in JobStatus
      BY DEF JobStatus
    <3>. HIDE DEF TypeOK
    <3>. QED BY <3>1, EntityType
  <2>. QED BY <1>4, <2>1, SaveType DEF ExecBegin, Goto
<1>5. CASE ExecBeginRaises(j)
  BY <1>5, PlatformAssumption DEF ExecBeginRaises, Goto, ReleaseCluster, ReleaseScript
<1>6. CASE ExecBeginSave(j)
  BY <1>6, MergedType, NoRowType DEF ExecBeginSave, Goto, SaveWrite
<1>7. CASE ExecResolve(j)
  BY <1>7, PlatformAssumption DEF ExecResolve, Goto, Log, AuditEvents
<1>8. CASE ExecDump(j)
  BY <1>8 DEF ExecDump, Goto
<1>9. CASE ExecCollected(j)
  <2>1. /\ [ent[Exe(j)] EXCEPT !.total = targets[j], !.completed = @ + 1] \in Row
        /\ [ent[Exe(j)] EXCEPT !.total = targets[j], !.failed = @ + 1] \in Row
    <3>1. ent[Exe(j)] \in Row /\ targets[j] \in Nat
      OBVIOUS
    <3>. HIDE DEF TypeOK
    <3>. QED BY <3>1, EntityType, UsersAssumption DEF JobStatus
  <2>. QED BY <1>9, <2>1, SaveType DEF ExecCollected, Goto
<1>10. CASE ExecProgressSave(j)
  BY <1>10, MergedType, NoRowType DEF ExecProgressSave, Goto, SaveWrite, Show, UiTexts
<1>11. CASE ExecFinalize(j)
  <2> DEFINE cancelled == Remaining(j) > 0
             st == FinalStatus(cancelled, targets[j], ent[Exe(j)].failed)
             final == [ent[Exe(j)] EXCEPT !.status = st,
                                          !.by = IF cancelled THEN System ELSE @]
  <2>1. final \in Row
    <3>1. ent[Exe(j)] \in Row
      OBVIOUS
    <3>2. st \in JobStatus
      <4>1. cancelled \in BOOLEAN
        OBVIOUS
      <4>. HIDE DEF cancelled
      <4>. QED BY <4>1, FinalStatusType DEF JobStatus
    <3>3. (IF cancelled THEN System ELSE ent[Exe(j)].by) \in Users \cup {NoUser, System}
      BY <3>1 DEF Row
    <3>. HIDE DEF TypeOK, st, cancelled
    <3>. QED BY <3>1, <3>2, <3>3, EntityType
  <2>2. SaveLoad(Exe(j), j, final)
    BY <1>11 DEF ExecFinalize
  <2>. HIDE DEF final
  <2>. QED BY <1>11, <2>1, <2>2, SaveType DEF ExecFinalize, Goto
<1>12. CASE ExecFinalSave(j)
  BY <1>12, MergedType, NoRowType DEF ExecFinalSave, Goto, SaveWrite
<1>13. CASE ExecAudit(j)
  <2>1. ent[Exe(j)].status \in Terminal
    BY <1>13 DEF ExecAudit, Goto, OutcomeDecided
  <2>. QED BY <1>13, <2>1 DEF ExecAudit, Goto, Log, AuditEvents
<1>14. CASE ExecNotify(j)
  <2>1. ent[Exe(j)].status \in Terminal
    BY <1>14 DEF ExecNotify, Goto, OutcomeDecided
  <2>. QED BY <1>14, <2>1 DEF ExecNotify, Goto, TryShow, Show, UiTexts
<1>15. CASE ExecRelease(j)
  BY <1>15, NoRowType, PlatformAssumption
  DEF ExecRelease, Goto, ReleaseCluster, ReleaseScript, RqStatus, ForgetHorse, Forget
<1>16. CASE ExecRaise(j)
  BY <1>16, PlatformAssumption DEF ExecRaise, ReleaseCluster, ReleaseScript
<1>17. CASE ExecAlert(j)
  BY <1>17, NoRowType DEF ExecAlert, Goto, TryShow, Show, UiTexts, RqStatus, ForgetHorse, Forget
<1>18. CASE ExecTimeout(j)
  BY <1>18, NoRowType, PlatformAssumption
  DEF ExecTimeout, ReleaseCluster, ReleaseScript, RqStatus, ForgetHorse, Forget
<1>19. CASE HorseKill(j)
  BY <1>19, NoRowType DEF HorseKill, RqStatus, ForgetHorse, Forget
<1>20. CASE Sigterm(j)
  BY <1>20 DEF Sigterm
<1>. QED
  BY <1>1, <1>2, <1>3, <1>4, <1>5, <1>6, <1>7, <1>8, <1>9, <1>10, <1>11, <1>12,
     <1>13, <1>14, <1>15, <1>16, <1>17, <1>18, <1>19, <1>20
  DEF ExecNext, ExecStep

\* A bot crash and an expiry keep the types.
LEMMA EnvironmentType ==
  ASSUME TypeOK, BotCrash \/ ExpireGlobal \/ \E c \in Clusters : ExpireCluster(c)
  PROVE  TypeOK'
<1> USE DEF TypeOK, store, locks, memory, horse
<1>1. CASE BotCrash
  BY <1>1, NoRowType DEF BotCrash, Pcs
<1>2. CASE ExpireGlobal
  BY <1>2 DEF ExpireGlobal
<1>3. ASSUME NEW c \in Clusters, ExpireCluster(c) PROVE TypeOK'
  BY <1>3 DEF ExpireCluster
<1>. QED BY <1>1, <1>2, <1>3

-----------------------------------------------------------------------------
\* Sessions of different kinds or jobs are different.
LEMMA SessionsDistinct ==
  /\ \A j, k \in Jobs : Req(j) = Req(k) => j = k
  /\ \A j, k \in Jobs : Exe(j) = Exe(k) => j = k
  /\ \A j, k \in Jobs, u, v \in Cancellers : Can(u, j) = Can(v, k) => u = v /\ j = k
  /\ \A j, k \in Jobs : Req(j) # Exe(k)
  /\ \A j, k \in Jobs, u \in Cancellers : Can(u, j) # Req(k) /\ Can(u, j) # Exe(k)
  BY DEF Req, Exe, Can

\* A request moves no other session and changes no other entity.
LEMMA RequestLocal ==
  ASSUME TypeOK, NEW j \in Jobs, RequestNext(j), NEW s \in Sessions, s # Req(j)
  PROVE  pc'[s] = pc[s] /\ ent'[s] = ent[s]
<1>1. pc \in [Sessions -> Pcs] /\ ent \in [Sessions -> Row] /\ Req(j) \in Sessions
  BY SessionsType DEF TypeOK
<1>. QED
  BY <1>1 DEF RequestNext, RequestStep, RequestDeny, RequestLock, RequestRefuse, RequestCreate,
     RequestFetch, RequestEnqueue, RequestMarkQueued, RequestMarkQueuedRaises, RequestSave,
     RequestFinish, RequestReply, RequestRaise, Goto, SaveLoad, Forget, memory

\* A cancellation moves no other session and changes no other entity.
LEMMA CancelLocal ==
  ASSUME TypeOK, NEW u \in Cancellers, NEW j \in Jobs, CancelNext(u, j),
         NEW s \in Sessions, s # Can(u, j)
  PROVE  pc'[s] = pc[s] /\ ent'[s] = ent[s]
<1>1. pc \in [Sessions -> Pcs] /\ ent \in [Sessions -> Row] /\ Can(u, j) \in Sessions
  BY SessionsType DEF TypeOK
<1>. QED
  BY <1>1 DEF CancelNext, CancelStep, CancelRead, CancelRq, CancelSelect, CancelUpdate,
     CancelFinish, CancelRaise, Goto, SaveLoad, Forget, memory

\* An execution moves no other session and changes no other entity.
LEMMA ExecLocal ==
  ASSUME TypeOK, NEW j \in Jobs, ExecNext(j), NEW s \in Sessions, s # Exe(j)
  PROVE  pc'[s] = pc[s] /\ ent'[s] = ent[s]
<1>1. pc \in [Sessions -> Pcs] /\ ent \in [Sessions -> Row] /\ Exe(j) \in Sessions
  BY SessionsType DEF TypeOK
<1>. QED
  BY <1>1 DEF ExecNext, ExecStep, Dispatch, ExecLookup, ExecLock, ExecBegin, ExecBeginRaises,
     ExecBeginSave, ExecResolve, ExecDump, ExecCollected, ExecProgressSave, ExecFinalize,
     ExecFinalSave, ExecAudit, ExecNotify, ExecRelease, ExecRaise, ExecAlert, ExecTimeout,
     HorseKill, Sigterm, Goto, SaveLoad, Forget, ForgetHorse, memory

-----------------------------------------------------------------------------
\* Every step keeps the types, given that finished executions decided an outcome.
LEMMA TypeStep ==
  ASSUME TypeOK, OutcomeDecided, [Next]_vars
  PROVE  TypeOK'
<1>1. CASE UNCHANGED vars
  BY <1>1 DEF TypeOK, vars
<1>. QED
  BY <1>1, RequestType, CancelType, ExecType, EnvironmentType DEF Next

\* An execution past its loop keeps the terminal status it decided on.
LEMMA OutcomeStep ==
  ASSUME TypeOK, OutcomeDecided, [Next]_vars
  PROVE  OutcomeDecided'
<1> DEFINE Late == {"finalSave", "audit", "notify"}
<1>1. SUFFICES ASSUME NEW j \in Jobs, pc'[Exe(j)] \in Late
               PROVE  ent'[Exe(j)].status \in Terminal
  BY DEF OutcomeDecided
<1>2. ASSUME pc'[Exe(j)] = pc[Exe(j)], ent'[Exe(j)] = ent[Exe(j)]
      PROVE  ent'[Exe(j)].status \in Terminal
  BY <1>1, <1>2 DEF OutcomeDecided
<1>3. ASSUME NEW k \in Jobs, RequestNext(k) PROVE ent'[Exe(j)].status \in Terminal
  BY <1>2, <1>3, RequestLocal, SessionsType, SessionsDistinct
<1>4. ASSUME NEW u \in Cancellers, NEW k \in Jobs, CancelNext(u, k)
      PROVE  ent'[Exe(j)].status \in Terminal
  BY <1>2, <1>4, CancelLocal, SessionsType, SessionsDistinct
<1>5. ASSUME NEW k \in Jobs, ExecNext(k) PROVE ent'[Exe(j)].status \in Terminal
  <2>1. CASE k # j
    BY <1>2, <1>5, <2>1, ExecLocal, SessionsType, SessionsDistinct
  <2>2. CASE k = j
    <3>. pc \in [Sessions -> Pcs] /\ ent \in [Sessions -> Row] /\ Exe(j) \in Sessions
      BY SessionsType DEF TypeOK
    <3>1. CASE ExecFinalize(j)
      <4> DEFINE cancelled == Remaining(j) > 0
                 st == FinalStatus(cancelled, targets[j], ent[Exe(j)].failed)
      <4>1. ent'[Exe(j)].status = st
        BY <3>1 DEF ExecFinalize, SaveLoad, Row
      <4>2. cancelled \in BOOLEAN
        OBVIOUS
      <4>. HIDE DEF cancelled
      <4>. QED BY <4>1, <4>2, FinalStatusType
    <3>2. CASE ExecFinalSave(j) \/ ExecAudit(j)
      BY <3>2 DEF ExecFinalSave, ExecAudit, Goto, memory, OutcomeDecided
    <3>3. CASE Sigterm(j)
      BY <1>2, <3>3 DEF Sigterm, memory
    <3>4. CASE ~(ExecFinalize(j) \/ ExecFinalSave(j) \/ ExecAudit(j) \/ Sigterm(j))
      BY <1>1, <1>5, <2>2, <3>4 DEF ExecNext, ExecStep, Dispatch, ExecLookup, ExecLock, ExecBegin,
         ExecBeginRaises, ExecBeginSave, ExecResolve, ExecDump, ExecCollected, ExecProgressSave,
         ExecNotify, ExecRelease, ExecRaise, ExecAlert, ExecTimeout, HorseKill, Goto
    <3>. QED BY <3>1, <3>2, <3>3, <3>4
  <2>. QED BY <2>1, <2>2
<1>6. CASE BotCrash
  <2>1. Exe(j) \notin Requests \cup Cancels /\ Exe(j) \in Sessions
    BY SessionsType, SessionsDistinct DEF Requests, Cancels
  <2>2. pc'[Exe(j)] = pc[Exe(j)] /\ ent'[Exe(j)] = ent[Exe(j)]
    BY <1>6, <2>1 DEF BotCrash
  <2>. QED BY <1>2, <2>2
<1>7. CASE ExpireGlobal \/ (\E c \in Clusters : ExpireCluster(c)) \/ UNCHANGED vars
  BY <1>2, <1>7 DEF ExpireGlobal, ExpireCluster, memory, vars
<1>. QED
  BY <1>3, <1>4, <1>5, <1>6, <1>7 DEF Next

\* Initially no execution is past its loop.
LEMMA InitOutcome == Init => OutcomeDecided
  BY SessionsType DEF Init, OutcomeDecided

\* Every variable keeps its type.  TypeOK alone is not inductive: what an
\* execution logs and shows at its end is a final status only because the
\* outcome is decided before (OutcomeDecided).
THEOREM TypeCorrect == Spec => []TypeOK
<1>1. Init => TypeOK /\ OutcomeDecided
  BY InitType, InitOutcome
<1>2. TypeOK /\ OutcomeDecided /\ [Next]_vars => (TypeOK /\ OutcomeDecided)'
  BY TypeStep, OutcomeStep
<1>. QED
  BY <1>1, <1>2, PTL DEF Spec

-----------------------------------------------------------------------------
\* A session is never the absence of a token.
LEMMA TokensDistinct ==
  /\ \A j \in Jobs : Req(j) # NoToken /\ Exe(j) # NoToken
  /\ NoToken \notin Sessions
  BY SessionsType, TokenAssumption

\* What one session's step does to a lock that another session holds: nothing.
LEMMA GlobalUntouched ==
  ASSUME NEW j \in Jobs, NEW k \in Jobs, j # k, RequestNext(k), globalLock = Req(j)
  PROVE  globalLock' = Req(j)
  BY SessionsDistinct, TokensDistinct
  DEF RequestNext, RequestStep, RequestDeny, RequestLock, RequestRefuse, RequestCreate,
     RequestFetch, RequestEnqueue, RequestMarkQueued, RequestMarkQueuedRaises, RequestSave,
     RequestFinish, RequestReply, RequestRaise, SetNX, ReleaseGlobal, ReleaseScript, locks

\* No execution takes or frees a cluster lock that another execution holds.
LEMMA ClusterUntouched ==
  ASSUME TypeOK, NEW j \in Jobs, NEW k \in Jobs, j # k, ExecNext(k),
         clusterLock[ClusterOf[j]] = Exe(j)
  PROVE  clusterLock'[ClusterOf[j]] = Exe(j)
<1>1. ClusterOf[j] \in Clusters /\ ClusterOf[k] \in Clusters /\ Exe(j) # Exe(k) /\ Exe(j) # NoToken
  BY SessionsDistinct, TokensDistinct, PlatformAssumption
<1>2. clusterLock \in [Clusters -> Executions \cup {NoToken}]
  BY DEF TypeOK
<1>3. CASE ExecLock(k)
  BY <1>1, <1>2, <1>3 DEF ExecLock, SetNX
<1>4. CASE ReleaseCluster(k)
  BY <1>1, <1>2, <1>4 DEF ReleaseCluster, ReleaseScript
<1>5. CASE UNCHANGED clusterLock
  BY <1>5
<1>. QED
  BY <1>3, <1>4, <1>5 DEF ExecNext, ExecStep, Dispatch, ExecLookup, ExecBegin, ExecBeginRaises,
     ExecBeginSave, ExecResolve, ExecDump, ExecCollected, ExecProgressSave, ExecFinalize,
     ExecFinalSave, ExecAudit, ExecNotify, ExecRelease, ExecRaise, ExecAlert, ExecTimeout,
     HorseKill, Sigterm, locks

\* A request in its guarded section goes on holding backup:global.
LEMMA GlobalStep ==
  ASSUME TtlOutlivesHolder, TypeOK, LocksHeld, [Next]_vars, NEW j \in Jobs, InRequest(j)'
  PROVE  globalLock' = Req(j)
<1>. pc \in [Sessions -> Pcs] /\ Req(j) \in Sessions
  BY SessionsType DEF TypeOK
<1>1. ASSUME pc'[Req(j)] = pc[Req(j)] PROVE InRequest(j) /\ globalLock = Req(j)
  BY <1>1 DEF LocksHeld, InRequest
<1>2. ASSUME NEW k \in Jobs, RequestNext(k) PROVE globalLock' = Req(j)
  <2>1. CASE k # j
    BY <1>1, <1>2, <2>1, RequestLocal, GlobalUntouched, SessionsDistinct
  <2>2. CASE k = j
    <3>1. CASE RequestLock(j)
      BY <3>1 DEF RequestLock, Goto, InRequest, ReqLive
    <3>2. CASE RequestCreate(j) \/ RequestFetch(j) \/ RequestEnqueue(j) \/ RequestMarkQueued(j) \/ RequestSave(j)
      BY <3>2 DEF RequestCreate, RequestFetch, RequestEnqueue, RequestMarkQueued, RequestSave,
         Goto, InRequest, ReqLive, LocksHeld, locks
    <3>3. CASE RequestDeny(j) \/ RequestRefuse(j) \/ RequestMarkQueuedRaises(j) \/ RequestFinish(j)
               \/ RequestReply(j) \/ RequestRaise(j)
      BY <3>3 DEF RequestDeny, RequestRefuse, RequestMarkQueuedRaises, RequestFinish, RequestReply,
         RequestRaise, Goto, InRequest, ReqLive
    <3>. QED BY <1>2, <2>2, <3>1, <3>2, <3>3 DEF RequestNext, RequestStep
  <2>. QED BY <2>1, <2>2
<1>3. ASSUME NEW u \in Cancellers, NEW k \in Jobs, CancelNext(u, k) PROVE globalLock' = Req(j)
  <2>1. UNCHANGED globalLock
    BY <1>3 DEF CancelNext, CancelStep, CancelRead, CancelRq, CancelSelect, CancelUpdate,
       CancelFinish, CancelRaise, locks
  <2>. QED BY <1>1, <1>3, <2>1, CancelLocal, SessionsDistinct
<1>4. ASSUME NEW k \in Jobs, ExecNext(k) PROVE globalLock' = Req(j)
  <2>1. UNCHANGED globalLock
    BY <1>4 DEF ExecNext, ExecStep, Dispatch, ExecLookup, ExecLock, ExecBegin, ExecBeginRaises,
     ExecBeginSave, ExecResolve, ExecDump, ExecCollected, ExecProgressSave, ExecFinalize,
     ExecFinalSave, ExecAudit, ExecNotify, ExecRelease, ExecRaise, ExecAlert, ExecTimeout,
     HorseKill, Sigterm, locks
  <2>. QED BY <1>1, <1>4, <2>1, ExecLocal, SessionsDistinct
<1>5. CASE BotCrash
  <2>1. pc'[Req(j)] = pc[Req(j)]
    BY <1>5 DEF BotCrash, InRequest, ReqLive, Requests, Cancels
  <2>. QED BY <1>1, <1>5, <2>1 DEF BotCrash, locks
<1>6. CASE ExpireGlobal
  <2>1. InRequest(j) /\ globalLock = Req(j)
    BY <1>1, <1>6 DEF ExpireGlobal
  <2>. QED BY <1>6, <2>1 DEF ExpireGlobal, MayExpire, InRequest, ReqLive
<1>7. CASE (\E c \in Clusters : ExpireCluster(c)) \/ UNCHANGED vars
  BY <1>1, <1>7 DEF ExpireCluster, vars
<1>. QED
  BY <1>2, <1>3, <1>4, <1>5, <1>6, <1>7 DEF Next

\* An execution in its guarded section goes on holding its cluster lock.
LEMMA ClusterStep ==
  ASSUME TtlOutlivesHolder, TypeOK, LocksHeld, [Next]_vars, NEW j \in Jobs, InBackup(j)'
  PROVE  clusterLock'[ClusterOf[j]] = Exe(j)
<1>. /\ pc \in [Sessions -> Pcs] /\ Exe(j) \in Sessions /\ ClusterOf[j] \in Clusters
     /\ clusterLock \in [Clusters -> Executions \cup {NoToken}]
  BY SessionsType, PlatformAssumption DEF TypeOK
<1>1. ASSUME pc'[Exe(j)] = pc[Exe(j)] PROVE InBackup(j) /\ clusterLock[ClusterOf[j]] = Exe(j)
  BY <1>1 DEF LocksHeld, InBackup
<1>2. ASSUME NEW k \in Jobs, RequestNext(k) PROVE clusterLock'[ClusterOf[j]] = Exe(j)
  <2>1. UNCHANGED clusterLock
    BY <1>2 DEF RequestNext, RequestStep, RequestDeny, RequestLock, RequestRefuse, RequestCreate,
     RequestFetch, RequestEnqueue, RequestMarkQueued, RequestMarkQueuedRaises, RequestSave,
     RequestFinish, RequestReply, RequestRaise, locks
  <2>. QED BY <1>1, <1>2, <2>1, RequestLocal, SessionsDistinct
<1>3. ASSUME NEW u \in Cancellers, NEW k \in Jobs, CancelNext(u, k)
      PROVE  clusterLock'[ClusterOf[j]] = Exe(j)
  <2>1. UNCHANGED clusterLock
    BY <1>3 DEF CancelNext, CancelStep, CancelRead, CancelRq, CancelSelect, CancelUpdate,
       CancelFinish, CancelRaise, locks
  <2>. QED BY <1>1, <1>3, <2>1, CancelLocal, SessionsDistinct
<1>4. ASSUME NEW k \in Jobs, ExecNext(k) PROVE clusterLock'[ClusterOf[j]] = Exe(j)
  <2>1. CASE k # j
    BY <1>1, <1>4, <2>1, ExecLocal, ClusterUntouched, SessionsDistinct
  <2>2. CASE k = j
    <3>1. CASE ExecLock(j)
      BY <3>1 DEF ExecLock, Goto, InBackup, ExeLive
    <3>2. CASE \/ ExecBegin(j) \/ ExecBeginSave(j) \/ ExecResolve(j) \/ ExecDump(j) \/ ExecCollected(j)
               \/ ExecProgressSave(j) \/ ExecFinalize(j) \/ ExecFinalSave(j) \/ ExecAudit(j)
               \/ ExecNotify(j) \/ Sigterm(j)
      BY <3>2 DEF ExecBegin, ExecBeginSave, ExecResolve, ExecDump, ExecCollected, ExecProgressSave,
         ExecFinalize, ExecFinalSave, ExecAudit, ExecNotify, Sigterm,
         Goto, InBackup, ExeLive, LocksHeld, locks
    <3>3. CASE \/ Dispatch(j) \/ ExecLookup(j) \/ ExecBeginRaises(j) \/ ExecRelease(j) \/ ExecRaise(j)
               \/ ExecAlert(j) \/ ExecTimeout(j) \/ HorseKill(j)
      BY <3>3 DEF Dispatch, ExecLookup, ExecBeginRaises, ExecRelease, ExecRaise, ExecAlert,
         ExecTimeout, HorseKill, Goto, InBackup, ExeLive
    <3>. QED BY <1>4, <2>2, <3>1, <3>2, <3>3 DEF ExecNext, ExecStep
  <2>. QED BY <2>1, <2>2
<1>5. CASE BotCrash
  <2>1. Exe(j) \notin Requests \cup Cancels
    BY SessionsDistinct DEF Requests, Cancels
  <2>2. pc'[Exe(j)] = pc[Exe(j)]
    BY <1>5, <2>1 DEF BotCrash
  <2>. QED BY <1>1, <1>5, <2>2 DEF BotCrash, locks
<1>6. ASSUME NEW c \in Clusters, ExpireCluster(c) PROVE clusterLock'[ClusterOf[j]] = Exe(j)
  <2>1. InBackup(j) /\ clusterLock[ClusterOf[j]] = Exe(j)
    BY <1>1, <1>6 DEF ExpireCluster
  <2>. QED BY <1>6, <2>1 DEF ExpireCluster, MayExpire, InBackup, ExeLive
<1>7. CASE ExpireGlobal \/ UNCHANGED vars
  BY <1>1, <1>7 DEF ExpireGlobal, vars
<1>. QED
  BY <1>2, <1>3, <1>4, <1>5, <1>6, <1>7 DEF Next

\* Every step keeps LocksHeld while locks outlive their holders.
LEMMA LocksStep ==
  ASSUME TtlOutlivesHolder, TypeOK, LocksHeld, [Next]_vars
  PROVE  LocksHeld'
<1>1. \A j \in Jobs : InRequest(j)' => globalLock' = Req(j)
  BY GlobalStep
<1>2. \A j \in Jobs : InBackup(j)' => clusterLock'[ClusterOf[j]] = Exe(j)
  BY ClusterStep
<1>. QED BY <1>1, <1>2 DEF LocksHeld

\* Initially no session is in a guarded section.
LEMMA InitLocks == Init => LocksHeld
  BY SessionsType DEF Init, LocksHeld, InRequest, InBackup, ReqLive, ExeLive

\* While no lock outlives its TTL under a living holder, whoever is in a
\* guarded section holds its lock.
LEMMA LocksAlwaysHeld ==
  ASSUME TtlOutlivesHolder
  PROVE  Spec => []LocksHeld
<1>1. Init => TypeOK /\ OutcomeDecided /\ LocksHeld
  BY InitType, InitOutcome, InitLocks
<1>2. TypeOK /\ OutcomeDecided /\ LocksHeld /\ [Next]_vars
        => (TypeOK /\ OutcomeDecided /\ LocksHeld)'
  BY TypeStep, OutcomeStep, LocksStep
<1>. QED
  BY <1>1, <1>2, PTL DEF Spec

\* The global lock serialises the critical section of the requests, whatever
\* raises, crashes or is killed.
THEOREM RequestsAreExclusive ==
  ASSUME TtlOutlivesHolder
  PROVE  Spec => []RequestsExclusive
<1>1. LocksHeld => RequestsExclusive
  BY SessionsDistinct DEF LocksHeld, RequestsExclusive
<1>. QED
  BY <1>1, LocksAlwaysHeld, PTL

\* Two executions never back up the same cluster at the same time, however many
\* workers run and whatever raises, times out or is killed.
THEOREM BackupsAreExclusive ==
  ASSUME TtlOutlivesHolder
  PROVE  Spec => []BackupsExclusive
<1>1. LocksHeld => BackupsExclusive
  BY SessionsDistinct DEF LocksHeld, BackupsExclusive
<1>. QED
  BY <1>1, LocksAlwaysHeld, PTL

-----------------------------------------------------------------------------
\* A save never turns an inserted row back into a missing one.
LEMMA SaveKeepsRow ==
  ASSUME TypeOK, NEW s \in Sessions, NEW j \in Jobs, NEW k \in Jobs, SaveWrite(s, k),
         ent[s].status # "NONE", row[j].status # "NONE"
  PROVE  row'[j].status # "NONE"
<1>1. row' = [row EXCEPT ![k] = Merged(row[k], orm[s], ent[s])]
  BY DEF SaveWrite
<1>2. Merged(row[k], orm[s], ent[s]).status \in {row[k].status, ent[s].status}
  BY DEF Merged, Column
<1>. QED BY <1>1, <1>2 DEF TypeOK

\* An inserted row stays inserted, whoever writes it.
LEMMA RowKept ==
  ASSUME TypeOK, RowsExist, [Next]_vars, NEW j \in Jobs, row[j].status # "NONE"
  PROVE  row'[j].status # "NONE"
<1>. row \in [Jobs -> Row]
  BY DEF TypeOK
<1>1. CASE UNCHANGED row
  BY <1>1
<1>2. ASSUME NEW k \in Jobs, RequestNext(k) PROVE row'[j].status # "NONE"
  <2>1. CASE RequestCreate(k)
    BY <2>1 DEF RequestCreate, NewRow, NoRow
  <2>2. CASE RequestSave(k)
    BY <2>2, SaveKeepsRow, SessionsType DEF RequestSave, Goto, RowsExist
  <2>. QED
    BY <1>1, <1>2, <2>1, <2>2 DEF RequestNext, RequestStep, RequestDeny, RequestLock, RequestRefuse,
       RequestFetch, RequestEnqueue, RequestMarkQueued, RequestMarkQueuedRaises, RequestFinish,
       RequestReply, RequestRaise, store
<1>3. ASSUME NEW u \in Cancellers, NEW k \in Jobs, CancelNext(u, k) PROVE row'[j].status # "NONE"
  <2>1. CASE CancelUpdate(u, k)
    BY <2>1, SaveKeepsRow, SessionsType DEF CancelUpdate, Goto, RowsExist, CanLive
  <2>. QED
    BY <1>1, <1>3, <2>1 DEF CancelNext, CancelStep, CancelRead, CancelRq, CancelSelect,
       CancelFinish, CancelRaise, store
<1>4. ASSUME NEW k \in Jobs, ExecNext(k) PROVE row'[j].status # "NONE"
  <2>1. CASE ExecBeginSave(k) \/ ExecProgressSave(k) \/ ExecFinalSave(k)
    BY <2>1, SaveKeepsRow, SessionsType
    DEF ExecBeginSave, ExecProgressSave, ExecFinalSave, Goto, RowsExist, ExeLive
  <2>. QED
    BY <1>1, <1>4, <2>1 DEF ExecNext, ExecStep, Dispatch, ExecLookup, ExecLock, ExecBegin,
       ExecBeginRaises, ExecResolve, ExecDump, ExecCollected, ExecFinalize, ExecAudit, ExecNotify,
       ExecRelease, ExecRaise, ExecAlert, ExecTimeout, HorseKill, Sigterm, store
<1>5. CASE BotCrash \/ ExpireGlobal \/ (\E c \in Clusters : ExpireCluster(c)) \/ UNCHANGED vars
  BY <1>1, <1>5 DEF BotCrash, ExpireGlobal, ExpireCluster, vars, store
<1>. QED
  BY <1>2, <1>3, <1>4, <1>5 DEF Next

\* An RQ entry, once enqueued, keeps some status.
LEMMA EntryKept ==
  ASSUME TypeOK, [Next]_vars, NEW j \in Jobs, rq[j] # "absent"
  PROVE  rq'[j] # "absent"
<1>. rq \in [Jobs -> RqStatus]
  BY DEF TypeOK
<1>1. CASE UNCHANGED rq
  BY <1>1
<1>2. ASSUME NEW k \in Jobs, RequestNext(k) PROVE rq'[j] # "absent"
  BY <1>1, <1>2 DEF RequestNext, RequestStep, RequestDeny, RequestLock, RequestRefuse,
     RequestCreate, RequestFetch, RequestEnqueue, RequestMarkQueued, RequestMarkQueuedRaises,
     RequestSave, RequestFinish, RequestReply, RequestRaise
<1>3. ASSUME NEW u \in Cancellers, NEW k \in Jobs, CancelNext(u, k) PROVE rq'[j] # "absent"
  BY <1>1, <1>3 DEF CancelNext, CancelStep, CancelRead, CancelRq, CancelSelect, CancelUpdate,
     CancelFinish, CancelRaise
<1>4. ASSUME NEW k \in Jobs, ExecNext(k) PROVE rq'[j] # "absent"
  BY <1>1, <1>4 DEF ExecNext, ExecStep, Dispatch, ExecLookup, ExecLock, ExecBegin, ExecBeginRaises,
     ExecBeginSave, ExecResolve, ExecDump, ExecCollected, ExecProgressSave, ExecFinalize,
     ExecFinalSave, ExecAudit, ExecNotify, ExecRelease, ExecRaise, ExecAlert, ExecTimeout,
     HorseKill, Sigterm
<1>5. CASE BotCrash \/ ExpireGlobal \/ (\E c \in Clusters : ExpireCluster(c)) \/ UNCHANGED vars
  BY <1>1, <1>5 DEF BotCrash, ExpireGlobal, ExpireCluster, vars
<1>. QED
  BY <1>2, <1>3, <1>4, <1>5 DEF Next

\* Where an entry can come from: a request that is past its read, or a
\* cancellation; the worker only touches entries that are there.
LEMMA EntryOrigin ==
  ASSUME TypeOK, RowsExist, [Next]_vars, NEW j \in Jobs, rq[j] = "absent", rq'[j] # "absent"
  PROVE  row[j].status # "NONE"
         /\ (pc[Req(j)] = "fetched" \/ \E u \in Cancellers : pc[Can(u, j)] = "rq")
<1>. rq \in [Jobs -> RqStatus]
  BY DEF TypeOK
<1>2. ASSUME NEW k \in Jobs, RequestNext(k)
      PROVE  pc[Req(j)] = "fetched" /\ row[j].status # "NONE"
  <2>1. RequestEnqueue(k)
    BY <1>2 DEF RequestNext, RequestStep, RequestDeny, RequestLock, RequestRefuse,
     RequestCreate, RequestFetch, RequestMarkQueued, RequestMarkQueuedRaises,
     RequestSave, RequestFinish, RequestReply, RequestRaise
  <2>. QED BY <2>1 DEF RequestEnqueue, Goto, RowsExist, ReqLive
<1>3. ASSUME NEW v \in Cancellers, NEW k \in Jobs, CancelNext(v, k)
      PROVE  row[j].status # "NONE" /\ \E u \in Cancellers : pc[Can(u, j)] = "rq"
  <2>1. CancelRq(v, k) /\ k = j
    BY <1>3 DEF CancelNext, CancelStep, CancelRead, CancelRq, CancelSelect, CancelUpdate,
       CancelFinish, CancelRaise
  <2>2. pc[Can(v, j)] = "rq"
    BY <2>1 DEF CancelRq, Goto
  <2>. QED BY <2>2 DEF RowsExist, CanLive
<1>4. ASSUME NEW k \in Jobs, ExecNext(k) PROVE FALSE
  <2>1. k = j /\ (Dispatch(k) \/ ExecRelease(k) \/ ExecAlert(k) \/ ExecTimeout(k) \/ HorseKill(k))
    BY <1>4 DEF ExecNext, ExecStep, Dispatch, ExecLookup, ExecLock, ExecBegin, ExecBeginRaises,
       ExecBeginSave, ExecResolve, ExecDump, ExecCollected, ExecProgressSave, ExecFinalize,
       ExecFinalSave, ExecAudit, ExecNotify, ExecRelease, ExecRaise, ExecAlert, ExecTimeout,
       HorseKill, Sigterm
  <2>. QED
    BY <2>1 DEF Dispatch, ExecRelease, ExecAlert, ExecTimeout, HorseKill, Goto, RowsExist, ExeLive
<1>5. UNCHANGED vars \/ BotCrash \/ ExpireGlobal \/ (\E c \in Clusters : ExpireCluster(c)) => FALSE
  BY DEF BotCrash, ExpireGlobal, ExpireCluster, vars
<1>. QED
  BY <1>2, <1>3, <1>4, <1>5 DEF Next

\* Every step keeps RowsExist.
LEMMA RowsStep ==
  ASSUME TypeOK, RowsExist, [Next]_vars
  PROVE  RowsExist'
<1>. /\ pc \in [Sessions -> Pcs] /\ ent \in [Sessions -> Row] /\ row \in [Jobs -> Row]
     /\ rq \in [Jobs -> RqStatus]
  BY DEF TypeOK
<1>. SUFFICES ASSUME NEW j \in Jobs
              PROVE
     /\ pc'[Req(j)] \in ReqLive \ {"locked"} => row'[j].status # "NONE"
     /\ pc'[Req(j)] \in {"fetched", "enqueued", "saving"} => ent'[Req(j)].status # "NONE"
     /\ rq'[j] # "absent" => row'[j].status # "NONE"
     /\ pc'[Exe(j)] \in ExeLive => rq'[j] # "absent"
     /\ pc'[Exe(j)] \in ExeLive \ {"lookup", "alert"} => ent'[Exe(j)].status # "NONE"
     /\ \A u \in Cancellers : pc'[Can(u, j)] \in CanLive =>
           row'[j].status # "NONE" /\ ent'[Can(u, j)].status # "NONE"
  BY DEF RowsExist
<1>1. rq'[j] # "absent" => row'[j].status # "NONE"
  BY RowKept, EntryOrigin DEF RowsExist
<1>2. /\ pc'[Req(j)] \in ReqLive \ {"locked"} => row'[j].status # "NONE"
      /\ pc'[Req(j)] \in {"fetched", "enqueued", "saving"} => ent'[Req(j)].status # "NONE"
  <2>1. CASE pc'[Req(j)] = pc[Req(j)] /\ ent'[Req(j)] = ent[Req(j)]
    BY <2>1, RowKept DEF RowsExist
  <2>2. CASE RequestNext(j)
    <3>1. CASE RequestCreate(j)
      BY <3>1, SessionsType DEF RequestCreate, Goto, NewRow, NoRow
    <3>2. CASE RequestFetch(j) \/ RequestEnqueue(j) \/ RequestMarkQueued(j) \/ RequestSave(j)
               \/ RequestFinish(j)
      <4>1. row[j].status # "NONE" /\ row'[j].status # "NONE"
        BY <3>2, RowKept DEF RowsExist, ReqLive, RequestFetch, RequestEnqueue, RequestMarkQueued,
           RequestSave, RequestFinish, Goto
      <4>2. CASE RequestFetch(j)
        BY <4>1, <4>2, SessionsType DEF RequestFetch, Goto
      <4>3. CASE RequestEnqueue(j)
        BY <4>1, <4>3, SessionsType DEF RequestEnqueue, Goto, RowsExist, memory
      <4>4. CASE RequestMarkQueued(j)
        BY <4>1, <4>4, SessionsType DEF RequestMarkQueued, Goto, SaveLoad, Row
      <4>5. CASE RequestSave(j) \/ RequestFinish(j)
        BY <4>1, <4>5, SessionsType DEF RequestSave, RequestFinish, Goto
      <4>. QED BY <3>2, <4>2, <4>3, <4>4, <4>5
    <3>3. CASE RequestDeny(j) \/ RequestLock(j) \/ RequestRefuse(j) \/ RequestMarkQueuedRaises(j)
               \/ RequestReply(j) \/ RequestRaise(j)
      BY <3>3, SessionsType DEF RequestDeny, RequestLock, RequestRefuse, RequestMarkQueuedRaises,
         RequestReply, RequestRaise, Goto, ReqLive
    <3>. QED BY <2>2, <3>1, <3>2, <3>3 DEF RequestNext, RequestStep
  <2>3. CASE BotCrash
    <3>1. pc'[Req(j)] \in ReqLive => pc'[Req(j)] = pc[Req(j)] /\ ent'[Req(j)] = ent[Req(j)]
      BY <2>3, SessionsType DEF BotCrash, Requests, ReqLive
    <3>. QED BY <2>1, <3>1 DEF ReqLive
  <2>. QED
    BY <2>1, <2>2, <2>3, RequestLocal, CancelLocal, ExecLocal, SessionsType, SessionsDistinct
    DEF Next, ExpireGlobal, ExpireCluster, memory, vars
<1>3. /\ pc'[Exe(j)] \in ExeLive => rq'[j] # "absent"
      /\ pc'[Exe(j)] \in ExeLive \ {"lookup", "alert"} => ent'[Exe(j)].status # "NONE"
  <2>1. CASE pc'[Exe(j)] = pc[Exe(j)] /\ ent'[Exe(j)] = ent[Exe(j)]
    BY <2>1, EntryKept DEF RowsExist
  <2>2. CASE ExecNext(j)
    <3>1. CASE Dispatch(j)
      BY <3>1, SessionsType DEF Dispatch, Goto
    <3>2. CASE \/ ExecLookup(j) \/ ExecLock(j) \/ ExecBegin(j) \/ ExecBeginRaises(j) \/ ExecBeginSave(j)
               \/ ExecResolve(j) \/ ExecDump(j) \/ ExecCollected(j) \/ ExecProgressSave(j)
               \/ ExecFinalize(j) \/ ExecFinalSave(j) \/ ExecAudit(j) \/ ExecNotify(j) \/ ExecRaise(j)
      <4>1. rq'[j] # "absent"
        BY <3>2, EntryKept DEF ExecLookup, ExecLock, ExecBegin, ExecBeginRaises, ExecBeginSave,
           ExecResolve, ExecDump, ExecCollected, ExecProgressSave, ExecFinalize, ExecFinalSave,
           ExecAudit, ExecNotify, ExecRaise, Goto, RowsExist, ExeLive
      <4>2. CASE ExecLookup(j)
        BY <4>1, <4>2, SessionsType DEF ExecLookup, Goto
      <4>3. CASE ExecBegin(j)
        BY <4>1, <4>3, SessionsType DEF ExecBegin, Goto, SaveLoad, Row
      <4>4. CASE ExecCollected(j)
        <5>1. ent'[Exe(j)].status = ent[Exe(j)].status
          BY <4>4, SessionsType DEF ExecCollected, SaveLoad, Row
        <5>. QED BY <4>1, <4>4, <5>1 DEF ExecCollected, Goto, RowsExist, ExeLive
      <4>5. CASE ExecFinalize(j)
        <5>1. ent'[Exe(j)].status \in Terminal
          <6> DEFINE cancelled == Remaining(j) > 0
                     st == FinalStatus(cancelled, targets[j], ent[Exe(j)].failed)
          <6>1. ent'[Exe(j)].status = st
            BY <4>5, SessionsType DEF ExecFinalize, SaveLoad, Row
          <6>2. cancelled \in BOOLEAN
            OBVIOUS
          <6>. HIDE DEF cancelled
          <6>. QED BY <6>1, <6>2, FinalStatusType
        <5>. QED BY <4>1, <5>1 DEF Terminal
      <4>6. CASE ExecBeginRaises(j) \/ ExecRaise(j)
        BY <4>1, <4>6, SessionsType DEF ExecBeginRaises, ExecRaise, Goto
      <4>7. CASE \/ ExecLock(j) \/ ExecBeginSave(j) \/ ExecResolve(j) \/ ExecDump(j)
                 \/ ExecProgressSave(j) \/ ExecFinalSave(j) \/ ExecAudit(j) \/ ExecNotify(j)
        BY <4>1, <4>7 DEF ExecLock, ExecBeginSave, ExecResolve, ExecDump, ExecProgressSave,
           ExecFinalSave, ExecAudit, ExecNotify, Goto, RowsExist, ExeLive, memory
      <4>. QED BY <3>2, <4>2, <4>3, <4>4, <4>5, <4>6, <4>7
    <3>3. CASE ExecRelease(j) \/ ExecAlert(j) \/ ExecTimeout(j) \/ HorseKill(j)
      BY <3>3, SessionsType DEF ExecRelease, ExecAlert, ExecTimeout, HorseKill, Goto, ExeLive
    <3>4. CASE Sigterm(j)
      BY <2>1, <3>4 DEF Sigterm, memory
    <3>. QED BY <2>2, <3>1, <3>2, <3>3, <3>4 DEF ExecNext, ExecStep
  <2>3. CASE BotCrash
    <3>1. Exe(j) \notin Requests \cup Cancels /\ Exe(j) \in Sessions
      BY SessionsType, SessionsDistinct DEF Requests, Cancels
    <3>. QED BY <2>1, <2>3, <3>1 DEF BotCrash
  <2>. QED
    BY <2>1, <2>2, <2>3, RequestLocal, CancelLocal, ExecLocal, SessionsType, SessionsDistinct
    DEF Next, ExpireGlobal, ExpireCluster, memory, vars
<1>4. ASSUME NEW u \in Cancellers, pc'[Can(u, j)] \in CanLive
      PROVE  row'[j].status # "NONE" /\ ent'[Can(u, j)].status # "NONE"
  <2>1. CASE pc'[Can(u, j)] = pc[Can(u, j)] /\ ent'[Can(u, j)] = ent[Can(u, j)]
    BY <1>4, <2>1, RowKept DEF RowsExist
  <2>2. CASE CancelNext(u, j)
    <3>1. CASE CancelRead(u, j)
      BY <3>1, RowKept, SessionsType DEF CancelRead
    <3>2. CASE CancelRq(u, j) \/ CancelUpdate(u, j)
      <4>1. row'[j].status # "NONE" /\ ent[Can(u, j)].status # "NONE"
        BY <3>2, RowKept DEF CancelRq, CancelUpdate, Goto, RowsExist, CanLive
      <4>2. ent'[Can(u, j)] = ent[Can(u, j)]
        BY <1>4, <3>2, SessionsType DEF CancelRq, CancelUpdate, Goto, memory, CanLive
      <4>. QED BY <4>1, <4>2
    <3>3. CASE CancelSelect(u, j)
      BY <3>3, RowKept, SessionsType DEF CancelSelect, Goto, SaveLoad, Row, RowsExist, CanLive
    <3>4. CASE CancelFinish(u, j) \/ CancelRaise(u, j)
      BY <1>4, <3>4, SessionsType DEF CancelFinish, CancelRaise, Goto, CanLive
    <3>. QED BY <2>2, <3>1, <3>2, <3>3, <3>4 DEF CancelNext, CancelStep
  <2>3. CASE BotCrash
    <3>1. /\ Can(u, j) \in Cancels /\ Can(u, j) \in Sessions /\ Can(u, j) \notin Requests
      BY SessionsType, SessionsDistinct DEF Requests
    <3>. QED BY <1>4, <2>1, <2>3, <3>1 DEF BotCrash, CanLive
  <2>. QED
    BY <2>1, <2>2, <2>3, RequestLocal, CancelLocal, ExecLocal, SessionsType, SessionsDistinct
    DEF Next, ExpireGlobal, ExpireCluster, memory, vars
<1>. QED BY <1>1, <1>2, <1>3, <1>4

-----------------------------------------------------------------------------
\* A save sets queue_job_id only if the entity it writes has one.
LEMMA SavedQueueId ==
  ASSUME TypeOK, NEW s \in Sessions, NEW j \in Jobs, NEW k \in Jobs, SaveWrite(s, k),
         row'[j].queueId
  PROVE  row[j].queueId \/ (j = k /\ ent[s].queueId)
<1>1. row' = [row EXCEPT ![k] = Merged(row[k], orm[s], ent[s])]
  BY DEF SaveWrite
<1>2. Merged(row[k], orm[s], ent[s]).queueId = row[k].queueId
      \/ Merged(row[k], orm[s], ent[s]).queueId = ent[s].queueId
  BY DEF Merged, Column
<1>. QED BY <1>1, <1>2 DEF TypeOK

\* A queue_job_id reaches a row only from an entity of a session of that job.
LEMMA QueueIdOrigin ==
  ASSUME TypeOK, [Next]_vars, NEW j \in Jobs, row'[j].queueId
  PROVE  \/ row[j].queueId
         \/ ent[Req(j)].queueId \/ ent[Exe(j)].queueId
         \/ \E u \in Cancellers : ent[Can(u, j)].queueId
<1>. row \in [Jobs -> Row]
  BY DEF TypeOK
<1>1. CASE UNCHANGED row
  BY <1>1
<1>2. ASSUME NEW k \in Jobs, RequestNext(k)
      PROVE  row[j].queueId \/ ent[Req(j)].queueId
  <2>1. CASE RequestCreate(k)
    BY <2>1 DEF RequestCreate, NewRow, NoRow
  <2>2. CASE RequestSave(k)
    BY <2>2, SavedQueueId, SessionsType DEF RequestSave
  <2>. QED
    BY <1>2, <2>1, <2>2 DEF RequestNext, RequestStep, RequestDeny, RequestLock, RequestRefuse,
       RequestFetch, RequestEnqueue, RequestMarkQueued, RequestMarkQueuedRaises, RequestFinish,
       RequestReply, RequestRaise, store
<1>3. ASSUME NEW u \in Cancellers, NEW k \in Jobs, CancelNext(u, k)
      PROVE  row[j].queueId \/ ent[Can(u, j)].queueId
  <2>1. CASE CancelUpdate(u, k)
    BY <2>1, SavedQueueId, SessionsType DEF CancelUpdate
  <2>. QED
    BY <1>3, <2>1 DEF CancelNext, CancelStep, CancelRead, CancelRq, CancelSelect,
       CancelFinish, CancelRaise, store
<1>4. ASSUME NEW k \in Jobs, ExecNext(k) PROVE row[j].queueId \/ ent[Exe(j)].queueId
  <2>1. CASE ExecBeginSave(k) \/ ExecProgressSave(k) \/ ExecFinalSave(k)
    BY <2>1, SavedQueueId, SessionsType DEF ExecBeginSave, ExecProgressSave, ExecFinalSave
  <2>. QED
    BY <1>4, <2>1 DEF ExecNext, ExecStep, Dispatch, ExecLookup, ExecLock, ExecBegin,
       ExecBeginRaises, ExecResolve, ExecDump, ExecCollected, ExecFinalize, ExecAudit, ExecNotify,
       ExecRelease, ExecRaise, ExecAlert, ExecTimeout, HorseKill, Sigterm, store
<1>5. CASE BotCrash \/ ExpireGlobal \/ (\E c \in Clusters : ExpireCluster(c)) \/ UNCHANGED vars
  BY <1>1, <1>5 DEF BotCrash, ExpireGlobal, ExpireCluster, vars, store
<1>. QED
  BY <1>2, <1>3, <1>4, <1>5 DEF Next

\* Every step keeps EntriesExist.
LEMMA EntriesStep ==
  ASSUME TypeOK, EntriesExist, [Next]_vars
  PROVE  EntriesExist'
<1>. /\ pc \in [Sessions -> Pcs] /\ ent \in [Sessions -> Row] /\ row \in [Jobs -> Row]
     /\ rq \in [Jobs -> RqStatus]
  BY DEF TypeOK
<1>. SUFFICES ASSUME NEW j \in Jobs
              PROVE
     /\ row'[j].queueId => rq'[j] # "absent"
     /\ ent'[Req(j)].queueId \/ ent'[Exe(j)].queueId => rq'[j] # "absent"
     /\ pc'[Req(j)] \in {"enqueued", "saving"} => rq'[j] # "absent"
     /\ \A u \in Cancellers :
           ent'[Can(u, j)].queueId \/ pc'[Can(u, j)] = "rq" => rq'[j] # "absent"
  BY DEF EntriesExist
<1>1. row'[j].queueId => rq'[j] # "absent"
  BY QueueIdOrigin, EntryKept DEF EntriesExist
<1>2. /\ ent'[Req(j)].queueId => rq'[j] # "absent"
      /\ pc'[Req(j)] \in {"enqueued", "saving"} => rq'[j] # "absent"
  <2>1. CASE pc'[Req(j)] = pc[Req(j)] /\ ent'[Req(j)] = ent[Req(j)]
    BY <2>1, EntryKept DEF EntriesExist
  <2>2. CASE RequestNext(j)
    <3>1. CASE RequestEnqueue(j)
      BY <3>1 DEF RequestEnqueue
    <3>2. CASE RequestFetch(j)
      BY <3>2, EntryKept, SessionsType DEF RequestFetch, Goto, EntriesExist
    <3>3. CASE RequestMarkQueued(j) \/ RequestSave(j)
      BY <3>3, EntryKept DEF RequestMarkQueued, RequestSave, Goto, EntriesExist
    <3>4. CASE \/ RequestRefuse(j) \/ RequestMarkQueuedRaises(j) \/ RequestFinish(j) \/ RequestRaise(j)
      BY <3>4, SessionsType DEF RequestRefuse, RequestMarkQueuedRaises, RequestFinish, RequestRaise,
         Goto, Forget, NoRow
    <3>5. CASE RequestDeny(j) \/ RequestLock(j) \/ RequestCreate(j) \/ RequestReply(j)
      BY <3>5, EntryKept, SessionsType DEF RequestDeny, RequestLock, RequestCreate, RequestReply,
         Goto, EntriesExist, memory
    <3>. QED BY <2>2, <3>1, <3>2, <3>3, <3>4, <3>5 DEF RequestNext, RequestStep
  <2>3. CASE BotCrash
    BY <2>3, EntryKept, SessionsType DEF BotCrash, EntriesExist, NoRow
  <2>. QED
    BY <2>1, <2>2, <2>3, RequestLocal, CancelLocal, ExecLocal, SessionsType, SessionsDistinct
    DEF Next, ExpireGlobal, ExpireCluster, memory, vars
<1>3. ent'[Exe(j)].queueId => rq'[j] # "absent"
  <2>1. CASE ent'[Exe(j)] = ent[Exe(j)]
    BY <2>1, EntryKept DEF EntriesExist
  <2>2. CASE ExecNext(j)
    <3>1. CASE ExecLookup(j)
      BY <3>1, EntryKept, SessionsType DEF ExecLookup, EntriesExist
    <3>2. CASE ExecBegin(j) \/ ExecCollected(j) \/ ExecFinalize(j)
      <4>1. ent'[Exe(j)].queueId = ent[Exe(j)].queueId
        <5>1. CASE ExecBegin(j)
          BY <5>1, SessionsType DEF ExecBegin, SaveLoad, Row
        <5>2. CASE ExecCollected(j)
          BY <5>2, SessionsType DEF ExecCollected, SaveLoad, Row
        <5>3. CASE ExecFinalize(j)
          BY <5>3, SessionsType DEF ExecFinalize, SaveLoad, Row
        <5>. QED BY <3>2, <5>1, <5>2, <5>3
      <4>. QED BY <4>1, EntryKept DEF EntriesExist
    <3>3. CASE ExecRelease(j) \/ ExecAlert(j) \/ ExecTimeout(j) \/ HorseKill(j)
      BY <3>3, SessionsType DEF ExecRelease, ExecAlert, ExecTimeout, HorseKill, ForgetHorse, Forget,
         NoRow
    <3>4. CASE UNCHANGED ent
      BY <2>1, <3>4
    <3>. QED
      BY <2>2, <3>1, <3>2, <3>3, <3>4 DEF ExecNext, ExecStep, Dispatch, ExecLock, ExecBeginRaises,
         ExecBeginSave, ExecResolve, ExecDump, ExecProgressSave, ExecFinalSave, ExecAudit, ExecNotify,
         ExecRaise, Sigterm, memory
  <2>3. CASE BotCrash
    <3>1. Exe(j) \notin Requests \cup Cancels /\ Exe(j) \in Sessions
      BY SessionsType, SessionsDistinct DEF Requests, Cancels
    <3>. QED BY <2>1, <2>3, <3>1 DEF BotCrash
  <2>. QED
    BY <2>1, <2>2, <2>3, RequestLocal, CancelLocal, ExecLocal, SessionsType, SessionsDistinct
    DEF Next, ExpireGlobal, ExpireCluster, memory, vars
<1>4. ASSUME NEW u \in Cancellers, ent'[Can(u, j)].queueId \/ pc'[Can(u, j)] = "rq"
      PROVE  rq'[j] # "absent"
  <2>1. CASE pc'[Can(u, j)] = pc[Can(u, j)] /\ ent'[Can(u, j)] = ent[Can(u, j)]
    BY <1>4, <2>1, EntryKept DEF EntriesExist
  <2>2. CASE CancelNext(u, j)
    <3>1. CASE CancelRead(u, j)
      BY <1>4, <3>1, EntryKept, SessionsType DEF CancelRead, Goto, EntriesExist
    <3>2. CASE CancelRq(u, j)
      BY <3>2 DEF CancelRq
    <3>3. CASE CancelSelect(u, j)
      <4>1. ent'[Can(u, j)].queueId = ent[Can(u, j)].queueId /\ pc'[Can(u, j)] # "rq"
        BY <3>3, SessionsType DEF CancelSelect, SaveLoad, Goto, Row
      <4>. QED BY <1>4, <4>1, EntryKept DEF EntriesExist
    <3>4. CASE CancelUpdate(u, j)
      <4>1. ent' = ent /\ pc'[Can(u, j)] # "rq"
        BY <3>4, SessionsType DEF CancelUpdate, Goto
      <4>. QED BY <1>4, <4>1, EntryKept DEF EntriesExist
    <3>5. CASE CancelFinish(u, j) \/ CancelRaise(u, j)
      BY <1>4, <3>5, SessionsType DEF CancelFinish, CancelRaise, Goto, Forget, NoRow
    <3>. QED BY <2>2, <3>1, <3>2, <3>3, <3>4, <3>5 DEF CancelNext, CancelStep
  <2>3. CASE BotCrash
    <3>1. Can(u, j) \in Cancels /\ Can(u, j) \in Sessions /\ Can(u, j) \notin Requests
      BY SessionsType, SessionsDistinct DEF Requests
    <3>. QED BY <1>4, <2>1, <2>3, <3>1 DEF BotCrash, NoRow
  <2>. QED
    BY <2>1, <2>2, <2>3, RequestLocal, CancelLocal, ExecLocal, SessionsType, SessionsDistinct
    DEF Next, ExpireGlobal, ExpireCluster, memory, vars
<1>. QED BY <1>1, <1>2, <1>3, <1>4

\* The audit log only grows.
LEMMA AuditKept ==
  ASSUME TypeOK, [Next]_vars, NEW j \in Jobs, NEW e \in audit[j]
  PROVE  e \in audit'[j]
<1>. audit \in [Jobs -> SUBSET AuditEvents]
  BY DEF TypeOK
<1>1. ASSUME NEW k \in Jobs, NEW events, Log(k, events) PROVE e \in audit'[j]
  BY <1>1 DEF Log
<1>2. CASE UNCHANGED audit
  BY <1>2
<1>3. ASSUME NEW k \in Jobs, RequestNext(k) PROVE e \in audit'[j]
  BY <1>1, <1>2, <1>3 DEF RequestNext, RequestStep, RequestDeny, RequestLock, RequestRefuse,
     RequestCreate, RequestFetch, RequestEnqueue, RequestMarkQueued, RequestMarkQueuedRaises,
     RequestSave, RequestFinish, RequestReply, RequestRaise, store
<1>4. ASSUME NEW u \in Cancellers, NEW k \in Jobs, CancelNext(u, k) PROVE e \in audit'[j]
  BY <1>1, <1>2, <1>4 DEF CancelNext, CancelStep, CancelRead, CancelRq, CancelSelect, CancelUpdate,
     CancelFinish, CancelRaise, store
<1>5. ASSUME NEW k \in Jobs, ExecNext(k) PROVE e \in audit'[j]
  BY <1>1, <1>2, <1>5 DEF ExecNext, ExecStep, Dispatch, ExecLookup, ExecLock, ExecBegin,
     ExecBeginRaises, ExecBeginSave, ExecResolve, ExecDump, ExecCollected, ExecProgressSave,
     ExecFinalize, ExecFinalSave, ExecAudit, ExecNotify, ExecRelease, ExecRaise, ExecAlert,
     ExecTimeout, HorseKill, Sigterm, store
<1>6. CASE BotCrash \/ ExpireGlobal \/ (\E c \in Clusters : ExpireCluster(c)) \/ UNCHANGED vars
  BY <1>2, <1>6 DEF BotCrash, ExpireGlobal, ExpireCluster, vars, store
<1>. QED
  BY <1>3, <1>4, <1>5, <1>6 DEF Next

\* Every step keeps RequestsLogged.
LEMMA LoggedStep ==
  ASSUME TypeOK, RowsExist, EntriesExist, RequestsLogged, [Next]_vars
  PROVE  RequestsLogged'
<1>. /\ pc \in [Sessions -> Pcs] /\ audit \in [Jobs -> SUBSET AuditEvents]
  BY DEF TypeOK
<1>. SUFFICES ASSUME NEW j \in Jobs
              PROVE
     /\ pc'[Req(j)] = "fetched" \/ rq'[j] # "absent" => "BACKUP_REQUESTED" \in audit'[j]
     /\ "BACKUP_STARTED" \in audit'[j] => rq'[j] # "absent"
  BY DEF RequestsLogged
<1>1. rq'[j] # "absent" => "BACKUP_REQUESTED" \in audit'[j]
  BY EntryOrigin, AuditKept DEF RequestsLogged, EntriesExist
<1>2. pc'[Req(j)] = "fetched" => "BACKUP_REQUESTED" \in audit'[j]
  <2>1. CASE pc'[Req(j)] = pc[Req(j)]
    BY <2>1, AuditKept DEF RequestsLogged
  <2>2. CASE RequestNext(j)
    <3>1. CASE RequestFetch(j)
      BY <3>1 DEF RequestFetch, Log
    <3>2. CASE ~RequestFetch(j)
      <4>1. pc'[Req(j)] # "fetched"
        BY <2>2, <3>2, SessionsType DEF RequestNext, RequestStep, RequestDeny, RequestLock,
           RequestRefuse, RequestCreate, RequestEnqueue, RequestMarkQueued,
           RequestMarkQueuedRaises, RequestSave, RequestFinish, RequestReply, RequestRaise, Goto
      <4>. QED BY <4>1
    <3>. QED BY <3>1, <3>2
  <2>3. CASE BotCrash
    <3>1. pc'[Req(j)] = "fetched" => pc'[Req(j)] = pc[Req(j)]
      BY <2>3, SessionsType DEF BotCrash
    <3>. QED BY <2>1, <3>1
  <2>. QED
    BY <2>1, <2>2, <2>3, RequestLocal, CancelLocal, ExecLocal, SessionsType, SessionsDistinct
    DEF Next, ExpireGlobal, ExpireCluster, vars
<1>3. "BACKUP_STARTED" \in audit'[j] => rq'[j] # "absent"
  <2>1. CASE "BACKUP_STARTED" \in audit[j]
    BY <2>1, EntryKept DEF RequestsLogged
  <2>2. CASE ExecResolve(j)
    BY <2>2, EntryKept DEF ExecResolve, Goto, RowsExist, ExeLive
  <2>3. ASSUME "BACKUP_STARTED" \notin audit[j], "BACKUP_STARTED" \in audit'[j] PROVE ExecResolve(j)
    <3>1. ASSUME NEW k \in Jobs, NEW events, Log(k, events), "BACKUP_STARTED" \notin events PROVE FALSE
      BY <2>3, <3>1 DEF Log
    <3>2. UNCHANGED audit => FALSE
      BY <2>3
    <3>3. ASSUME NEW k \in Jobs, RequestNext(k) PROVE FALSE
      BY <3>1, <3>2, <3>3 DEF RequestNext, RequestStep, RequestDeny, RequestLock, RequestRefuse,
         RequestCreate, RequestFetch, RequestEnqueue, RequestMarkQueued, RequestMarkQueuedRaises,
         RequestSave, RequestFinish, RequestReply, RequestRaise, store
    <3>4. ASSUME NEW u \in Cancellers, NEW k \in Jobs, CancelNext(u, k) PROVE FALSE
      BY <3>1, <3>2, <3>4 DEF CancelNext, CancelStep, CancelRead, CancelRq, CancelSelect,
         CancelUpdate, CancelFinish, CancelRaise, store
    <3>5. ASSUME NEW k \in Jobs, ExecNext(k) PROVE ExecResolve(j)
      <4>1. CASE ExecResolve(k)
        BY <2>3, <4>1 DEF ExecResolve, Log
      <4>2. CASE ExecAudit(k)
        <5>1. pc[Exe(k)] \in ExeLive \ {"lookup", "alert"} /\ Log(k, {ent[Exe(k)].status})
          BY <4>2 DEF ExecAudit, Goto, ExeLive
        <5>2. ent[Exe(k)].status \in JobStatus \cup {"NONE"}
          BY SessionsType DEF TypeOK, Row
        <5>. QED BY <3>1, <5>1, <5>2 DEF JobStatus, Terminal
      <4>. QED
        BY <3>2, <3>5, <4>1, <4>2 DEF ExecNext, ExecStep, Dispatch, ExecLookup, ExecLock, ExecBegin,
           ExecBeginRaises, ExecBeginSave, ExecDump, ExecCollected, ExecProgressSave, ExecFinalize,
           ExecFinalSave, ExecNotify, ExecRelease, ExecRaise, ExecAlert, ExecTimeout, HorseKill,
           Sigterm, store
    <3>6. BotCrash \/ ExpireGlobal \/ (\E c \in Clusters : ExpireCluster(c)) \/ UNCHANGED vars => FALSE
      BY <3>2 DEF BotCrash, ExpireGlobal, ExpireCluster, vars, store
    <3>. QED BY <3>3, <3>4, <3>5, <3>6 DEF Next
  <2>. QED BY <2>1, <2>2, <2>3
<1>. QED BY <1>1, <1>2, <1>3

-----------------------------------------------------------------------------
\* The inductive invariant holds initially.
LEMMA InitInductive == Init => Inductive
<1>1. Init => RowsExist /\ EntriesExist /\ RequestsLogged
  BY SessionsType DEF Init, RowsExist, EntriesExist, RequestsLogged, ReqLive, ExeLive, CanLive, NoRow
<1>. QED BY <1>1, InitType, InitOutcome DEF Inductive

\* The inductive invariant is inductive.
LEMMA InductiveStep == Inductive /\ [Next]_vars => Inductive'
  BY TypeStep, OutcomeStep, RowsStep, EntriesStep, LoggedStep DEF Inductive

\* The inductive invariant holds in every reachable state, for any jobs, users,
\* workers and faults.
THEOREM InductiveInvariant == Spec => []Inductive
  BY InitInductive, InductiveStep, PTL DEF Spec

\* A worker that picks a job up always finds its row, even when users cancel
\* and the bot crashes: the INSERT is committed before the entry exists and no
\* save undoes it.
THEOREM WorkerAlwaysFindsRow == Spec => []WorkerFindsRow
<1>1. Inductive => WorkerFindsRow
  BY DEF Inductive, RowsExist, WorkerFindsRow, ExeLive
<1>. QED BY <1>1, InductiveInvariant, PTL

\* No backup ever starts that the audit log does not show as requested.
THEOREM StartedWasAlwaysRequested == Spec => []StartedWasRequested
<1>1. Inductive => StartedWasRequested
  BY DEF Inductive, RequestsLogged, StartedWasRequested
<1>. QED BY <1>1, InductiveInvariant, PTL

-----------------------------------------------------------------------------
\* A token leaves backup:global by its owner's step or by expiry.
LEMMA GlobalRemoval ==
  ASSUME TypeOK, [Next]_vars, NEW j \in Jobs, globalLock = Req(j), globalLock' # Req(j)
  PROVE  globalLock' = NoToken /\ (pc'[Req(j)] # pc[Req(j)] \/ pc' = pc)
<1>. pc \in [Sessions -> Pcs] /\ Req(j) \in Sessions
  BY SessionsType DEF TypeOK
<1>1. ASSUME NEW k \in Jobs, RequestNext(k)
      PROVE  globalLock' = NoToken /\ pc'[Req(j)] # pc[Req(j)]
  <2>1. k = j
    BY <1>1, GlobalUntouched
  <2>2. RequestRefuse(j) \/ RequestMarkQueuedRaises(j) \/ RequestFinish(j) \/ RequestRaise(j)
    BY <1>1, <2>1, TokensDistinct DEF RequestNext, RequestStep, RequestDeny, RequestLock,
       RequestCreate, RequestFetch, RequestEnqueue, RequestMarkQueued, RequestSave, RequestReply,
       SetNX, locks
  <2>. QED
    BY <2>2 DEF RequestRefuse, RequestMarkQueuedRaises, RequestFinish, RequestRaise, Goto, ReqLive,
       ReleaseGlobal, ReleaseScript
<1>2. ASSUME NEW u \in Cancellers, NEW k \in Jobs, CancelNext(u, k) PROVE FALSE
  BY <1>2 DEF CancelNext, CancelStep, CancelRead, CancelRq, CancelSelect, CancelUpdate,
     CancelFinish, CancelRaise, locks
<1>3. ASSUME NEW k \in Jobs, ExecNext(k) PROVE FALSE
  BY <1>3 DEF ExecNext, ExecStep, Dispatch, ExecLookup, ExecLock, ExecBegin, ExecBeginRaises,
     ExecBeginSave, ExecResolve, ExecDump, ExecCollected, ExecProgressSave, ExecFinalize,
     ExecFinalSave, ExecAudit, ExecNotify, ExecRelease, ExecRaise, ExecAlert, ExecTimeout,
     HorseKill, Sigterm, locks
<1>4. CASE ExpireGlobal
  BY <1>4 DEF ExpireGlobal
<1>5. BotCrash \/ (\E c \in Clusters : ExpireCluster(c)) \/ UNCHANGED vars => FALSE
  BY DEF BotCrash, ExpireCluster, vars, locks
<1>. QED BY <1>1, <1>2, <1>3, <1>4, <1>5 DEF Next

\* A token leaves a cluster lock by its owner's step or by expiry.
LEMMA ClusterRemoval ==
  ASSUME TypeOK, [Next]_vars, NEW j \in Jobs,
         clusterLock[ClusterOf[j]] = Exe(j), clusterLock'[ClusterOf[j]] # Exe(j)
  PROVE  clusterLock'[ClusterOf[j]] = NoToken /\ (pc'[Exe(j)] # pc[Exe(j)] \/ pc' = pc)
<1>. /\ pc \in [Sessions -> Pcs] /\ Exe(j) \in Sessions /\ ClusterOf[j] \in Clusters
     /\ clusterLock \in [Clusters -> Executions \cup {NoToken}]
  BY SessionsType, PlatformAssumption DEF TypeOK
<1>1. ASSUME NEW k \in Jobs, ExecNext(k)
      PROVE  clusterLock'[ClusterOf[j]] = NoToken /\ pc'[Exe(j)] # pc[Exe(j)]
  <2>1. k = j
    BY <1>1, ClusterUntouched
  <2>2. \/ ExecBeginRaises(j) \/ ExecRelease(j) \/ ExecRaise(j) \/ ExecTimeout(j)
    BY <1>1, <2>1, TokensDistinct DEF ExecNext, ExecStep, Dispatch, ExecLookup, ExecLock, ExecBegin,
       ExecBeginSave, ExecResolve, ExecDump, ExecCollected, ExecProgressSave, ExecFinalize,
       ExecFinalSave, ExecAudit, ExecNotify, ExecAlert, HorseKill, Sigterm, SetNX, locks
  <2>. QED
    BY <2>2 DEF ExecBeginRaises, ExecRelease, ExecRaise, ExecTimeout, Goto, ExeLive,
       ReleaseCluster, ReleaseScript
<1>2. ASSUME NEW k \in Jobs, RequestNext(k) PROVE FALSE
  BY <1>2 DEF RequestNext, RequestStep, RequestDeny, RequestLock, RequestRefuse, RequestCreate,
     RequestFetch, RequestEnqueue, RequestMarkQueued, RequestMarkQueuedRaises, RequestSave,
     RequestFinish, RequestReply, RequestRaise, locks
<1>3. ASSUME NEW u \in Cancellers, NEW k \in Jobs, CancelNext(u, k) PROVE FALSE
  BY <1>3 DEF CancelNext, CancelStep, CancelRead, CancelRq, CancelSelect, CancelUpdate,
     CancelFinish, CancelRaise, locks
<1>4. ASSUME NEW c \in Clusters, ExpireCluster(c)
      PROVE  clusterLock'[ClusterOf[j]] = NoToken /\ pc' = pc
  BY <1>4 DEF ExpireCluster
<1>5. BotCrash \/ ExpireGlobal \/ UNCHANGED vars => FALSE
  BY DEF BotCrash, ExpireGlobal, vars, locks
<1>. QED BY <1>1, <1>2, <1>3, <1>4, <1>5 DEF Next

\* Even when locks expire under their holders, a token leaves a lock only by a
\* step of the session that wrote it, or by expiry, and never straight into the
\* hands of another session.
THEOREM LocksOnlyRemovedByOwner == Spec => LocksRemovedByOwner
<1>1. Inductive /\ [Next]_vars =>
        \A j \in Jobs :
          /\ globalLock = Req(j) /\ globalLock' # Req(j) =>
                globalLock' = NoToken /\ (pc'[Req(j)] # pc[Req(j)] \/ pc' = pc)
          /\ LET c == ClusterOf[j] IN
             clusterLock[c] = Exe(j) /\ clusterLock'[c] # Exe(j) =>
                clusterLock'[c] = NoToken /\ (pc'[Exe(j)] # pc[Exe(j)] \/ pc' = pc)
  BY GlobalRemoval, ClusterRemoval DEF Inductive
<1>. QED
  BY <1>1, InductiveInvariant, PTL DEF Spec, LocksRemovedByOwner
-----------------------------------------------------------------------------
\* Without faults of Redis, a request has its token in backup:global only inside its
\* guarded section, unless it was killed there.
LEMMA GlobalOwned ==
  ASSUME "redis" \notin Faults, TypeOK, OnlyTheDeadLeaveLocks, [Next]_vars, NEW j \in Jobs,
         globalLock' = Req(j)
  PROVE  InRequest(j)' \/ pc'[Req(j)] = "dead"
<1>. pc \in [Sessions -> Pcs] /\ Req(j) \in Sessions
  BY SessionsType DEF TypeOK
<1>1. ASSUME globalLock = Req(j), pc'[Req(j)] = pc[Req(j)]
      PROVE  InRequest(j)' \/ pc'[Req(j)] = "dead"
  BY <1>1 DEF OnlyTheDeadLeaveLocks, InRequest
<1>2. ASSUME NEW k \in Jobs, RequestNext(k) PROVE InRequest(j)' \/ pc'[Req(j)] = "dead"
  <2>1. CASE k # j
    <3>1. globalLock = Req(j)
      BY <1>2, <2>1, SessionsDistinct, TokensDistinct
      DEF RequestNext, RequestStep, RequestDeny, RequestLock, RequestRefuse, RequestCreate,
         RequestFetch, RequestEnqueue, RequestMarkQueued, RequestMarkQueuedRaises, RequestSave,
         RequestFinish, RequestReply, RequestRaise, SetNX, ReleaseGlobal, ReleaseScript, locks
    <3>. QED BY <1>1, <1>2, <2>1, <3>1, RequestLocal, SessionsDistinct
  <2>2. CASE k = j
    <3>1. CASE RequestLock(j)
      BY <3>1 DEF RequestLock, Goto, InRequest, ReqLive
    <3>2. CASE RequestCreate(j) \/ RequestFetch(j) \/ RequestEnqueue(j) \/ RequestMarkQueued(j) \/ RequestSave(j)
      BY <3>2 DEF RequestCreate, RequestFetch, RequestEnqueue, RequestMarkQueued, RequestSave,
         Goto, InRequest, ReqLive
    <3>3. CASE RequestRefuse(j) \/ RequestMarkQueuedRaises(j) \/ RequestFinish(j) \/ RequestRaise(j)
      BY <3>3, TokensDistinct DEF RequestRefuse, RequestMarkQueuedRaises, RequestFinish,
         RequestRaise, ReleaseGlobal, ReleaseScript
    <3>4. CASE RequestDeny(j) \/ RequestReply(j)
      BY <3>4 DEF RequestDeny, RequestReply, Goto, OnlyTheDeadLeaveLocks, InRequest, ReqLive, locks
    <3>. QED BY <1>2, <2>2, <3>1, <3>2, <3>3, <3>4 DEF RequestNext, RequestStep
  <2>. QED BY <2>1, <2>2
<1>3. ASSUME NEW u \in Cancellers, NEW k \in Jobs, CancelNext(u, k)
      PROVE  InRequest(j)' \/ pc'[Req(j)] = "dead"
  <2>1. UNCHANGED globalLock
    BY <1>3 DEF CancelNext, CancelStep, CancelRead, CancelRq, CancelSelect, CancelUpdate,
       CancelFinish, CancelRaise, locks
  <2>2. pc'[Req(j)] = pc[Req(j)]
    BY <1>3, CancelLocal, SessionsDistinct
  <2>. QED BY <1>1, <2>1, <2>2
<1>4. ASSUME NEW k \in Jobs, ExecNext(k) PROVE InRequest(j)' \/ pc'[Req(j)] = "dead"
  <2>1. UNCHANGED globalLock
    BY <1>4 DEF ExecNext, ExecStep, Dispatch, ExecLookup, ExecLock, ExecBegin, ExecBeginRaises,
     ExecBeginSave, ExecResolve, ExecDump, ExecCollected, ExecProgressSave, ExecFinalize,
     ExecFinalSave, ExecAudit, ExecNotify, ExecRelease, ExecRaise, ExecAlert, ExecTimeout,
     HorseKill, Sigterm, locks
  <2>. QED BY <1>1, <1>4, <2>1, ExecLocal, SessionsDistinct
<1>5. CASE BotCrash
  <2>1. UNCHANGED globalLock
    BY <1>5 DEF BotCrash, locks
  <2>2. pc'[Req(j)] = pc[Req(j)] \/ pc'[Req(j)] = "dead"
    BY <1>5, SessionsDistinct DEF BotCrash, Requests, Cancels
  <2>. QED BY <1>1, <2>1, <2>2
<1>6. CASE ExpireGlobal
  BY <1>6, TokensDistinct DEF ExpireGlobal
<1>7. CASE (\E c \in Clusters : ExpireCluster(c)) \/ UNCHANGED vars
  BY <1>1, <1>7 DEF ExpireCluster, vars
<1>. QED
  BY <1>2, <1>3, <1>4, <1>5, <1>6, <1>7 DEF Next

\* The same for an execution and the lock of its cluster.
LEMMA ClusterOwned ==
  ASSUME "redis" \notin Faults, TypeOK, OnlyTheDeadLeaveLocks, [Next]_vars, NEW j \in Jobs,
         clusterLock'[ClusterOf[j]] = Exe(j)
  PROVE  InBackup(j)' \/ pc'[Exe(j)] = "dead"
<1>. /\ pc \in [Sessions -> Pcs] /\ Exe(j) \in Sessions /\ ClusterOf[j] \in Clusters
     /\ clusterLock \in [Clusters -> Executions \cup {NoToken}]
  BY SessionsType, PlatformAssumption DEF TypeOK
<1>1. ASSUME clusterLock[ClusterOf[j]] = Exe(j), pc'[Exe(j)] = pc[Exe(j)]
      PROVE  InBackup(j)' \/ pc'[Exe(j)] = "dead"
  BY <1>1 DEF OnlyTheDeadLeaveLocks, InBackup
<1>2. ASSUME NEW k \in Jobs, RequestNext(k) PROVE InBackup(j)' \/ pc'[Exe(j)] = "dead"
  <2>1. UNCHANGED clusterLock
    BY <1>2 DEF RequestNext, RequestStep, RequestDeny, RequestLock, RequestRefuse, RequestCreate,
     RequestFetch, RequestEnqueue, RequestMarkQueued, RequestMarkQueuedRaises, RequestSave,
     RequestFinish, RequestReply, RequestRaise, locks
  <2>. QED BY <1>1, <1>2, <2>1, RequestLocal, SessionsDistinct
<1>3. ASSUME NEW u \in Cancellers, NEW k \in Jobs, CancelNext(u, k)
      PROVE  InBackup(j)' \/ pc'[Exe(j)] = "dead"
  <2>1. UNCHANGED clusterLock
    BY <1>3 DEF CancelNext, CancelStep, CancelRead, CancelRq, CancelSelect, CancelUpdate,
       CancelFinish, CancelRaise, locks
  <2>2. pc'[Exe(j)] = pc[Exe(j)]
    BY <1>3, CancelLocal, SessionsDistinct
  <2>. QED BY <1>1, <2>1, <2>2
<1>4. ASSUME NEW k \in Jobs, ExecNext(k) PROVE InBackup(j)' \/ pc'[Exe(j)] = "dead"
  <2>1. CASE k # j
    <3>1. clusterLock[ClusterOf[j]] = Exe(j)
      <4>1. ClusterOf[k] \in Clusters /\ Exe(j) # Exe(k) /\ Exe(j) # NoToken
        BY <2>1, SessionsDistinct, TokensDistinct, PlatformAssumption
      <4>2. CASE ExecLock(k)
        BY <4>1, <4>2 DEF ExecLock, SetNX
      <4>3. CASE ReleaseCluster(k)
        BY <4>1, <4>3 DEF ReleaseCluster, ReleaseScript
      <4>4. CASE UNCHANGED clusterLock
        BY <4>4
      <4>. QED
        BY <1>4, <4>2, <4>3, <4>4 DEF ExecNext, ExecStep, Dispatch, ExecLookup, ExecBegin,
           ExecBeginRaises, ExecBeginSave, ExecResolve, ExecDump, ExecCollected, ExecProgressSave,
           ExecFinalize, ExecFinalSave, ExecAudit, ExecNotify, ExecRelease, ExecRaise, ExecAlert,
           ExecTimeout, HorseKill, Sigterm, locks
    <3>. QED BY <1>1, <1>4, <2>1, <3>1, ExecLocal, SessionsDistinct
  <2>2. CASE k = j
    <3>1. CASE ExecLock(j)
      BY <3>1 DEF ExecLock, Goto, InBackup, ExeLive
    <3>2. CASE \/ ExecBegin(j) \/ ExecBeginSave(j) \/ ExecResolve(j) \/ ExecDump(j) \/ ExecCollected(j)
               \/ ExecProgressSave(j) \/ ExecFinalize(j) \/ ExecFinalSave(j) \/ ExecAudit(j)
               \/ ExecNotify(j)
      BY <3>2 DEF ExecBegin, ExecBeginSave, ExecResolve, ExecDump, ExecCollected, ExecProgressSave,
         ExecFinalize, ExecFinalSave, ExecAudit, ExecNotify, Goto, InBackup, ExeLive
    <3>3. CASE ExecBeginRaises(j) \/ ExecRelease(j) \/ ExecRaise(j) \/ ExecTimeout(j)
      BY <3>3, TokensDistinct DEF ExecBeginRaises, ExecRelease, ExecRaise, ExecTimeout,
         ReleaseCluster, ReleaseScript
    <3>4. CASE Dispatch(j) \/ ExecLookup(j) \/ ExecAlert(j)
      BY <3>4 DEF Dispatch, ExecLookup, ExecAlert, Goto, OnlyTheDeadLeaveLocks, InBackup, ExeLive,
         locks
    <3>5. CASE HorseKill(j) \/ Sigterm(j)
      BY <1>1, <3>5 DEF HorseKill, Sigterm, locks
    <3>. QED BY <1>4, <2>2, <3>1, <3>2, <3>3, <3>4, <3>5 DEF ExecNext, ExecStep
  <2>. QED BY <2>1, <2>2
<1>5. CASE BotCrash
  <2>1. Exe(j) \notin Requests \cup Cancels
    BY SessionsDistinct DEF Requests, Cancels
  <2>2. pc'[Exe(j)] = pc[Exe(j)] /\ UNCHANGED clusterLock
    BY <1>5, <2>1 DEF BotCrash, locks
  <2>. QED BY <1>1, <2>2
<1>6. ASSUME NEW c \in Clusters, ExpireCluster(c) PROVE InBackup(j)' \/ pc'[Exe(j)] = "dead"
  BY <1>1, <1>6, TokensDistinct DEF ExpireCluster
<1>7. CASE ExpireGlobal \/ UNCHANGED vars
  BY <1>1, <1>7 DEF ExpireGlobal, vars
<1>. QED
  BY <1>2, <1>3, <1>4, <1>5, <1>6, <1>7 DEF Next

\* While Redis answers, every exception, timeout and normal end releases its lock:
\* what is locked outside a guarded section was left by a killed process.
THEOREM FinallyReleases ==
  ASSUME "redis" \notin Faults
  PROVE  Spec => []OnlyTheDeadLeaveLocks
<1>1. Init => OnlyTheDeadLeaveLocks
  BY TokensDistinct, PlatformAssumption DEF Init, OnlyTheDeadLeaveLocks
<1>2. Inductive /\ OnlyTheDeadLeaveLocks /\ [Next]_vars => OnlyTheDeadLeaveLocks'
  <2>. SUFFICES ASSUME Inductive, OnlyTheDeadLeaveLocks, [Next]_vars, NEW j \in Jobs
                PROVE  /\ globalLock' = Req(j) => InRequest(j)' \/ pc'[Req(j)] = "dead"
                       /\ clusterLock'[ClusterOf[j]] = Exe(j) => InBackup(j)' \/ pc'[Exe(j)] = "dead"
    BY DEF OnlyTheDeadLeaveLocks
  <2>. QED BY GlobalOwned, ClusterOwned DEF Inductive
<1>. QED
  BY <1>1, <1>2, InductiveInvariant, PTL DEF Spec
=============================================================================
