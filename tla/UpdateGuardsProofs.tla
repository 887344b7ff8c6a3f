--------------------------- MODULE UpdateGuardsProofs ---------------------------
(***************************************************************************)
(* What guards the updates: the two limiters, whose checks and increments  *)
(* the lock of a user's updates keeps together, and the rights that a      *)
(* change of the table users needs.  Theorems about UpdatePipeline for     *)
(* every value of its constants.                                           *)
(***************************************************************************)
EXTENDS UpdatePipelineProofs

\* A task works until its handler has done what it is for.  Whoever works holds its
\* user's lock, or has lost it on the way; in the limiter it holds it for certain.
Working(t) == task[t].pc \in Pcs \ {"answer", "audit"}

LockInv ==
    \A t \in Tasks :
        /\ task[t].pc \in {"limit", "increment"} => isolation[Sender(t)] = t
        /\ Working(t) => isolation[Sender(t)] = t \/ t \in overtaken[Sender(t)]

\* Of two working tasks of a user one was overtaken by the other.
LEMMA WorkingAlone ==
    ASSUME LockInv, NEW s \in Tasks, NEW t \in Tasks, Working(s), Working(t),
           Sender(s) = Sender(t), s # t
    PROVE  s \in overtaken[Sender(t)] \/ t \in overtaken[Sender(t)]
BY DEF LockInv

\* The lock of every other task survives a step of task t.
LEMMA OthersKeepLock ==
    ASSUME TypeOK, NEW t \in Tasks, Frame(t), NEW s \in Tasks, s # t, NEW u \in Users,
           isolation[u] = s
    PROVE  isolation'[u] = s
<1>1. CASE End(t) BY <1>1 DEF End, ReleaseScript, TypeOK
<1>2. CASE UNCHANGED isolation BY <1>2
<1> QED BY <1>1, <1>2 DEF Frame

\* A task works after its own step only if it did before, and it keeps its lock then;
\* nothing but the check of the limiter leads to its increment.
LEMMA WorkingBefore ==
    ASSUME TypeOK, NEW t \in Tasks, Middleware(t) \/ Handler(t) \/ Raise(t), Working(t)'
    PROVE  /\ Working(t) /\ UNCHANGED isolation /\ Sender(t)' = Sender(t)
           /\ task'[t].pc \in {"limit", "increment"} => task[t].pc \in {"limit", "increment"}
<1>1. task'[t].pc \notin {"idle", "answer", "audit"} BY DEF Working, Pcs, Early, Slow
<1>2. Frame(t) BY MiddlewareFrame, HandlerFrame, RaiseFrame
<1>3. ~End(t) BY <1>1, HoldFrame DEF End, Idle
<1>4. UNCHANGED isolation /\ Sender(t)' = Sender(t) BY <1>2, <1>3 DEF Frame, Sender
<1>5. ~Raise(t) BY <1>1, RaiseMoves
<1>6. Working(t)
  <2>1. CASE Middleware(t)
    <3>1. ~Audit(t) BY <1>3 DEF Audit
    <3>2. task[t].pc \in Early
      BY <1>3, <2>1, <3>1 DEF Middleware, LimitCheck, LimitIncrement, AuthCached, AuthAsk,
         AuthStore, AuthWhitelist, Deny, At, Early
    <3> QED BY <3>2 DEF Working, Pcs, Early
  <2>2. CASE Handler(t)
    <3>1. ~Answer(t)
      <4>1. Answer(t) => Goto(t, "audit") /\ task[t].pc # "idle" BY DEF Answer, At
      <4> QED BY <1>1, <4>1, GotoFrame DEF Pcs
    <3> QED BY <2>2, <3>1 DEF Handler, ListUsers, Refresh, Report, ToggleLoad, ToggleSave, RoleLoad,
         RoleSave, AddCheck, AddLoad, AddSave, AddAudit, SizeAcquire, SizeRelease, QuotaLoad,
         QuotaSave, Begin, At, Working, Pcs, Slow
  <2> QED BY <1>5, <2>1, <2>2
<1>7. ASSUME task'[t].pc \in {"limit", "increment"} PROVE task[t].pc \in {"limit", "increment"}
  <2>1. Middleware(t) BY <1>5, <1>7, HandlerMoves DEF Early
  <2>2. task[t].pc # "idle" BY <1>6 DEF Working, Pcs, Early, Slow
  <2>3. CASE ~LimitCheck(t)
    <3>1. \E p \in Pcs \ {"limit", "increment"} :
            Goto(t, p) \/ \E who : Hold(t, [task[t] EXCEPT !.pc = p, !.who = who])
      BY <1>3, <2>1, <2>3 DEF Middleware, LimitIncrement, AuthCached, AuthAsk, AuthStore,
         AuthWhitelist, Deny, Audit, Decide, Authenticated, Pcs, Early
    <3> QED BY <1>7, <2>2, <3>1, GotoFrame
  <2> QED BY <2>3 DEF LimitCheck, At
<1> QED BY <1>4, <1>6, <1>7

\* The invariant of the users' locks is inductive.
LEMMA LockInvStep == Types /\ LockInv /\ [Next]_vars => LockInv'
<1> SUFFICES ASSUME Types, LockInv, [Next]_vars PROVE LockInv' OBVIOUS
<1>1. TypeOK BY DEF Types
<1>2. \A s \in Tasks : Working(s) => Live(s) BY DEF Working, Live, Pcs, Early, Slow
<1>3. \A s \in Tasks : task[s].pc \in {"limit", "increment"} => Working(s)
  BY DEF Working, Pcs, Early
<1>4. \A s \in Tasks : Working(s) => Sender(s) \in Users BY <1>1, <1>2, LiveFields DEF Live
<1>5. ASSUME NEW s \in Tasks, task'[s] = task[s],
             Working(s) /\ isolation[Sender(s)] = s =>
               isolation'[Sender(s)] = s \/ s \in overtaken'[Sender(s)],
             task[s].pc \in {"limit", "increment"} => isolation'[Sender(s)] = s,
             Working(s) /\ s \in overtaken[Sender(s)] => s \in overtaken'[Sender(s)]
      PROVE  /\ task'[s].pc \in {"limit", "increment"} => isolation'[Sender(s)'] = s
             /\ Working(s)' => isolation'[Sender(s)'] = s \/ s \in overtaken'[Sender(s)']
  <2>1. Sender(s)' = Sender(s) /\ (Working(s)' <=> Working(s)) BY <1>5 DEF Sender, Working
  <2> QED BY <1>5, <2>1 DEF LockInv
<1>6. ASSUME NEW t \in Tasks, Middleware(t) \/ Handler(t) \/ Raise(t) PROVE LockInv'
  <2>1. Frame(t) /\ UNCHANGED overtaken
    BY <1>1, <1>6, MiddlewareFrame, HandlerFrame, RaiseFrame DEF Frame
  <2>2. ASSUME NEW s \in Tasks, s # t
        PROVE  /\ task'[s].pc \in {"limit", "increment"} => isolation'[Sender(s)'] = s
               /\ Working(s)' => isolation'[Sender(s)'] = s \/ s \in overtaken'[Sender(s)']
    <3>1. task'[s] = task[s] BY <2>1, <2>2 DEF Frame
    <3>2. Working(s) /\ isolation[Sender(s)] = s => isolation'[Sender(s)] = s
      BY <1>1, <1>4, <2>1, <2>2, OthersKeepLock
    <3> QED BY <1>3, <1>5, <2>1, <3>1, <3>2 DEF LockInv
  <2>3. /\ task'[t].pc \in {"limit", "increment"} => isolation'[Sender(t)'] = t
        /\ Working(t)' => isolation'[Sender(t)'] = t \/ t \in overtaken'[Sender(t)']
    <3>1. task'[t].pc \in {"limit", "increment"} => Working(t)'
      BY DEF Working, Pcs, Early
    <3>2. CASE Working(t)'
      <4>1. /\ Working(t) /\ UNCHANGED isolation /\ Sender(t)' = Sender(t)
            /\ task'[t].pc \in {"limit", "increment"} => task[t].pc \in {"limit", "increment"}
        BY <1>1, <1>6, <3>2, WorkingBefore
      <4> QED BY <2>1, <4>1 DEF LockInv
    <3> QED BY <3>1, <3>2
  <2> QED BY <2>2, <2>3 DEF LockInv
<1>7. ASSUME NEW t \in Tasks, NEW upd \in Sends[t], Receive(t, upd) PROVE LockInv'
  <2>1. /\ \A s \in Tasks : s # t => task'[s] = task[s]
        /\ task'[t].upd = upd /\ UNCHANGED overtaken
    BY <1>1, <1>7, HoldFrame DEF Receive, Enter, observed
  <2>2. upd.from \in Users BY UpdatePipelineAssumption DEF Update
  <2>3. isolation[upd.from] = NoToken /\ isolation' = [isolation EXCEPT ![upd.from] = t]
    BY <1>7 DEF Receive, Enter, SetNX
  <2>4. isolation'[Sender(t)'] = t BY <1>1, <2>1, <2>2, <2>3 DEF TypeOK, Sender
  <2>5. ASSUME NEW s \in Tasks, s # t
        PROVE  /\ task'[s].pc \in {"limit", "increment"} => isolation'[Sender(s)'] = s
               /\ Working(s)' => isolation'[Sender(s)'] = s \/ s \in overtaken'[Sender(s)']
    <3>1. Working(s) /\ isolation[Sender(s)] = s => isolation'[Sender(s)] = s
      BY <1>1, <1>4, <2>2, <2>3, UpdatePipelineAssumption DEF TypeOK
    <3> QED BY <1>3, <1>5, <2>1, <2>5, <3>1 DEF LockInv
  <2> QED BY <2>4, <2>5 DEF LockInv
<1>8. ASSUME NEW u \in Users, IsolationExpires(u) PROVE LockInv'
  <2>1. /\ UNCHANGED task /\ isolation' = [isolation EXCEPT ![u] = NoToken]
        /\ overtaken'[u] = overtaken[u] \cup
             {t \in Tasks : Holds(t, u) /\ task[t].pc \notin {"answer", "audit"}}
        /\ \A v \in Users : v # u => overtaken'[v] = overtaken[v]
    BY <1>1, <1>8 DEF IsolationExpires, TypeOK
  <2>2. ASSUME NEW s \in Tasks
        PROVE  /\ task'[s].pc \in {"limit", "increment"} => isolation'[Sender(s)'] = s
               /\ Working(s)' => isolation'[Sender(s)'] = s \/ s \in overtaken'[Sender(s)']
    <3>1. Working(s) /\ isolation[Sender(s)] = s =>
            isolation'[Sender(s)] = s \/ s \in overtaken'[Sender(s)]
      <4> SUFFICES ASSUME Working(s), isolation[Sender(s)] = s, Sender(s) = u
                   PROVE  s \in overtaken'[u]
        BY <1>1, <1>4, <2>1 DEF TypeOK
      <4>1. Holds(s, u) /\ task[s].pc \notin {"answer", "audit"}
        BY <1>2 DEF Holds, Working
      <4> QED BY <2>1, <4>1
    <3>2. task[s].pc \in {"limit", "increment"} => isolation'[Sender(s)] = s
      <4> SUFFICES ASSUME task[s].pc \in {"limit", "increment"} PROVE isolation'[Sender(s)] = s
        OBVIOUS
      <4>1. isolation[Sender(s)] = s /\ Live(s) /\ Sender(s) \in Users
        BY <1>2, <1>3, <1>4 DEF LockInv
      <4>2. Sender(s) # u BY <1>8, <4>1 DEF IsolationExpires, Holds
      <4> QED BY <1>1, <2>1, <4>1, <4>2 DEF TypeOK
    <3>3. Working(s) /\ s \in overtaken[Sender(s)] => s \in overtaken'[Sender(s)]
      BY <1>4, <2>1
    <3> QED BY <1>5, <2>1, <3>1, <3>2, <3>3
  <2> QED BY <2>2 DEF LockInv
<1>9. CASE (\E u \in Users : Dismiss(u)) \/ SizeLockExpires \/ Tick \/ UNCHANGED vars
  <2>1. UNCHANGED <<task, isolation, overtaken>>
    BY <1>9 DEF Dismiss, SizeLockExpires, Tick, vars, locks, observed
  <2> QED BY <2>1 DEF LockInv, Working, Sender
<1>10. CASE Crash
  <2>1. \A s \in Tasks : task'[s].pc = "idle" BY <1>10 DEF Crash, Idle
  <2> QED BY <2>1 DEF LockInv, Working, Pcs, Early, Slow
<1> QED BY <1>6, <1>7, <1>8, <1>9, <1>10, StepKinds DEF OutsideStep

\* At first no task is working.
LEMMA LockInit == Init => LockInv /\ Numbered
BY DEF Init, LockInv, Working, Numbered, Live, Idle, Pcs, Early, Slow

\* The users' locks hold in every reachable state.
LEMMA LocksKept == Spec => [](Types /\ LockInv /\ Numbered)
BY LockInit, TypesInit, TypesStep, LockInvStep, NumberedStep, PTL DEF Spec

-----------------------------------------------------------------------------
(***************************************************************************)
(* The rows of the fixed-window table.                                     *)
(***************************************************************************)

AtMostOne(S) == \A r, q \in S : r = q

\* The rows of a user that are in the table, or that one of the user's requests has
\* loaded.  A row bears the number of the request that inserted it.
Knows(u, r) ==
    \/ r \in quota[u]
    \/ \E t \in Tasks : At(t, "quota") /\ Sender(t) = u /\ r \in task[t].quota

RowsAreOld ==
    \A u \in Users, r \in QuotaRow :
        Knows(u, r) => r.id <= received /\ \A t \in Tasks : Working(t) => t # r.id

RowsKeepStart ==
    \A u \in Users, r \in QuotaRow, q \in QuotaRow :
        Knows(u, r) /\ Knows(u, q) /\ r.id = q.id => r.start = q.start

\* What a request has loaded is still in the table, with another count at most.
LoadedStands ==
    \A t \in Tasks : At(t, "quota") =>
        \A r \in LiveRows(task[t].quota, now) :
            \E q \in quota[Sender(t)] : q.id = r.id /\ q.start = r.start

\* A request with its lock that has found no row will find only rows of overtaken
\* requests beside the one it inserts.
NothingFound ==
    \A t \in Tasks :
        At(t, "quota") /\ t \notin overtaken[Sender(t)] /\ task[t].quota = {} =>
            \A r \in LiveRows(quota[Sender(t)], now) : r.id \in overtaken[Sender(t)]

\* Of users whose lock never expired under a request, a request knows every row.
AllSeen ==
    \A t \in Tasks :
        At(t, "quota") /\ overtaken[Sender(t)] = {} =>
            /\ LiveRows(quota[Sender(t)], now) \subseteq task[t].quota
            /\ AtMostOne(task[t].quota)

QuotaInv ==
    RowsAreOld /\ RowsKeepStart /\ LoadedStands /\ OneQuotaRow /\ NothingFound /\ AllSeen

\* Rows only leave the window as time passes.
LEMMA RowsExpire ==
    ASSUME NEW rows \in SUBSET QuotaRow, now \in Nat, now' \in Nat, now <= now'
    PROVE  LiveRows(rows, now') \subseteq LiveRows(rows, now)
BY UpdatePipelineAssumption, RateLimitAssumption DEF LiveRows, QuotaRow

\* A step that leaves the table alone keeps the invariant, when a task that comes to
\* its write loads all the live rows.
LEMMA QuotaUntouched ==
    ASSUME TypeOK, QuotaInv, UNCHANGED quota, now' \in Nat, now <= now',
           received \in Nat, received' \in Nat, received <= received',
           \A u \in Users : overtaken[u] \subseteq overtaken'[u],
           \A s \in Tasks : Working(s)' => Working(s) \/ s > received,
           \A s \in Tasks : At(s, "quota")' =>
              \/ task'[s] = task[s]
              \/ /\ Sender(s)' \in Users /\ now' = now
                 /\ task'[s].quota = LiveRows(quota[Sender(s)'], now)
    PROVE  QuotaInv'
<1>1. \A u \in Users : LiveRows(quota[u], now') \subseteq LiveRows(quota[u], now)
  BY RowsExpire DEF TypeOK
<1>2. ASSUME NEW s \in Tasks, At(s, "quota")', task'[s] = task[s]
      PROVE  /\ At(s, "quota") /\ Sender(s)' = Sender(s) /\ Sender(s) \in Users
             /\ task[s].quota \in SUBSET QuotaRow
  BY <1>2, LiveFields DEF At, Sender
<1>3. \A u \in Users, r \in QuotaRow : Knows(u, r)' => Knows(u, r)
  <2> SUFFICES ASSUME NEW u \in Users, NEW r \in QuotaRow, Knows(u, r)', r \notin quota[u]
               PROVE  Knows(u, r)
    BY DEF Knows
  <2>1. PICK s \in Tasks : At(s, "quota")' /\ Sender(s)' = u /\ r \in task'[s].quota
    BY DEF Knows
  <2>2. task'[s] = task[s] BY <2>1 DEF LiveRows
  <2> QED BY <1>2, <2>1, <2>2 DEF Knows
<1>4. RowsAreOld'
  <2> SUFFICES ASSUME NEW u \in Users, NEW r \in QuotaRow, Knows(u, r)'
               PROVE  r.id <= received' /\ \A t \in Tasks : Working(t)' => t # r.id
    BY DEF RowsAreOld
  <2>1. r.id <= received /\ \A t \in Tasks : Working(t) => t # r.id
    BY <1>3 DEF QuotaInv, RowsAreOld
  <2>2. r.id \in Nat BY DEF QuotaRow
  <2>3. r.id <= received' BY <2>1, <2>2
  <2>4. \A t \in Tasks : t > received => t # r.id
    BY <2>1, <2>2, UpdatePipelineAssumption DEF Tasks
  <2> QED BY <2>1, <2>3, <2>4
<1>5. RowsKeepStart' BY <1>3 DEF QuotaInv, RowsKeepStart
<1>6. LoadedStands'
  <2> SUFFICES ASSUME NEW s \in Tasks, At(s, "quota")', NEW r \in LiveRows(task'[s].quota, now')
               PROVE  \E q \in quota[Sender(s)'] : q.id = r.id /\ q.start = r.start
    BY DEF LoadedStands
  <2>1. CASE task'[s] = task[s]
    <3>1. r \in LiveRows(task[s].quota, now) BY <1>2, <2>1, RowsExpire DEF TypeOK
    <3> QED BY <1>2, <2>1, <3>1 DEF QuotaInv, LoadedStands
  <2>2. CASE task'[s].quota = LiveRows(quota[Sender(s)'], now)
    BY <2>2 DEF LiveRows
  <2> QED BY <2>1, <2>2
<1>7. OneQuotaRow' BY <1>1 DEF QuotaInv, OneQuotaRow
<1>8. NothingFound'
  <2> SUFFICES ASSUME NEW s \in Tasks, At(s, "quota")', s \notin overtaken'[Sender(s)'],
                      task'[s].quota = {}, NEW r \in LiveRows(quota[Sender(s)'], now')
               PROVE  r \in LiveRows(quota[Sender(s)'], now') /\ r.id \in overtaken'[Sender(s)']
    BY DEF NothingFound
  <2>1. CASE task'[s] = task[s]
    BY <1>1, <1>2, <2>1 DEF QuotaInv, NothingFound
  <2>2. CASE now' = now /\ task'[s].quota = LiveRows(quota[Sender(s)'], now)
    BY <2>2
  <2> QED BY <2>1, <2>2
<1>9. AllSeen'
  <2> SUFFICES ASSUME NEW s \in Tasks, At(s, "quota")', overtaken'[Sender(s)'] = {}
               PROVE  /\ LiveRows(quota[Sender(s)'], now') \subseteq task'[s].quota
                      /\ AtMostOne(task'[s].quota)
    BY DEF AllSeen, AtMostOne
  <2>1. CASE task'[s] = task[s]
    BY <1>1, <1>2, <2>1 DEF QuotaInv, AllSeen
  <2>2. CASE /\ Sender(s)' \in Users /\ now' = now
             /\ task'[s].quota = LiveRows(quota[Sender(s)'], now)
    BY <2>2 DEF QuotaInv, OneQuotaRow, AtMostOne
  <2> QED BY <2>1, <2>2
<1> QED BY <1>4, <1>5, <1>6, <1>7, <1>8, <1>9 DEF QuotaInv

\* What increment() writes continues a row it has loaded, or is a new one.
LEMMA CountedContinues ==
    ASSUME NEW found \in SUBSET QuotaRow, NEW t, NEW row, row = Counted(found, now, t)
    PROVE  \/ found = {} /\ row.id = t
           \/ \E y \in found : row.id = y.id /\ row.start = y.start
<1>1. CASE found = {} BY <1>1 DEF Counted
<1>2. CASE found # {}
  <2>1. PICK y \in found : row = [y EXCEPT !.count = @ + 1] BY <1>2 DEF Counted
  <2>2. row.id = y.id /\ row.start = y.start BY <2>1 DEF QuotaRow
  <2> QED BY <2>2
<1> QED BY <1>1, <1>2

\* The write: a row that continues another is no second one, and a new row is one only
\* beside rows of overtaken requests, or is itself of one.
LEMMA QuotaSaveStep ==
    ASSUME Types, TypeOK', LockInv, Numbered, QuotaInv, NEW t \in Tasks, QuotaSave(t)
    PROVE  QuotaInv'
<1> DEFINE u == Sender(t)
           found == task[t].quota
           row == Counted(found, now, t)
<1> USE DEF stores, observed
<1>1. /\ TypeOK /\ task[t].pc # "idle" /\ u \in Users /\ found \in SUBSET QuotaRow
      /\ UNCHANGED <<now, overtaken, received>> /\ At(t, "quota") /\ Working(t) /\ Live(t)
  BY LiveFields DEF Types, QuotaSave, At, Working, Live, Pcs
<1>2. /\ \A s \in Tasks : s # t => task'[s] = task[s]
      /\ task'[t].pc = "answer"
  BY <1>1, GotoFrame DEF QuotaSave, Pcs, Slow
<1>3. ~At(t, "quota")' /\ ~Working(t)' BY <1>2 DEF At, Working
<1>4. /\ quota'[u] = {r \in LiveRows(quota[u], now) : r.id # row.id} \cup {row}
      /\ \A v \in Users : v # u => quota'[v] = quota[v]
  BY <1>1 DEF QuotaSave, Written, TypeOK
<1>5. row \in QuotaRow /\ \A v \in Users : quota'[v] \subseteq QuotaRow
  BY <1>1, <1>4 DEF TypeOK
<1>6. \/ found = {} /\ row.id = t
      \/ \E y \in found : row.id = y.id /\ row.start = y.start
  BY <1>1, CountedContinues
<1> HIDE DEF row
<1>7. \A r \in LiveRows(quota[u], now) : r \in quota[u] /\ r \in QuotaRow
  BY <1>1 DEF LiveRows, TypeOK
<1>8. ASSUME NEW s \in Tasks, At(s, "quota")'
      PROVE  /\ s # t /\ task'[s] = task[s] /\ At(s, "quota") /\ Working(s)
             /\ Sender(s)' = Sender(s) /\ Sender(s) \in Users
             /\ task[s].quota \in SUBSET QuotaRow
  BY <1>1, <1>2, <1>3, <1>8, LiveFields DEF At, Sender, Working, Pcs
<1>9. ASSUME NEW v \in Users, NEW r \in QuotaRow, Knows(v, r)'
      PROVE  Knows(v, r) \/ (v = u /\ r = row)
  <2>1. CASE r \in quota'[v] BY <1>4, <1>7, <2>1 DEF Knows
  <2>2. CASE \E s \in Tasks : At(s, "quota")' /\ Sender(s)' = v /\ r \in task'[s].quota
    BY <1>8, <2>2 DEF Knows
  <2> QED BY <1>9, <2>1, <2>2 DEF Knows
<1>10. \A y \in found : Knows(u, y) BY <1>1 DEF Knows
<1>11. ASSUME NEW r \in QuotaRow, Knows(u, r), r.id = row.id
       PROVE  r.start = row.start /\ found # {}
  <2>1. r.id # t BY <1>1, <1>11 DEF QuotaInv, RowsAreOld
  <2> QED BY <1>1, <1>6, <1>10, <1>11, <2>1 DEF QuotaInv, RowsKeepStart
<1>12. ASSUME row \in LiveRows({row}, now), found # {}
       PROVE  \E q \in LiveRows(quota[u], now) : q.id = row.id
  <2>1. PICK y \in found : row.id = y.id /\ row.start = y.start BY <1>6, <1>12
  <2>2. y \in LiveRows(found, now) BY <1>12, <2>1 DEF LiveRows
  <2>3. PICK q \in quota[u] : q.id = y.id /\ q.start = y.start
    BY <1>1, <2>2 DEF QuotaInv, LoadedStands
  <2> QED BY <2>1, <2>2, <2>3 DEF LiveRows
<1>13. ASSUME NEW v \in Users, NEW r \in LiveRows(quota'[v], now)
       PROVE  \/ r \in LiveRows(quota[v], now) /\ (v = u => r.id # row.id)
              \/ v = u /\ r = row /\ row \in LiveRows({row}, now)
  BY <1>4, <1>13 DEF LiveRows
<1>14. RowsAreOld'
  <2> SUFFICES ASSUME NEW v \in Users, NEW r \in QuotaRow, Knows(v, r)'
               PROVE  r.id <= received /\ \A s \in Tasks : Working(s)' => s # r.id
    BY <1>1 DEF RowsAreOld
  <2>1. \A s \in Tasks : Working(s)' => s # t /\ Working(s) BY <1>2, <1>3 DEF Working
  <2>2. CASE Knows(v, r) BY <2>1, <2>2 DEF QuotaInv, RowsAreOld
  <2>3. CASE v = u /\ r = row
    <3>1. CASE row.id = t BY <1>1, <2>1, <2>3, <3>1 DEF Numbered
    <3>2. CASE \E y \in found : row.id = y.id
      BY <1>1, <1>10, <2>1, <2>3, <3>2 DEF QuotaInv, RowsAreOld
    <3> QED BY <1>6, <3>1, <3>2
  <2> QED BY <1>9, <2>2, <2>3
<1>15. RowsKeepStart'
  <2> SUFFICES ASSUME NEW v \in Users, NEW r \in QuotaRow, NEW q \in QuotaRow,
                      Knows(v, r)', Knows(v, q)', r.id = q.id
               PROVE  r.start = q.start
    BY DEF RowsKeepStart
  <2>1. CASE Knows(v, r) /\ Knows(v, q) BY <2>1 DEF QuotaInv, RowsKeepStart
  <2>2. CASE v = u /\ (r = row \/ q = row) BY <1>9, <1>11, <2>2
  <2> QED BY <1>9, <2>1, <2>2
<1>16. LoadedStands'
  <2> SUFFICES ASSUME NEW s \in Tasks, At(s, "quota")', NEW r \in LiveRows(task[s].quota, now)
               PROVE  \E q \in quota'[Sender(s)] : q.id = r.id /\ q.start = r.start
    BY <1>1, <1>8 DEF LoadedStands
  <2>1. PICK q \in quota[Sender(s)] : q.id = r.id /\ q.start = r.start
    BY <1>8 DEF QuotaInv, LoadedStands
  <2>2. r \in QuotaRow /\ r \in task[s].quota BY <1>8 DEF LiveRows
  <2>3. CASE Sender(s) # u BY <1>4, <1>8, <2>1, <2>3
  <2>4. CASE Sender(s) = u /\ q.id # row.id
    <3>1. q \in LiveRows(quota[u], now) BY <2>1, <2>4 DEF LiveRows
    <3> QED BY <1>4, <2>1, <2>4, <3>1
  <2>5. CASE Sender(s) = u /\ q.id = row.id
    <3>1. Knows(u, r) BY <1>8, <2>2, <2>5 DEF Knows
    <3>2. row.start = r.start BY <1>11, <2>1, <2>2, <2>5, <3>1
    <3> QED BY <1>4, <2>1, <2>5, <3>2
  <2> QED BY <2>3, <2>4, <2>5
<1>17. OneQuotaRow'
  <2> SUFFICES ASSUME NEW v \in Users, NEW r \in LiveRows(quota'[v], now),
                      NEW q \in LiveRows(quota'[v], now), r # q
               PROVE  r.id \in overtaken[v] \/ q.id \in overtaken[v]
    BY <1>1 DEF OneQuotaRow
  <2>1. CASE r \in LiveRows(quota[v], now) /\ q \in LiveRows(quota[v], now)
    BY <2>1 DEF QuotaInv, OneQuotaRow
  <2>2. ASSUME NEW o \in LiveRows(quota[u], now), o.id # row.id, row \in LiveRows({row}, now)
        PROVE  o.id \in overtaken[u] \/ row.id \in overtaken[u]
    <3>1. CASE found = {}
      <4>1. row.id = t BY <1>6, <3>1
      <4>2. t \in overtaken[u] \/ o.id \in overtaken[u]
        BY <1>1, <2>2, <3>1 DEF QuotaInv, NothingFound
      <4> QED BY <4>1, <4>2
    <3>2. CASE found # {}
      <4>1. PICK p \in LiveRows(quota[u], now) : p.id = row.id BY <1>12, <2>2, <3>2
      <4>2. p # o BY <2>2, <4>1
      <4> QED BY <1>1, <4>1, <4>2 DEF QuotaInv, OneQuotaRow
    <3> QED BY <3>1, <3>2
  <2> QED BY <1>13, <2>1, <2>2
<1>18. NothingFound'
  <2> SUFFICES ASSUME NEW s \in Tasks, At(s, "quota")', s \notin overtaken[Sender(s)],
                      task[s].quota = {}, NEW r \in LiveRows(quota'[Sender(s)], now)
               PROVE  r.id \in overtaken[Sender(s)]
    BY <1>1, <1>8 DEF NothingFound
  <2>1. \A q \in LiveRows(quota[Sender(s)], now) : q.id \in overtaken[Sender(s)]
    BY <1>8 DEF QuotaInv, NothingFound
  <2>2. CASE r \in LiveRows(quota[Sender(s)], now) BY <2>1, <2>2
  <2>3. CASE Sender(s) = u /\ r = row /\ row \in LiveRows({row}, now)
    <3>1. t \in overtaken[u] BY <1>1, <1>8, <2>3, WorkingAlone
    <3>2. found # {} => \E q \in LiveRows(quota[u], now) : q.id = row.id BY <1>12, <2>3
    <3> QED BY <1>6, <2>1, <2>3, <3>1, <3>2
  <2> QED BY <1>8, <1>13, <2>2, <2>3
<1>19. AllSeen'
  <2> SUFFICES ASSUME NEW s \in Tasks, At(s, "quota")', overtaken[Sender(s)] = {}
               PROVE  /\ LiveRows(quota'[Sender(s)], now) \subseteq task[s].quota
                      /\ AtMostOne(task[s].quota)
    BY <1>1, <1>8 DEF AllSeen, AtMostOne
  <2>1. Sender(s) # u BY <1>1, <1>8, WorkingAlone
  <2>2. quota'[Sender(s)] = quota[Sender(s)] BY <1>4, <1>8, <2>1
  <2> QED BY <1>8, <2>2 DEF QuotaInv, AllSeen
<1> QED BY <1>14, <1>15, <1>16, <1>17, <1>18, <1>19 DEF QuotaInv

\* The SELECT finds all the live rows there are.
LEMMA LoadFindsAll ==
    ASSUME TypeOK, NEW t \in Tasks, QuotaLoad(t), At(t, "quota")'
    PROVE  Sender(t)' \in Users /\ task'[t].quota = LiveRows(quota[Sender(t)'], now)
<1>1. task[t].pc # "idle" /\ Sender(t) \in Users /\ task[t] \in LiveTask
  BY LiveFields, LiveTyped DEF QuotaLoad, Begin, At
<1> DEFINE state == [task[t] EXCEPT !.pc = "quota", !.quota = LiveRows(quota[Sender(t)], now)]
<1>2. Goto(t, "answer") => task'[t].pc = "answer" BY <1>1, GotoFrame DEF Pcs, Slow
<1>3. Goto(t, "audit") => task'[t].pc = "audit" BY <1>1, GotoFrame DEF Pcs
<1>4. Hold(t, state) BY <1>2, <1>3 DEF QuotaLoad, At
<1>5. task'[t] = state BY <1>4, HoldFrame
<1>6. state.quota = LiveRows(quota[Sender(t)], now) /\ state.upd = task[t].upd
  BY <1>1 DEF LiveTask
<1> QED BY <1>1, <1>5, <1>6 DEF Sender

\* The invariant of the fixed-window table is inductive.
LEMMA QuotaInvStep ==
    Types /\ LockInv /\ Numbered /\ QuotaInv /\ [Next]_vars => QuotaInv'
<1> SUFFICES ASSUME Types, LockInv, Numbered, QuotaInv, [Next]_vars PROVE QuotaInv' OBVIOUS
<1> USE DEF stores, observed
<1>1. TypeOK /\ TypeOK' /\ now \in Nat /\ received \in Nat /\ received' \in Nat
  BY TypesStep DEF Types, TypeOK
<1>2. ASSUME NEW t \in Tasks, Middleware(t) \/ Raise(t) \/ Handler(t) PROVE QuotaInv'
  <2>1. /\ \A s \in Tasks : s # t => task'[s] = task[s]
        /\ UNCHANGED <<now, received, overtaken>>
    BY <1>1, <1>2, MiddlewareFrame, HandlerFrame, RaiseFrame DEF Frame
  <2>2. \A s \in Tasks : Working(s)' => Working(s)
    <3>1. Working(t)' => Working(t) BY <1>1, <1>2, WorkingBefore
    <3> QED BY <2>1, <3>1 DEF Working
  <2>3. CASE QuotaSave(t) BY <1>1, <2>3, QuotaSaveStep
  <2>4. CASE ~QuotaSave(t)
    <3>1. UNCHANGED quota
      <4>1. CASE Middleware(t) \/ Raise(t) BY <1>1, <4>1, MiddlewareMoves, RaiseFrame
      <4>2. CASE Handler(t)
        BY <2>4, <4>2 DEF Handler, ListUsers, Refresh, Report, Answer, ToggleLoad, ToggleSave,
             RoleLoad, RoleSave, AddCheck, AddLoad, AddSave, AddAudit, SizeAcquire, SizeRelease,
             QuotaLoad
      <4> QED BY <1>2, <4>1, <4>2
    <3>2. At(t, "quota")' => QuotaLoad(t)
      BY <1>1, <1>2, MiddlewareMoves, RaiseMoves, HandlerMoves DEF Early, Loads, At
    <3>3. At(t, "quota")' =>
            Sender(t)' \in Users /\ task'[t].quota = LiveRows(quota[Sender(t)'], now)
      BY <1>1, <3>2, LoadFindsAll
    <3> QED BY <1>1, <2>1, <2>2, <3>1, <3>3, QuotaUntouched
  <2> QED BY <2>3, <2>4
<1>3. ASSUME NEW t \in Tasks, NEW upd \in Sends[t], Receive(t, upd) PROVE QuotaInv'
  <2>1. /\ \A s \in Tasks : s # t => task'[s] = task[s]
        /\ task'[t].pc = "limit" /\ UNCHANGED <<now, quota, overtaken>>
        /\ received' = t /\ t = received + 1
    BY <1>1, <1>3, HoldFrame DEF Receive, Enter
  <2>2. \A s \in Tasks : Working(s)' => Working(s) \/ s > received
    <3>1. t > received BY <1>1, <2>1
    <3>2. \A s \in Tasks : s # t /\ Working(s)' => Working(s) BY <2>1 DEF Working
    <3> QED BY <3>1, <3>2
  <2>3. \A s \in Tasks : At(s, "quota")' => task'[s] = task[s] BY <2>1 DEF At
  <2>4. received <= received' BY <1>1, <2>1
  <2> QED BY <1>1, <2>1, <2>2, <2>3, <2>4, QuotaUntouched
<1>4. CASE OutsideStep \/ UNCHANGED vars
  <2>1. UNCHANGED <<task, quota, received>> /\ (now' = now \/ now' = now + 1)
    BY <1>4 DEF OutsideStep, IsolationExpires, Dismiss, SizeLockExpires, Tick, vars
  <2>2. \A u \in Users : overtaken[u] \subseteq overtaken'[u]
    BY <1>1, <1>4 DEF OutsideStep, IsolationExpires, Dismiss, SizeLockExpires, Tick, vars, TypeOK
  <2>3. \A s \in Tasks : Working(s)' => Working(s) BY <2>1 DEF Working
  <2> QED BY <1>1, <2>1, <2>2, <2>3, QuotaUntouched
<1>5. CASE Crash
  <2>1. UNCHANGED <<now, quota, received, overtaken>> /\ \A s \in Tasks : task'[s].pc = "idle"
    BY <1>5 DEF Crash, Idle
  <2>2. \A s \in Tasks : ~At(s, "quota")' /\ ~Working(s)'
    BY <2>1 DEF At, Working, Pcs, Early, Slow
  <2> QED BY <1>1, <2>1, <2>2, QuotaUntouched
<1> QED BY <1>2, <1>3, <1>4, <1>5, StepKinds

\* At first the table is empty.
LEMMA QuotaInit == Init => QuotaInv
BY DEF Init, QuotaInv, RowsAreOld, RowsKeepStart, LoadedStands, OneQuotaRow, NothingFound,
       AllSeen, Knows, At, Idle, LiveRows

\* From the SELECT of the limiter only its UPDATE goes on to an answer.
LEMMA OnlySaveAnswers ==
    ASSUME TypeOK, Next, NEW t \in Tasks, At(t, "quota"), task'[t].pc = "answer"
    PROVE  QuotaSave(t)
<1>1. ASSUME NEW s \in Tasks, Middleware(s) \/ Raise(s) PROVE FALSE
  <2>1. CASE s = t
    BY <1>1, <2>1, MiddlewareMoves, RaiseMoves DEF At, Early
  <2>2. CASE s # t
    <3>1. task'[t] = task[t] BY <1>1, <2>2, MiddlewareFrame, RaiseFrame DEF Frame
    <3> QED BY <3>1 DEF At
  <2> QED BY <2>1, <2>2
<1>2. ASSUME NEW s \in Tasks, Handler(s) PROVE QuotaSave(t)
  <2>1. CASE s = t
    BY <1>2, <2>1 DEF At, Begin, Handler, ListUsers, Refresh, Report, Answer, ToggleLoad,
       ToggleSave, RoleLoad, RoleSave, AddCheck, AddLoad, AddSave, AddAudit, SizeAcquire,
       SizeRelease, QuotaLoad
  <2>2. CASE s # t
    <3>1. task'[t] = task[t] BY <1>2, <2>2, HandlerFrame DEF Frame
    <3> QED BY <3>1 DEF At
  <2> QED BY <2>1, <2>2
<1>3. ASSUME NEW s \in Tasks, NEW upd \in Sends[s], Receive(s, upd) PROVE FALSE
  <2>1. task'[s].pc = "limit" /\ (s # t => task'[t] = task[t])
    BY <1>3, HoldFrame DEF Receive, Enter
  <2> QED BY <2>1 DEF At
<1>4. CASE OutsideStep \/ UNCHANGED vars
  <2>1. task' = task
    BY <1>4 DEF OutsideStep, IsolationExpires, Dismiss, SizeLockExpires, Tick, vars
  <2> QED BY <2>1 DEF At
<1>5. CASE Crash
  BY <1>5 DEF Crash, Idle
<1> QED BY <1>1, <1>2, <1>3, <1>4, <1>5, StepKinds

\* The upsert of SqlRateLimitRepository makes a second row for a window, which its
\* scalar_one_or_none would not survive, only for a request that has lost its update
\* lock: every request that still has it serialises with the others.
THEOREM QuotaHasOneRow == Spec => []OneQuotaRow
<1>1. QuotaInv => OneQuotaRow BY DEF QuotaInv
<1> QED BY <1>1, QuotaInit, LocksKept, QuotaInvStep, PTL DEF Spec

\* Every request of a window counts, as long as no update of its user outlives its lock:
\* between SELECT and UPDATE nobody else writes the row of that user, so no increment
\* is lost.
THEOREM EveryRequestCounts == Spec => RequestsAreCounted
<1> DEFINE Step == \A t \in Tasks : Live(t) /\ overtaken[Sender(t)] = {} => CountsOne(t)
<1>1. ASSUME Types, QuotaInv, [Next]_vars PROVE [Step]_vars
  <2> SUFFICES ASSUME Next, NEW t \in Tasks, overtaken[Sender(t)] = {}, At(t, "quota"),
                      task'[t].pc = "answer"
               PROVE  \E row \in quota'[Sender(t)] :
                         \A r \in LiveRows(quota[Sender(t)], now) :
                            row = [r EXCEPT !.count = @ + 1]
    BY <1>1 DEF CountsOne
  <2>1. TypeOK BY <1>1 DEF Types
  <2>2. QuotaSave(t) BY <2>1, OnlySaveAnswers
  <2> DEFINE row == Counted(task[t].quota, now, t)
  <2>3. Sender(t) \in Users BY <2>1, LiveFields DEF At
  <2>4. row \in quota'[Sender(t)] BY <2>1, <2>2, <2>3 DEF QuotaSave, Written, TypeOK
  <2>5. /\ LiveRows(quota[Sender(t)], now) \subseteq task[t].quota
        /\ AtMostOne(task[t].quota)
    BY <1>1 DEF QuotaInv, AllSeen
  <2>6. ASSUME NEW r \in LiveRows(quota[Sender(t)], now) PROVE row = [r EXCEPT !.count = @ + 1]
    <3>1. task[t].quota = {r} BY <2>5 DEF AtMostOne
    <3>2. (CHOOSE q \in {r} : TRUE) = r OBVIOUS
    <3> QED BY <3>1, <3>2 DEF Counted
  <2> QED BY <2>4, <2>6
<1> QED BY <1>1, QuotaInit, LocksKept, QuotaInvStep, PTL DEF Spec, RequestsAreCounted

-----------------------------------------------------------------------------
(***************************************************************************)
(* The sorted sets, and the sliding window they implement.                 *)
(***************************************************************************)

\* Redis holds every admission that is still in the window, and nothing else; a
\* task that is about to count itself still has room.
LimitInv ==
    /\ IsFiniteSet(admitted)
    /\ \A k \in Keys : \A e \in hits[k] : e \in admitted /\ e.key = k
    /\ \A e \in admitted : e.at <= now /\ (e.at + Window > now => e \in hits[e.key])
    /\ \A t \in Tasks : At(t, "increment") => HasRoom(hits[Key(t)], now)

\* The trimmed set is the sliding window that ends now.
LEMMA TrimIsWindow ==
    ASSUME TypeOK, LimitInv, NEW k \in Keys
    PROVE  Limit!InWindow(k, now) = Trim(hits[k], now)
BY DEF LimitInv, TypeOK, Limit!InWindow, Trim

\* Fewer entries leave at least as much room.
LEMMA RoomStays ==
    ASSUME LimitInv, NEW k \in Keys, HasRoom(hits[k], now), NEW fewer,
           fewer \subseteq Trim(hits[k], now)
    PROVE  Cardinality(fewer) < MaxRequests
<1>1. IsFiniteSet(Trim(hits[k], now))
  <2>1. Trim(hits[k], now) \subseteq admitted BY DEF Trim, LimitInv
  <2> QED BY <2>1, FS_Subset DEF LimitInv
<1>2. /\ IsFiniteSet(fewer) /\ Cardinality(fewer) <= Cardinality(Trim(hits[k], now))
      /\ Cardinality(fewer) \in Nat /\ Cardinality(Trim(hits[k], now)) \in Nat
  BY <1>1, FS_Subset, FS_CardinalityType
<1> QED BY <1>2, RateLimitAssumption DEF HasRoom

\* A step that only lets entries expire or trims them.
LEMMA LimitTrims ==
    ASSUME TypeOK, LimitInv, TypeOK', UNCHANGED admitted, now <= now',
           \A k \in Keys : hits'[k] = hits[k] \/ hits'[k] = Trim(hits[k], now),
           now' # now => hits' = hits,
           \A t \in Tasks :
              At(t, "increment")' =>
                 /\ Key(t)' \in Keys
                 /\ HasRoom(hits[Key(t)'], now)
    PROVE  LimitInv'
<1>1. \A k \in Keys : \A e \in hits'[k] : e \in hits[k] BY DEF Trim
<1>2. ASSUME NEW e \in admitted
      PROVE  e.at <= now' /\ (e.at + Window > now' => e \in hits'[e.key])
  <2>1. /\ e.at \in Nat /\ e.key \in Keys /\ now \in Nat /\ now' \in Nat
        /\ e.at <= now /\ (e.at + Window > now => e \in hits[e.key])
    BY DEF TypeOK, Entry, LimitInv
  <2> QED BY <2>1, RateLimitAssumption DEF Trim
<1>3. ASSUME NEW t \in Tasks, At(t, "increment")' PROVE HasRoom(hits[Key(t)], now)'
  <2> DEFINE k == Key(t)'
  <2>1. k \in Keys /\ HasRoom(hits[k], now) BY <1>3
  <2>2. Trim(hits'[k], now') \subseteq Trim(hits[k], now)
    <3>1. \A e \in hits[k] : e.at \in Nat BY <2>1 DEF TypeOK, Entry
    <3>2. now \in Nat /\ now' \in Nat BY DEF TypeOK
    <3> QED BY <1>1, <2>1, <3>1, <3>2, RateLimitAssumption DEF Trim
  <2>3. Cardinality(Trim(hits'[k], now')) < MaxRequests BY <2>1, <2>2, RoomStays
  <2> QED BY <2>3 DEF HasRoom
<1>4. \A k \in Keys : \A e \in hits'[k] : e \in admitted' /\ e.key = k
  BY <1>1 DEF LimitInv
<1> QED BY <1>2, <1>3, <1>4 DEF LimitInv

\* The check.
LEMMA LimitCheckStep ==
    ASSUME TypeOK, LimitInv, TypeOK', NEW t \in Tasks, LimitCheck(t)
    PROVE  LimitInv'
<1>1. task[t].pc # "idle" /\ Key(t) \in Keys BY LiveFields DEF LimitCheck, At
<1>2. (\A s \in Tasks : s # t => task'[s] = task[s]) /\ UNCHANGED <<now, admitted>>
  BY MiddlewareFrame DEF Middleware, LimitCheck, Frame, observed
<1>3. \A k \in Keys : hits'[k] = hits[k] \/ hits'[k] = Trim(hits[k], now)
  BY <1>1 DEF LimitCheck, TypeOK
<1>4. ASSUME NEW s \in Tasks, At(s, "increment")'
      PROVE  Key(s)' \in Keys /\ HasRoom(hits[Key(s)'], now)
  <2>1. CASE s # t
    <3>1. task'[s] = task[s] BY <1>2, <2>1
    <3>2. At(s, "increment") /\ Key(s)' = Key(s) BY <1>4, <3>1 DEF At, Key, Sender, Kind
    <3> QED BY <3>2, LiveFields DEF LimitInv, At
  <2>2. CASE s = t
    <3>1. ~End(t) BY <1>4, <2>2, HoldFrame DEF End, Idle, At
    <3>2. Goto(t, "increment") /\ HasRoom(hits[Key(t)], now) BY <3>1 DEF LimitCheck
    <3>3. task'[t].upd = task[t].upd BY <1>1, <3>2, GotoFrame DEF Pcs, Early
    <3>4. Key(t)' = Key(t) BY <3>3 DEF Key, Sender, Kind
    <3> QED BY <1>1, <2>2, <3>2, <3>4
  <2> QED BY <2>1, <2>2
<1>5. now \in Nat BY DEF TypeOK
<1> QED BY <1>2, <1>3, <1>4, <1>5, LimitTrims

\* The increment: no other task of the key is in the middle of its own.
LEMMA LimitIncrementStep ==
    ASSUME TypeOK, LockInv, LimitInv, NEW t \in Tasks, LimitIncrement(t)
    PROVE  LimitInv' /\ Limit!Admit
<1> DEFINE k == Key(t)
           entry == [key |-> k, at |-> now, serial |-> t]
<1>1. task[t].pc # "idle" /\ k \in Keys /\ At(t, "increment")
  BY LiveFields DEF LimitIncrement, At
<1>2. /\ \A s \in Tasks : s # t => task'[s] = task[s]
      /\ UNCHANGED now /\ now \in Nat /\ task'[t].pc = "auth"
  BY <1>1, GotoFrame DEF LimitIncrement, Pcs, Early, TypeOK
<1>3. /\ admitted' = admitted \cup {entry}
      /\ hits'[k] = Trim(hits[k], now) \cup {entry}
      /\ \A q \in Keys : q # k => hits'[q] = hits[q]
  BY <1>1 DEF LimitIncrement, Added, TypeOK
<1>4. IsFiniteSet(admitted') BY <1>3, FS_AddElement DEF LimitInv
<1>5. \A q \in Keys : \A e \in hits'[q] : e \in admitted' /\ e.key = q
  BY <1>3 DEF LimitInv, Trim
<1>6. ASSUME NEW e \in admitted'
      PROVE  e.at <= now' /\ (e.at + Window > now' => e \in hits'[e.key])
  <2>1. CASE e = entry BY <1>1, <1>2, <1>3, <2>1
  <2>2. CASE e \in admitted
    <3>1. e.key \in Keys BY <2>2 DEF TypeOK, Entry
    <3> QED BY <1>2, <1>3, <2>2, <3>1 DEF LimitInv, Trim
  <2> QED BY <1>3, <2>1, <2>2
<1>7. ASSUME NEW s \in Tasks, At(s, "increment")' PROVE HasRoom(hits[Key(s)], now)'
  <2>1. s # t /\ task'[s] = task[s] BY <1>2, <1>7 DEF At
  <2>2. At(s, "increment") /\ Key(s)' = Key(s) BY <1>7, <2>1 DEF At, Key, Sender, Kind
  <2>3. Key(s) \in Keys BY <2>2, LiveFields DEF At
  <2>4. Sender(s) # Sender(t) BY <1>1, <2>1, <2>2 DEF LockInv, At
  <2>5. Key(s) # k BY <2>4 DEF Key
  <2> QED BY <1>2, <1>3, <2>2, <2>3, <2>5 DEF LimitInv, HasRoom
<1>8. Limit!Admit
  <2>1. Cardinality(Limit!InWindow(k, now)) < MaxRequests
    BY <1>1, TrimIsWindow DEF LimitInv, HasRoom
  <2>2. Limit!Cardinality(Limit!InWindow(k, now)) = Cardinality(Limit!InWindow(k, now))
    BY DEF Cardinality, Limit!Cardinality
  <2> QED BY <1>1, <1>2, <1>3, <2>1, <2>2 DEF Limit!Admit
<1> QED BY <1>4, <1>5, <1>6, <1>7, <1>8 DEF LimitInv

\* A step that changes neither Redis' sets nor the clock.
LEMMA LimitUntouched ==
    ASSUME TypeOK, LimitInv, UNCHANGED <<hits, admitted, now>>,
           \A s \in Tasks : task'[s] = task[s] \/ task'[s].pc # "increment"
    PROVE  LimitInv'
<1>1. ASSUME NEW s \in Tasks, At(s, "increment")' PROVE HasRoom(hits[Key(s)], now)'
  <2>1. task'[s] = task[s] BY <1>1 DEF At
  <2>2. At(s, "increment") /\ Key(s)' = Key(s) BY <1>1, <2>1 DEF At, Key, Sender, Kind
  <2> QED BY <2>2 DEF LimitInv, HasRoom
<1> QED BY <1>1 DEF LimitInv

\* The invariant of the sorted sets is inductive.
LEMMA LimitInvStep ==
    Types /\ LockInv /\ LimitInv /\ [Next]_vars
      => LimitInv' /\ [Limit!Next]_<<now, admitted>>
<1> SUFFICES ASSUME Types, LockInv, LimitInv, [Next]_vars
             PROVE  LimitInv' /\ [Limit!Next]_<<now, admitted>>
  OBVIOUS
<1>1. TypeOK /\ TypeOK' /\ now \in Nat BY TypesStep DEF Types, TypeOK
<1>2. CASE \E t \in Tasks : LimitCheck(t)
  BY <1>1, <1>2, LimitCheckStep DEF LimitCheck, observed
<1>3. CASE \E t \in Tasks : LimitIncrement(t)
  BY <1>1, <1>3, LimitIncrementStep DEF Limit!Next
<1>4. ASSUME NEW t \in Tasks, Middleware(t) \/ Handler(t) \/ Raise(t),
             ~LimitCheck(t), ~LimitIncrement(t)
      PROVE  LimitInv' /\ UNCHANGED <<now, admitted>>
  <2>1. (\A s \in Tasks : s # t => task'[s] = task[s]) /\ UNCHANGED now
    BY <1>1, <1>4, MiddlewareFrame, HandlerFrame, RaiseFrame DEF Frame
  <2>2. UNCHANGED <<hits, admitted>>
    <3>1. CASE Middleware(t)
      BY <1>4, <3>1 DEF Middleware, AuthCached, AuthAsk, AuthStore, AuthWhitelist, Deny, Audit,
           stores, observed
    <3>2. CASE Handler(t) BY <1>1, <3>2, HandlerFrame
    <3>3. CASE Raise(t) BY <3>3 DEF Raise, stores, observed
    <3> QED BY <1>4, <3>1, <3>2, <3>3
  <2>3. task'[t].pc # "increment"
    <3>1. CASE Middleware(t)
      <4>1. task[t].pc # "idle" BY <1>1, <3>1, MiddlewareMoves DEF Early
      <4>2. End(t) => task'[t].pc = "idle" BY <1>1, HoldFrame DEF End, Idle
      <4>3. CASE ~End(t)
        <5>1. \E p \in {"ask", "answered", "whitelist", "handle", "denied"} :
                Goto(t, p) \/ \E who : Hold(t, [task[t] EXCEPT !.pc = p, !.who = who])
          BY <1>4, <3>1, <4>3 DEF Middleware, AuthCached, AuthAsk, AuthStore, AuthWhitelist,
               Deny, Audit, Decide, Authenticated
        <5>2. \A p \in {"ask", "answered", "whitelist", "handle", "denied"} :
                p \in Pcs /\ p # "increment"
          BY DEF Pcs, Early
        <5> QED BY <1>1, <4>1, <5>1, <5>2, GotoFrame
      <4> QED BY <4>2, <4>3
    <3>2. CASE Handler(t) BY <1>1, <3>2, HandlerMoves DEF Early
    <3>3. CASE Raise(t) BY <1>1, <3>3, RaiseMoves
    <3> QED BY <1>4, <3>1, <3>2, <3>3
  <2> QED BY <1>1, <2>1, <2>2, <2>3, LimitUntouched
<1>5. ASSUME NEW t \in Tasks, NEW upd \in Sends[t], Receive(t, upd)
      PROVE  LimitInv' /\ UNCHANGED <<now, admitted>>
  <2>1. /\ \A s \in Tasks : s # t => task'[s] = task[s]
        /\ task'[t].pc = "limit" /\ UNCHANGED <<now, hits, admitted>>
    BY <1>1, <1>5, HoldFrame DEF Receive, Enter, stores, observed
  <2> QED BY <1>1, <2>1, LimitUntouched
<1>6. CASE Tick
  <2>1. UNCHANGED <<task, hits, admitted>> /\ now' = now + 1
    BY <1>6 DEF Tick, stores, observed
  <2>2. \A s \in Tasks : At(s, "increment")' =>
          Key(s)' \in Keys /\ HasRoom(hits[Key(s)'], now)
    BY <1>1, <2>1, LiveFields DEF LimitInv, At, Key, Sender, Kind
  <2>3. LimitInv' BY <1>1, <2>1, <2>2, LimitTrims
  <2> QED BY <2>1, <2>3 DEF Limit!Next, Limit!Tick
<1>7. CASE (\E u \in Users : IsolationExpires(u) \/ Dismiss(u)) \/ SizeLockExpires \/ UNCHANGED vars
  <2>1. UNCHANGED <<task, hits, admitted, now>>
    BY <1>7 DEF IsolationExpires, Dismiss, SizeLockExpires, vars, stores, observed
  <2> QED BY <1>1, <2>1, LimitUntouched
<1>8. CASE Crash
  <2>1. UNCHANGED <<hits, admitted, now>> /\ \A s \in Tasks : task'[s].pc # "increment"
    BY <1>8 DEF Crash, stores, Idle
  <2> QED BY <1>1, <2>1, LimitUntouched
<1> QED BY <1>2, <1>3, <1>4, <1>5, <1>6, <1>7, <1>8, StepKinds DEF OutsideStep

\* RateLimitMiddleware with RedisRateLimitRepository implements the sliding window:
\* between check_limit and increment, two scripts with an await in between, the
\* user's update lock lets no other update of the key in.
THEOREM LimiterImplementsWindow == Spec => KeepsSlidingWindow
<1>1. Init => LimitInv /\ Limit!Init
  <2>1. Init => Limit!Init BY DEF Init, Limit!Init
  <2>2. Init => LimitInv BY FS_EmptySet DEF Init, LimitInv, At, Idle
  <2> QED BY <2>1, <2>2
<1> QED BY <1>1, LocksKept, LimitInvStep, PTL DEF Spec, KeepsSlidingWindow, Limit!Spec, Limit!vars

\* What the sliding window promises, with the updates' tasks for its serials.
Promise == INSTANCE SlidingWindowProofs WITH Serials <- Tasks

\* So no user gets more than MaxRequests updates of one command through in any
\* period of length Window: what the configuration says of the rate limit
\* (RateLimitMiddleware).
THEOREM LimitIsKept == Spec => []Promise!LimitKept
<1>1. Promise!Parameters BY RateLimitAssumption DEF Promise!Parameters
<1>2. Promise!Spec => []Promise!LimitKept BY <1>1, Promise!SlidingWindowLimits
<1>3. KeepsSlidingWindow => Promise!Spec
  <2>1. Limit!Init => Promise!Init BY DEF Limit!Init, Promise!Init
  <2>2. [Limit!Next]_<<now, admitted>> => [Promise!Next]_<<now, admitted>>
    <3>1. \A S : Limit!Cardinality(S) = Promise!Cardinality(S)
      BY DEF Limit!Cardinality, Promise!Cardinality
    <3> QED BY <3>1 DEF Limit!Next, Limit!Admit, Limit!Tick, Limit!InWindow,
             Promise!Next, Promise!Admit, Promise!Tick, Promise!InWindow
  <2> QED BY <2>1, <2>2, PTL
       DEF KeepsSlidingWindow, Limit!Spec, Limit!vars, Promise!Spec, Promise!vars
<1> QED BY <1>2, <1>3, LimiterImplementsWindow, PTL
-----------------------------------------------------------------------------
\* The administrator's rights of u, now or lost at a time that a cache lifetime
\* carries past "since".
Entitled(u, since) ==
    \/ Authority(u, admins, users)
    \/ \E at \in revoked[u] : at + Ttl > since

\* Where a task has passed its handler's check for an administrator.
Granted == {"toggle", "role", "addLoad", "addSave"}

TaskRights(t) ==
    Live(t) =>
      /\ task[t].begun <= now
      /\ IsAdmin(task[t].who) => Entitled(Sender(t), task[t].begun)
      /\ task[t].pc \in Granted => IsAdmin(task[t].who)
      /\ At(t, "answered") /\ IsAdmin(task[t].who) =>
           Authority(Sender(t), admins, users) \/ now \in revoked[Sender(t)]

\* A cached "yes" was true when it came, and lives for Ttl at most from then.
CacheRights(u) ==
    /\ cache[u].until <= now + Ttl
    /\ cache[u].admin =>
         \/ Authority(u, admins, users)
         \/ \E at \in revoked[u] : at + Ttl >= cache[u].until

RightsInv == (\A t \in Tasks : TaskRights(t)) /\ (\A u \in Users : CacheRights(u))

\* Rights that were lost, and when, are never forgotten.
LEMMA RevokedGrows ==
    ASSUME TypeOK, [Next]_vars, NEW u \in Users
    PROVE  /\ revoked[u] \subseteq revoked'[u]
           /\ Authority(u, admins, users) /\ ~Authority(u, admins, users)' => now \in revoked'[u]
<1> USE DEF stores, observed, telegram
<1>1. ASSUME NEW chat, NEW table, Observe(chat, table)
      PROVE  /\ revoked[u] \subseteq revoked'[u]
             /\ Authority(u, admins, users) /\ ~Authority(u, chat, table) => now \in revoked'[u]
  BY <1>1 DEF Observe
<1>2. CASE UNCHANGED <<users, admins, revoked>> BY <1>2 DEF Authority
<1>3. CASE \E t \in Tasks : Handler(t) /\ ~UNCHANGED <<users, revoked>>
  <2>1. UNCHANGED admins BY <1>3, HandlerFrame DEF Frame
  <2>2. \E t \in Tasks : \E row : Write(t, Target(t), row)
    <3>1. PICK t \in Tasks : Handler(t) /\ ~UNCHANGED <<users, revoked>> BY <1>3
    <3>2. ToggleSave(t) \/ RoleSave(t) \/ AddSave(t)
      BY <3>1 DEF Handler, ListUsers, Refresh, Report, Answer, ToggleLoad, RoleLoad,
              AddCheck, AddLoad, AddAudit, SizeAcquire, SizeRelease, QuotaLoad, QuotaSave
    <3> QED BY <3>1, <3>2 DEF ToggleSave, RoleSave, AddSave
  <2> QED BY <1>1, <2>1, <2>2 DEF Write, Authority
<1>4. CASE \E v \in Users : Dismiss(v)
  BY <1>1, <1>4 DEF Dismiss, Authority
<1>5. \/ UNCHANGED <<users, admins, revoked>>
      \/ \E t \in Tasks : Handler(t) /\ ~UNCHANGED <<users, revoked>>
      \/ \E v \in Users : Dismiss(v)
  <2>1. CASE \E t \in Tasks : Middleware(t)
    BY <2>1, MiddlewareFrame, MiddlewareMoves DEF Frame
  <2>2. CASE \E t \in Tasks : Handler(t)
    BY <2>2, HandlerFrame DEF Frame
  <2>3. CASE \E t \in Tasks : Raise(t) BY <2>3 DEF Raise
  <2>4. CASE \E t \in Tasks : \E upd \in Sends[t] : Receive(t, upd) BY <2>4 DEF Receive, Enter
  <2>5. CASE OutsideStep
    BY <2>5 DEF OutsideStep, IsolationExpires, SizeLockExpires, Tick
  <2>6. CASE Crash \/ UNCHANGED vars BY <2>6 DEF Crash, vars
  <2> QED BY <2>1, <2>2, <2>3, <2>4, <2>5, <2>6, StepKinds
<1> QED BY <1>2, <1>3, <1>4, <1>5

\* Whoever loses the rights, loses them now, and now is no later than their end.
LEMMA EntitledStays ==
    ASSUME TypeOK, [Next]_vars, NEW u \in Users, NEW since \in Nat, since <= now,
           Entitled(u, since)
    PROVE  Entitled(u, since)'
<1>1. revoked[u] \subseteq revoked'[u] BY RevokedGrows
<1>2. CASE Authority(u, admins, users)
  <2>1. now \in revoked'[u] => \E at \in revoked'[u] : at + Ttl > since
    BY UpdatePipelineAssumption DEF TypeOK
  <2> QED BY <1>2, <2>1, RevokedGrows DEF Entitled
<1>3. CASE ~Authority(u, admins, users) BY <1>1, <1>3 DEF Entitled
<1> QED BY <1>2, <1>3

\* A cached answer that stays, stays as good as it was.
LEMMA CacheStays ==
    ASSUME TypeOK, [Next]_vars, NEW u \in Users, CacheRights(u), cache'[u] = cache[u],
           now' \in Nat, now <= now'
    PROVE  CacheRights(u)'
<1>1. revoked[u] \subseteq revoked'[u] BY RevokedGrows
<1>2. now \in Nat /\ cache[u].until \in Nat /\ Ttl \in Nat
  BY UpdatePipelineAssumption DEF TypeOK
<1>3. cache'[u].until <= now' + Ttl BY <1>2 DEF CacheRights
<1>4. CASE Authority(u, admins, users)
  <2>1. now \in revoked'[u] => \E at \in revoked'[u] : at + Ttl >= cache[u].until
    BY <1>2 DEF CacheRights
  <2> QED BY <1>3, <1>4, <2>1, RevokedGrows DEF CacheRights
<1>5. CASE ~Authority(u, admins, users) BY <1>1, <1>3, <1>5 DEF CacheRights
<1> QED BY <1>4, <1>5

\* A task that a step does not touch stays entitled to what it was.
LEMMA OthersKeepRights ==
    ASSUME TypeOK, [Next]_vars, NEW s \in Tasks, TaskRights(s), task'[s] = task[s],
           now' \in Nat, now <= now', At(s, "answered") => now' = now
    PROVE  TaskRights(s)'
<1> SUFFICES ASSUME Live(s)' PROVE TaskRights(s)' BY DEF TaskRights
<1>1. Live(s) /\ Sender(s)' = Sender(s) /\ (At(s, "answered")' <=> At(s, "answered"))
  BY DEF Live, Sender, At
<1>2. /\ Sender(s) \in Users /\ task[s].begun \in Nat /\ now \in Nat
      /\ task[s].begun <= now
  BY <1>1, LiveFields DEF Live, TypeOK, TaskRights
<1>3. IsAdmin(task'[s].who) => Entitled(Sender(s), task[s].begun)'
  BY <1>1, <1>2, EntitledStays DEF TaskRights
<1>4. task'[s].begun <= now' BY <1>2
<1>5. At(s, "answered") /\ IsAdmin(task[s].who) =>
        Authority(Sender(s), admins, users)' \/ now' \in revoked'[Sender(s)]
  BY <1>1, <1>2, RevokedGrows DEF TaskRights
<1> QED BY <1>1, <1>3, <1>4, <1>5 DEF TaskRights, Entitled

\* The task that made the step: what it must have for its new stage.
LEMMA OwnRights ==
    ASSUME TypeOK, [Next]_vars, NEW t \in Tasks, TaskRights(t), Frame(t), task[t].pc # "idle",
           task'[t].pc # "idle" =>
             /\ IsAdmin(task'[t].who) => Entitled(Sender(t), task[t].begun)
             /\ task'[t].pc \in Granted => IsAdmin(task'[t].who)
             /\ task'[t].pc = "answered" /\ IsAdmin(task'[t].who) =>
                  Authority(Sender(t), admins, users)
    PROVE  TaskRights(t)'
<1> SUFFICES ASSUME Live(t)' PROVE TaskRights(t)' BY DEF TaskRights
<1>1. /\ task'[t].pc # "idle" /\ task'[t].begun = task[t].begun
      /\ Sender(t)' = Sender(t) /\ now' = now
  <2>1. ~End(t) BY HoldFrame DEF End, Idle, Live
  <2> QED BY <2>1 DEF Frame, Live, Sender
<1>2. /\ Sender(t) \in Users /\ task[t].begun \in Nat /\ now \in Nat
      /\ task[t].begun <= now
  BY LiveFields DEF TypeOK, TaskRights, Live
<1>3. IsAdmin(task'[t].who) => Entitled(Sender(t), task[t].begun)'
  BY <1>1, <1>2, EntitledStays
<1>4. At(t, "answered")' /\ IsAdmin(task'[t].who) =>
        Authority(Sender(t), admins, users)' \/ now \in revoked'[Sender(t)]
  BY <1>1, <1>2, RevokedGrows DEF At
<1> QED BY <1>1, <1>2, <1>3, <1>4 DEF TaskRights, Entitled

\* A task that moves on keeps the principal it was given.
LEMMA GotoWho ==
    ASSUME TypeOK, NEW t \in Tasks, task[t].pc # "idle", NEW p, Goto(t, p)
    PROVE  task'[t].who = task[t].who /\ task'[t].pc = p
<1>1. task[t] \in LiveTask BY LiveTyped
<1>2. /\ [task[t] EXCEPT !.pc = p].who = task[t].who
      /\ [task[t] EXCEPT !.pc = p].pc = p
  BY <1>1 DEF LiveTask
<1> QED BY <1>2, HoldFrame DEF Goto

\* A task that is given a principal holds that one.
LEMMA HoldWho ==
    ASSUME TypeOK, NEW t \in Tasks, task[t].pc # "idle", NEW p, NEW who,
           Hold(t, [task[t] EXCEPT !.pc = p, !.who = who])
    PROVE  task'[t].who = who /\ task'[t].pc = p
<1> DEFINE state == [task[t] EXCEPT !.pc = p, !.who = who]
<1>1. task[t] \in LiveTask BY LiveTyped
<1>2. state.who = who /\ state.pc = p BY <1>1 DEF LiveTask
<1>3. task'[t] = state BY HoldFrame
<1> QED BY <1>2, <1>3

\* The principal that authentication hands to the task.
LEMMA AuthenticatedWho ==
    ASSUME TypeOK, NEW t \in Tasks, task[t].pc # "idle", NEW user, Authenticated(t, user)
    PROVE  task'[t].who = user /\ task'[t].pc \in {"handle", "denied"}
BY HoldWho DEF Authenticated

\* The validator's steps: a cached answer, Telegram's, and the table's.
LEMMA AuthRights ==
    ASSUME TypeOK, RightsInv, [Next]_vars, NEW t \in Tasks,
           AuthCached(t) \/ AuthAsk(t) \/ AuthStore(t) \/ AuthWhitelist(t)
    PROVE  TaskRights(t)' /\ (\A u \in Users : CacheRights(u)')
<1> USE DEF locks, stores, telegram, observed
<1>1. /\ task[t].pc # "idle" /\ Frame(t) /\ TaskRights(t) /\ UNCHANGED now
      /\ now \in Nat /\ Sender(t) \in Users /\ task[t].begun \in Nat
      /\ task[t].begun <= now
  <2>1. task[t].pc # "idle" BY DEF AuthCached, AuthAsk, AuthStore, AuthWhitelist, At
  <2>2. Frame(t) BY MiddlewareFrame DEF Middleware
  <2> QED BY <2>1, <2>2, LiveFields DEF RightsInv, TaskRights, Live, Frame, TypeOK
<1>2. ~IsAdmin(NoUserRow) BY DEF IsAdmin, NoUserRow
<1>3. CASE AuthCached(t)
  <2>1. \A u \in Users : CacheRights(u)'
    BY <1>1, <1>3, CacheStays DEF AuthCached, RightsInv
  <2>2. CASE FromCache(Sender(t)) /\ cache[Sender(t)].admin /\ Authenticated(t, Administrator)
    <3>1. Entitled(Sender(t), task[t].begun)
      <4>1. now < cache[Sender(t)].until /\ CacheRights(Sender(t))
        BY <1>1, <2>2 DEF FromCache, RightsInv
      <4>2. cache[Sender(t)].until \in Nat /\ revoked[Sender(t)] \subseteq Nat /\ Ttl \in Nat
        BY <1>1, UpdatePipelineAssumption DEF TypeOK
      <4>3. ASSUME NEW at \in revoked[Sender(t)], at + Ttl >= cache[Sender(t)].until
            PROVE  at + Ttl > task[t].begun
        BY <1>1, <4>1, <4>2, <4>3
      <4> QED BY <2>2, <4>1, <4>3 DEF CacheRights, Entitled
    <3>2. task'[t].pc \in {"handle", "denied"} BY <1>1, <2>2, AuthenticatedWho
    <3> QED BY <1>1, <2>1, <3>1, <3>2, OwnRights DEF Granted
  <2>3. CASE Goto(t, "whitelist") \/ Goto(t, "ask")
    <3>1. task'[t].who = task[t].who /\ task'[t].pc \in {"whitelist", "ask"}
      BY <1>1, <2>3, GotoWho
    <3> QED BY <1>1, <2>1, <3>1, OwnRights DEF TaskRights, Live, Granted
  <2> QED BY <1>3, <2>2, <2>3 DEF AuthCached, Decide
<1>4. CASE AuthAsk(t)
  <2>1. \A u \in Users : CacheRights(u)'
    BY <1>1, <1>4, CacheStays DEF AuthAsk, RightsInv
  <2>2. CASE Hold(t, [task[t] EXCEPT !.pc = "answered",
                       !.who = IF Sender(t) \in admins THEN Administrator ELSE NoUserRow])
    <3>1. /\ task'[t].who = IF Sender(t) \in admins THEN Administrator ELSE NoUserRow
          /\ task'[t].pc = "answered"
      BY <1>1, <2>2, HoldWho
    <3>2. IsAdmin(task'[t].who) => Authority(Sender(t), admins, users)
      BY <1>2, <3>1 DEF Authority
    <3> QED BY <1>1, <2>1, <3>1, <3>2, OwnRights DEF Entitled, Granted
  <2>3. CASE Goto(t, "whitelist")
    <3>1. task'[t].who = task[t].who /\ task'[t].pc = "whitelist" BY <1>1, <2>3, GotoWho
    <3> QED BY <1>1, <2>1, <3>1, OwnRights DEF TaskRights, Live, Granted
  <2> QED BY <1>4, <2>2, <2>3 DEF AuthAsk
<1>5. CASE AuthStore(t)
  <2>1. /\ UNCHANGED <<admins, users, revoked>>
        /\ cache'[Sender(t)] = [admin |-> IsAdmin(task[t].who), until |-> now + Ttl]
        /\ \A u \in Users : u # Sender(t) => cache'[u] = cache[u]
    BY <1>1, <1>5 DEF AuthStore, TypeOK
  <2>2. PICK u \in Users : u = Sender(t) BY <1>1
  <2>3. \A v \in Users : CacheRights(v)'
    <3>1. cache'[u].until <= now' + Ttl
      BY <1>1, <2>1, <2>2, UpdatePipelineAssumption
    <3>2. IsAdmin(task[t].who) =>
            \/ Authority(u, admins, users)
            \/ \E at \in revoked[u] : at + Ttl >= now + Ttl
      BY <1>1, <1>5, <2>2, UpdatePipelineAssumption DEF AuthStore, TaskRights, Live, At
    <3>3. CacheRights(u)' BY <1>1, <2>1, <2>2, <3>1, <3>2 DEF CacheRights
    <3> QED BY <1>1, <2>1, <2>2, <3>3, CacheStays DEF RightsInv
  <2>4. CASE IsAdmin(task[t].who) /\ Authenticated(t, Administrator)
    <3>1. task'[t].pc \in {"handle", "denied"} BY <1>1, <2>4, AuthenticatedWho
    <3> QED BY <1>1, <2>3, <2>4, <3>1, OwnRights DEF TaskRights, Live, Granted
  <2>5. CASE Goto(t, "whitelist")
    <3>1. task'[t].who = task[t].who /\ task'[t].pc = "whitelist" BY <1>1, <2>5, GotoWho
    <3> QED BY <1>1, <2>3, <3>1, OwnRights DEF TaskRights, Live, Granted
  <2> QED BY <1>5, <2>4, <2>5 DEF AuthStore, Decide
<1>6. CASE AuthWhitelist(t)
  <2>1. \A u \in Users : CacheRights(u)'
    BY <1>1, <1>6, CacheStays DEF AuthWhitelist, RightsInv
  <2>2. CASE users[Sender(t)].active /\ Authenticated(t, users[Sender(t)])
    <3>1. task'[t].who = users[Sender(t)] /\ task'[t].pc \in {"handle", "denied"}
      BY <1>1, <2>2, AuthenticatedWho
    <3>2. IsAdmin(task'[t].who) => Authority(Sender(t), admins, users)
      BY <2>2, <3>1 DEF Authority
    <3> QED BY <1>1, <2>1, <3>1, <3>2, OwnRights DEF Entitled, Granted
  <2>3. CASE End(t)
    <3>1. task'[t].pc = "idle" BY <2>3, HoldFrame DEF End, Idle
    <3> QED BY <1>1, <2>1, <3>1, OwnRights
  <2> QED BY <1>6, <2>2, <2>3 DEF AuthWhitelist
<1> QED BY <1>3, <1>4, <1>5, <1>6

\* Handlers check the principal that the middlewares found before they write.
LEMMA HandlerRights ==
    ASSUME TypeOK, RightsInv, [Next]_vars, NEW t \in Tasks, Handler(t)
    PROVE  TaskRights(t)'
<1>1. task[t].pc # "idle"
  BY HandlerLive
<1>2. Frame(t) /\ TaskRights(t) BY HandlerFrame DEF RightsInv
<1>3. task'[t].who = task[t].who /\ task'[t].pc # "answered"
  BY HandlerMoves DEF Early
<1>4. task'[t].pc \in Granted => IsAdmin(task[t].who)
  <2>1. ASSUME NEW p, p \in Granted, task'[t].pc = p PROVE ~Goto(t, "answer")
    <3>1. Goto(t, "answer") => task'[t].pc = "answer" BY <1>1, GotoWho
    <3> QED BY <2>1, <3>1 DEF Granted
  <2>2. CASE task'[t].pc = "toggle"
    <3>1. ToggleLoad(t) BY <2>2, HandlerMoves DEF Loads
    <3> QED BY <2>1, <2>2, <3>1 DEF ToggleLoad, AsAdmin, Granted
  <2>3. CASE task'[t].pc = "role"
    <3>1. RoleLoad(t) BY <2>3, HandlerMoves DEF Loads
    <3> QED BY <2>1, <2>3, <3>1 DEF RoleLoad, AsAdmin, Granted
  <2>4. CASE task'[t].pc = "addLoad"
    <3>1. AddCheck(t) BY <2>4, HandlerMoves DEF Loads
    <3> QED BY <2>1, <2>4, <3>1 DEF AddCheck, AsAdmin, Granted
  <2>5. CASE task'[t].pc = "addSave"
    <3>1. AddLoad(t) BY <2>5, HandlerMoves DEF Loads
    <3> QED BY <1>2, <3>1 DEF AddLoad, At, TaskRights, Live, Granted
  <2> QED BY <2>2, <2>3, <2>4, <2>5 DEF Granted
<1> QED BY <1>1, <1>2, <1>3, <1>4, OwnRights DEF TaskRights, Live

\* The invariant of the rights is inductive.
LEMMA RightsInvStep == Types /\ RightsInv /\ [Next]_vars => RightsInv'
<1> SUFFICES ASSUME Types, RightsInv, [Next]_vars PROVE RightsInv' OBVIOUS
<1> USE DEF locks, stores, telegram, observed
<1>1. TypeOK /\ now \in Nat /\ now <= now
  BY DEF Types, TypeOK
<1>2. ASSUME NEW t \in Tasks, Middleware(t) \/ Handler(t) \/ Raise(t) PROVE RightsInv'
  <2>1. Frame(t) BY <1>1, <1>2, MiddlewareFrame, HandlerFrame, RaiseFrame
  <2>2. \A s \in Tasks : s # t => TaskRights(s)'
    BY <1>1, <2>1, OthersKeepRights DEF Frame, RightsInv
  <2>3. task[t].pc # "idle" /\ TaskRights(t)
    <3>1. Middleware(t) \/ Raise(t) => task[t].pc # "idle"
      BY <1>1, MiddlewareMoves, RaiseMoves DEF Early
    <3>2. Handler(t) => task[t].pc # "idle"
      BY HandlerLive
    <3> QED BY <1>2, <3>1, <3>2 DEF RightsInv
  <2>4. CASE AuthCached(t) \/ AuthAsk(t) \/ AuthStore(t) \/ AuthWhitelist(t)
    BY <1>1, <2>2, <2>4, AuthRights DEF RightsInv
  <2>5. CASE ~(AuthCached(t) \/ AuthAsk(t) \/ AuthStore(t) \/ AuthWhitelist(t))
    <3>1. UNCHANGED cache
      BY <1>2, <2>5 DEF Middleware, LimitCheck, LimitIncrement, Deny, Audit, Raise,
           Handler, ListUsers, Refresh, Report, Answer, ToggleLoad, ToggleSave, RoleLoad,
           RoleSave, AddCheck, AddLoad, AddSave, AddAudit, SizeAcquire, SizeRelease,
           QuotaLoad, QuotaSave
    <3>2. \A u \in Users : CacheRights(u)'
      BY <1>1, <2>1, <3>1, CacheStays DEF RightsInv, Frame
    <3>3. TaskRights(t)'
      <4>1. CASE Handler(t) BY <1>1, <4>1, HandlerRights
      <4>2. CASE Middleware(t) \/ Raise(t)
        <5>1. CASE End(t)
          <6>1. task'[t].pc = "idle" BY <1>1, <5>1, HoldFrame DEF End, Idle
          <6> QED BY <1>1, <2>1, <2>3, <6>1, OwnRights
        <5>2. CASE ~End(t)
          <6>1. \E p \in {"increment", "auth", "audit"} : Goto(t, p)
            BY <2>5, <4>2, <5>2 DEF Middleware, LimitCheck, LimitIncrement, Deny, Audit, Raise
          <6>2. task'[t].who = task[t].who /\ task'[t].pc \in {"increment", "auth", "audit"}
            BY <1>1, <2>3, <6>1, GotoWho
          <6> QED BY <1>1, <2>1, <2>3, <6>2, OwnRights DEF TaskRights, Live, Granted
        <5> QED BY <5>1, <5>2
      <4> QED BY <1>2, <4>1, <4>2
    <3> QED BY <2>2, <3>2, <3>3 DEF RightsInv
  <2> QED BY <2>4, <2>5
<1>3. ASSUME NEW t \in Tasks, NEW upd \in Sends[t], Receive(t, upd) PROVE RightsInv'
  <2> DEFINE state == [pc |-> "limit", upd |-> upd,
                       who |-> NoUserRow, row |-> NoUserRow, quota |-> {}, second |-> FALSE,
                       begun |-> now, known |-> {v \in Users : Registered(users[v])}]
  <2>1. /\ \A s \in Tasks : s # t => task'[s] = task[s]
        /\ task'[t] = state
        /\ UNCHANGED <<now, cache, admins, users, revoked>>
    BY <1>1, <1>3, HoldFrame DEF Receive, Enter
  <2>2. \A s \in Tasks : s # t => TaskRights(s)'
    BY <1>1, <2>1, OthersKeepRights DEF RightsInv
  <2>3. \A u \in Users : CacheRights(u)' BY <1>1, <2>1, CacheStays DEF RightsInv
  <2>4. TaskRights(t)'
    BY <1>1, <2>1 DEF TaskRights, IsAdmin, NoUserRow, Granted, At
  <2> QED BY <2>2, <2>3, <2>4 DEF RightsInv
<1>4. CASE OutsideStep \/ UNCHANGED vars
  <2>1. UNCHANGED <<task, cache>> /\ now' \in Nat /\ now <= now'
    BY <1>1, <1>4 DEF OutsideStep, IsolationExpires, Dismiss, SizeLockExpires, Tick, vars
  <2>2. \A s \in Tasks : At(s, "answered") => now' = now
    BY <1>4 DEF OutsideStep, IsolationExpires, Dismiss, SizeLockExpires, Tick, vars
  <2> QED BY <1>1, <2>1, <2>2, OthersKeepRights, CacheStays DEF RightsInv
<1>5. CASE Crash
  <2>1. /\ \A s \in Tasks : ~Live(s)'
        /\ \A u \in Users : cache'[u] = Uncached
        /\ now' = now
    BY <1>5 DEF Crash, Live, Idle
  <2>2. \A u \in Users : CacheRights(u)'
    BY <1>1, <2>1, UpdatePipelineAssumption DEF CacheRights, Uncached
  <2> QED BY <2>1, <2>2 DEF RightsInv, TaskRights
<1> QED BY <1>2, <1>3, <1>4, <1>5, StepKinds

\* At first no task is under way, and nothing is cached.
LEMMA RightsInit == Init => RightsInv
BY UpdatePipelineAssumption
   DEF Init, RightsInv, TaskRights, CacheRights, Live, Idle, Uncached

\* A change of the table users is a write of a task whose handler has checked the
\* principal.
LEMMA ChangeIsGranted ==
    ASSUME Types, RightsInv, [Next]_vars, users' # users
    PROVE  \E t \in Tasks :
              /\ Live(t) /\ task'[t] # task[t] /\ t \in changed'
              /\ IsAdmin(task[t].who)
<1>1. TypeOK BY DEF Types
<1>2. PICK t \in Tasks : Handler(t) BY <1>1, UsersOnlyInHandlers
<1>3. /\ task[t].pc \in {"toggle", "role", "addSave"}
      /\ \E row : Write(t, Target(t), row)
      /\ task'[t].pc \in {"refresh", "added"}
  BY <1>2, UsersChange
<1>4. Live(t) /\ task'[t] # task[t] BY <1>3 DEF Live
<1>5. t \in changed' BY <1>3 DEF Write
<1>6. IsAdmin(task[t].who) BY <1>3, <1>4 DEF RightsInv, TaskRights, Granted
<1> QED BY <1>4, <1>5, <1>6

\* Neither Telegram's cached answer nor the principal a task keeps across its
\* awaits lets a revoked right change the table users for longer than the cache
\* lifetime (TelegramRoleValidator, on_user_toggle, on_user_role, cmd_auth).
THEOREM ChangersAreAdmins == Spec => OnlyRecentAdminsChangeUsers
<1>1. Types /\ RightsInv /\ [Next]_vars =>
        [users' # users =>
           \E t \in Tasks :
              /\ task'[t] # task[t] /\ t \in changed'
              /\ \/ Authority(Sender(t), admins, users)
                 \/ \E at \in revoked[Sender(t)] : at + Ttl > task[t].begun]_vars
  BY ChangeIsGranted DEF RightsInv, TaskRights, Entitled
<1> QED BY <1>1, RightsInit, TypesKept, RightsInvStep, PTL DEF Spec, OnlyRecentAdminsChangeUsers

-----------------------------------------------------------------------------
(***************************************************************************)
(* What a change leaves alone.                                             *)
(***************************************************************************)

\* The UPDATE has the column that the use case assigned, and no other.
LEMMA ColumnStep ==
    ASSUME Types, [Next]_vars, NEW t \in Tasks, NEW u \in Users, Live(t),
           Registered(users[u]), task'[t] # task[t]
    PROVE  /\ At(t, "role")   => users'[u].active = users[u].active
           /\ At(t, "toggle") => users'[u].role = users[u].role
<1>1. TypeOK BY DEF Types
<1>2. CASE users' = users BY <1>2
<1>3. CASE users' # users
  <2>1. PICK s \in Tasks : Handler(s) BY <1>1, <1>3, UsersOnlyInHandlers
  <2>2. s = t BY <1>1, <2>1, HandlerFrame DEF Frame
  <2>3. CASE At(t, "role")
    <3>1. RoleSave(t)
      BY <2>1, <2>2, <2>3 DEF Handler, ListUsers, Refresh, Report, Answer, ToggleLoad, ToggleSave,
           RoleLoad, AddCheck, AddLoad, AddSave, AddAudit, SizeAcquire, SizeRelease,
           QuotaLoad, QuotaSave, Begin, At
    <3>2. task[t].row \in UserRow BY <2>3 DEF Types, RowsKept, At
    <3>3. [task[t].row EXCEPT !.role = NextRole[task[t].upd.role]].active = task[t].row.active
      BY <3>2 DEF UserRow
    <3> QED BY <1>1, <2>3, <3>1, <3>3 DEF RoleSave, Write, TypeOK, At
  <2>4. CASE At(t, "toggle")
    <3>1. ToggleSave(t)
      BY <2>1, <2>2, <2>4 DEF Handler, ListUsers, Refresh, Report, Answer, ToggleLoad, RoleSave,
           RoleLoad, AddCheck, AddLoad, AddSave, AddAudit, SizeAcquire, SizeRelease,
           QuotaLoad, QuotaSave, Begin, At
    <3>2. task[t].row \in UserRow BY <2>4 DEF Types, RowsKept, At
    <3>3. [task[t].row EXCEPT !.active = ~@].role = task[t].row.role
      BY <3>2 DEF UserRow
    <3> QED BY <1>1, <2>4, <3>1, <3>3 DEF ToggleSave, Write, TypeOK, At
  <2> QED BY <2>3, <2>4
<1> QED BY <1>2, <1>3

\* A role change and a toggle, both read-modify-write with an await between, do not
\* undo each other (SqlUserRepository.update_role, toggle_active).
THEOREM ChangesKeepOtherColumn == Spec => ChangesTouchOneColumn
<1>1. Types /\ [Next]_vars =>
        [\A t \in Tasks, u \in Users :
           /\ Live(t) /\ Registered(users[u]) /\ task'[t] # task[t]
           => /\ At(t, "role")   => users'[u].active = users[u].active
              /\ At(t, "toggle") => users'[u].role = users[u].role]_vars
  BY ColumnStep
<1> QED BY <1>1, TypesKept, PTL DEF Spec, ChangesTouchOneColumn

\* Who was registered when the update came in still is, and /auth has checked that
\* its target was not.
KnownInv ==
    \A t \in Tasks : Live(t) =>
      /\ \A u \in task[t].known : users[u] \in UserRow
      /\ task[t].pc \in {"addLoad", "addSave"} => Target(t) \notin task[t].known

\* The invariant of the registered users is inductive.
LEMMA KnownInvStep == Types /\ KnownInv /\ [Next]_vars => KnownInv'
<1> SUFFICES ASSUME Types, KnownInv, [Next]_vars PROVE KnownInv' OBVIOUS
<1>1. TypeOK BY DEF Types
<1>2. \A t \in Tasks : Live(t) => \A u \in task[t].known : users'[u] \in UserRow
  BY <1>1, LiveFields, UsersStayRegistered DEF KnownInv, Live
<1>3. ASSUME NEW s \in Tasks, task'[s] = task[s], Live(s)'
      PROVE  /\ \A u \in task'[s].known : users'[u] \in UserRow
             /\ task'[s].pc \in {"addLoad", "addSave"} => Target(s)' \notin task'[s].known
  <2>1. Live(s) /\ Target(s)' = Target(s) BY <1>3 DEF Live, Target
  <2> QED BY <1>2, <1>3, <2>1 DEF KnownInv
<1>4. ASSUME NEW t \in Tasks, Middleware(t) \/ Handler(t) \/ Raise(t) PROVE KnownInv'
  <2>1. Frame(t) BY <1>1, <1>4, MiddlewareFrame, HandlerFrame, RaiseFrame
  <2>2. ASSUME Live(t)'
        PROVE  /\ \A u \in task'[t].known : users'[u] \in UserRow
               /\ task'[t].pc \in {"addLoad", "addSave"} => Target(t)' \notin task'[t].known
    <3>1. ~End(t) BY <1>1, <2>2, HoldFrame DEF End, Idle, Live
    <3>2. task'[t].known = task[t].known /\ Target(t)' = Target(t)
      BY <2>1, <3>1 DEF Frame, Target
    <3>3. Live(t)
      <4>1. Middleware(t) \/ Raise(t) => task[t].pc # "idle"
        BY <1>1, MiddlewareMoves, RaiseMoves DEF Early
      <4>2. Handler(t) => task[t].pc # "idle"
        BY HandlerLive
      <4> QED BY <1>4, <4>1, <4>2 DEF Live
    <3>4. task'[t].pc = "addLoad" => Target(t) \notin task[t].known
      <4> SUFFICES ASSUME task'[t].pc = "addLoad" PROVE Target(t) \notin task[t].known OBVIOUS
      <4>1. Handler(t) BY <1>1, <1>4, MiddlewareMoves, RaiseMoves DEF Early
      <4>2. AddCheck(t) BY <1>1, <4>1, HandlerMoves DEF Loads
      <4>3. Goto(t, "answer") => task'[t].pc = "answer"
        BY <1>1, <3>3, GotoFrame DEF Live, Pcs, Slow
      <4>4. users[Target(t)] = NoUserRow BY <4>2, <4>3 DEF AddCheck, Registered
      <4>5. NoUserRow \notin UserRow BY DEF NoUserRow, UserRow, Roles
      <4> QED BY <3>3, <4>4, <4>5 DEF KnownInv
    <3>5. task'[t].pc = "addSave" => Target(t) \notin task[t].known
      <4> SUFFICES ASSUME task'[t].pc = "addSave" PROVE Target(t) \notin task[t].known OBVIOUS
      <4>1. Handler(t) BY <1>1, <1>4, MiddlewareMoves, RaiseMoves DEF Early
      <4>2. AddLoad(t) BY <1>1, <4>1, HandlerMoves DEF Loads
      <4> QED BY <3>3, <4>2 DEF AddLoad, At, KnownInv
    <3> QED BY <1>2, <3>2, <3>3, <3>4, <3>5
  <2> QED BY <1>3, <2>1, <2>2 DEF Frame, KnownInv
<1>5. ASSUME NEW t \in Tasks, NEW upd \in Sends[t], Receive(t, upd) PROVE KnownInv'
  <2> DEFINE state == [pc |-> "limit", upd |-> upd,
                       who |-> NoUserRow, row |-> NoUserRow, quota |-> {}, second |-> FALSE,
                       begun |-> now, known |-> {v \in Users : Registered(users[v])}]
  <2>1. /\ \A s \in Tasks : s # t => task'[s] = task[s]
        /\ task'[t] = state /\ UNCHANGED users
    BY <1>1, <1>5, HoldFrame DEF Receive, Enter, stores
  <2>2. \A u \in task'[t].known : users'[u] \in UserRow
    BY <1>1, <2>1 DEF Registered, TypeOK
  <2>3. task'[t].pc = "limit" BY <2>1
  <2> QED BY <1>3, <2>1, <2>2, <2>3 DEF KnownInv
<1>6. CASE OutsideStep \/ UNCHANGED vars
  <2>1. task' = task
    BY <1>6 DEF OutsideStep, IsolationExpires, Dismiss, SizeLockExpires, Tick, vars
  <2> QED BY <1>3, <2>1 DEF KnownInv
<1>7. CASE Crash BY <1>7 DEF Crash, KnownInv, Live, Idle
<1> QED BY <1>4, <1>5, <1>6, <1>7, StepKinds

\* The write of /auth leaves alone whoever was registered when the update came in.
LEMMA AddStep ==
    ASSUME Types, KnownInv, [Next]_vars, NEW t \in Tasks, At(t, "addSave"), task'[t] # task[t]
    PROVE  \A u \in task[t].known : users'[u] = users[u]
<1>1. TypeOK /\ Live(t) BY DEF Types, At, Live
<1>2. CASE users' = users BY <1>2
<1>3. CASE users' # users
  <2>1. PICK s \in Tasks : Handler(s) BY <1>1, <1>3, UsersOnlyInHandlers
  <2>2. s = t BY <1>1, <2>1, HandlerFrame DEF Frame
  <2>3. \E row : Write(t, Target(t), row) BY <1>3, <2>1, <2>2, UsersChange
  <2>4. Target(t) \notin task[t].known /\ task[t].known \subseteq Users
    BY <1>1, LiveFields DEF KnownInv, At, Live
  <2> QED BY <1>1, <2>3, <2>4 DEF Write, TypeOK
<1> QED BY <1>2, <1>3

\* /auth changes nobody who was registered when it came in, though AddUserUseCase
\* looks, and save() looks again, with awaits between.
THEOREM AddLeavesRegistered == Spec => AddKeepsRegistered
<1>1. Init => KnownInv BY DEF Init, KnownInv, Live, Idle
<1>2. Types /\ KnownInv /\ [Next]_vars =>
        [\A t \in Tasks :
           At(t, "addSave") /\ task'[t] # task[t]
           => \A u \in task[t].known : users'[u] = users[u]]_vars
  BY AddStep
<1> QED BY <1>1, <1>2, TypesKept, KnownInvStep, PTL DEF Spec, AddKeepsRegistered
=============================================================================
