-------------------------- MODULE UpdatePipelineProofs --------------------------
(***************************************************************************)
(* Theorems about UpdatePipeline for every set of users, every number of   *)
(* updates and every value of the other constants.                         *)
(***************************************************************************)
EXTENDS UpdatePipeline, FiniteSetTheorems, TLAPS

\* A task that is not idle holds a whole record.
LEMMA LiveTyped ==
    ASSUME TypeOK, NEW t \in Tasks, task[t].pc # "idle"
    PROVE  task[t] \in LiveTask
BY DEF TypeOK, Idle

\* The fields of that record.
LEMMA LiveFields ==
    ASSUME TypeOK, NEW t \in Tasks, task[t].pc # "idle"
    PROVE  /\ task[t].upd \in Update /\ Sender(t) \in Users /\ Target(t) \in Users
           /\ task[t].upd.role \in Roles /\ Kind(t) \in Kinds /\ Key(t) \in Keys
           /\ task[t].who \in UserRow \cup {NoUserRow}
           /\ task[t].row \in UserRow \cup {NoUserRow}
           /\ task[t].quota \in SUBSET QuotaRow
           /\ task[t].begun \in Nat /\ task[t].known \in SUBSET Users
<1>1. task[t] \in LiveTask BY LiveTyped
<1>2. task[t].upd \in Update BY <1>1 DEF LiveTask
<1>3. /\ task[t].upd.from \in Users /\ task[t].upd.target \in Users
      /\ task[t].upd.role \in Roles /\ task[t].upd.kind \in Kinds
  BY <1>2 DEF Update
<1>4. CommandOf(task[t].upd.kind) \in Actions
  BY DEF CommandOf, Actions, Commands, CommandRoles
<1> QED BY <1>1, <1>2, <1>3, <1>4 DEF LiveTask, Sender, Target, Kind, Key, Keys

\* A step of one task that holds a record afterwards, or is idle.
LEMMA HoldTyped ==
    ASSUME TypeOK, NEW t \in Tasks, NEW state \in LiveTask \cup {Idle}, Hold(t, state)
    PROVE  task' \in [Tasks -> LiveTask \cup {Idle}]
BY DEF TypeOK, Hold

\* A task that moves on stays well-typed.
LEMMA GotoTyped ==
    ASSUME TypeOK, NEW t \in Tasks, task[t].pc # "idle", NEW to \in Pcs, Goto(t, to)
    PROVE  task' \in [Tasks -> LiveTask \cup {Idle}]
<1>1. [task[t] EXCEPT !.pc = to] \in LiveTask BY LiveTyped DEF LiveTask
<1> QED BY <1>1, HoldTyped DEF Goto

\* The end of an update, and what its sender's lock is then.
LEMMA EndTyped ==
    ASSUME TypeOK, NEW t \in Tasks, task[t].pc # "idle", End(t)
    PROVE  /\ task' \in [Tasks -> LiveTask \cup {Idle}]
           /\ isolation' \in [Users -> Tasks \cup {NoToken, Orphan}]
<1>1. task' \in [Tasks -> LiveTask \cup {Idle}] BY HoldTyped DEF End
<1>2. isolation' \in [Users -> Tasks \cup {NoToken, Orphan}]
  BY DEF End, TypeOK, ReleaseScript
<1> QED BY <1>1, <1>2

\* An entry in the structured log has the type of the log.
LEMMA RecordTyped ==
    ASSUME TypeOK, NEW t \in Tasks, NEW action \in Events, Record(t, action)
    PROVE  log' \in SUBSET (Tasks \X Events)
BY DEF TypeOK, Record

\* Authentication hands the task a principal of the right type.
LEMMA AuthenticatedTyped ==
    ASSUME TypeOK, NEW t \in Tasks, task[t].pc # "idle", NEW user \in UserRow \cup {NoUserRow},
           Authenticated(t, user)
    PROVE  task' \in [Tasks -> LiveTask \cup {Idle}]
<1> DEFINE state == [task[t] EXCEPT !.pc = IF Allowed(t, user) THEN "handle" ELSE "denied",
                                    !.who = user]
<1>1. state \in LiveTask BY LiveTyped DEF LiveTask, Pcs, Early
<1> QED BY <1>1, HoldTyped DEF Authenticated

\* Either outcome of the role validator leaves a well-typed task.
LEMMA DecideTyped ==
    ASSUME TypeOK, NEW t \in Tasks, task[t].pc # "idle", NEW admin, Decide(t, admin)
    PROVE  task' \in [Tasks -> LiveTask \cup {Idle}]
<1>1. Administrator \in UserRow BY DEF Administrator, UserRow, Roles
<1>2. CASE Authenticated(t, Administrator) BY <1>1, <1>2, AuthenticatedTyped
<1>3. CASE Goto(t, "whitelist") BY <1>3, GotoTyped DEF Pcs, Early
<1> QED BY <1>2, <1>3 DEF Decide

\* Tasks that are about to write hold the row of a user who is registered, except
\* the one that found none; users stay registered.
RowsKept ==
    \A t \in Tasks :
        /\ task[t].pc \in {"toggle", "role"} =>
             task[t].row \in UserRow /\ users[Target(t)] \in UserRow
        /\ task[t].pc = "addSave" /\ task[t].row \in UserRow => users[Target(t)] \in UserRow

Types == TypeOK /\ RowsKept

\* Write leaves a whole row, also when the columns come from two rows.
LEMMA WriteTyped ==
    ASSUME TypeOK, NEW t \in Tasks, task[t].pc # "idle", NEW u \in Users, NEW row \in UserRow,
           task[t].row \in UserRow => users[u] \in UserRow, Write(t, u, row)
    PROVE  /\ users' \in [Users -> UserRow \cup {NoUserRow}]
           /\ users'[u] \in UserRow
           /\ \A v \in Users : v # u => users'[v] = users[v]
           /\ changed' \in SUBSET Tasks
           /\ revoked' \in [Users -> SUBSET Nat]
<1> DEFINE new == [role   |-> IF row.role # task[t].row.role THEN row.role ELSE users[u].role,
                   active |-> IF row.active # task[t].row.active THEN row.active
                              ELSE users[u].active]
<1>1. task[t].row \in UserRow \cup {NoUserRow} BY LiveFields
<1>2. users[u] \in UserRow \cup {NoUserRow} BY DEF TypeOK
<1>3. users[u].active \in BOOLEAN /\ row.active \in BOOLEAN
  <2>1. \A q \in UserRow : q.active \in BOOLEAN BY DEF UserRow
  <2>2. NoUserRow.active = FALSE BY DEF NoUserRow
  <2> QED BY <1>2, <2>1, <2>2
<1>4. new \in UserRow
  <2>1. CASE users[u] \in UserRow
    <3>1. new.role \in Roles BY <2>1 DEF UserRow
    <3>2. new.active \in BOOLEAN BY <1>3
    <3> QED BY <3>1, <3>2 DEF UserRow
  <2>2. CASE task[t].row = NoUserRow
    <3>1. row.role # task[t].row.role BY <2>2 DEF NoUserRow, UserRow, Roles
    <3>2. new.role \in Roles BY <3>1 DEF UserRow
    <3>3. new.active \in BOOLEAN BY <1>3
    <3> QED BY <3>2, <3>3 DEF UserRow
  <2> QED BY <1>1, <2>1, <2>2
<1> HIDE DEF new
<1>5. users' = [users EXCEPT ![u] = new] BY DEF Write, new
<1>6. /\ users' \in [Users -> UserRow \cup {NoUserRow}]
      /\ users'[u] \in UserRow
      /\ \A v \in Users : v # u => users'[v] = users[v]
  BY <1>4, <1>5 DEF TypeOK
<1>7. changed' \in SUBSET Tasks BY DEF Write, TypeOK
<1>8. revoked' \in [Users -> SUBSET Nat] BY DEF Write, Observe, TypeOK
<1> QED BY <1>6, <1>7, <1>8

\* The middlewares.
LEMMA MiddlewareTyped ==
    ASSUME TypeOK, NEW t \in Tasks, Middleware(t)
    PROVE  TypeOK'
<1> USE DEF stores, locks, telegram, observed
<1>1. CASE LimitCheck(t)
  <2>1. task[t].pc # "idle" /\ Key(t) \in Keys BY <1>1, LiveFields DEF LimitCheck, At
  <2>2. hits' \in [Keys -> SUBSET Entry] BY <1>1, <2>1 DEF LimitCheck, Trim, TypeOK
  <2>3. CASE Goto(t, "increment") /\ UNCHANGED isolation
    <3>1. task' \in [Tasks -> LiveTask \cup {Idle}] BY <2>1, <2>3, GotoTyped DEF Pcs, Early
    <3> QED BY <1>1, <2>2, <2>3, <3>1 DEF LimitCheck, TypeOK
  <2>4. CASE End(t)
    BY <1>1, <2>1, <2>2, <2>4, EndTyped DEF LimitCheck, TypeOK
  <2> QED BY <1>1, <2>3, <2>4 DEF LimitCheck
<1>2. CASE LimitIncrement(t)
  <2> DEFINE entry == [key |-> Key(t), at |-> now, serial |-> t]
  <2>1. task[t].pc # "idle" /\ Key(t) \in Keys BY <1>2, LiveFields DEF LimitIncrement, At
  <2>2. entry \in Entry BY <2>1 DEF Entry, TypeOK
  <2>3. hits' \in [Keys -> SUBSET Entry] BY <1>2, <2>2 DEF LimitIncrement, Added, Trim, TypeOK
  <2>4. admitted' \in SUBSET Entry BY <1>2, <2>2 DEF LimitIncrement, TypeOK
  <2>5. task' \in [Tasks -> LiveTask \cup {Idle}]
    BY <1>2, <2>1, GotoTyped DEF LimitIncrement, Pcs, Early
  <2> QED BY <1>2, <2>3, <2>4, <2>5 DEF LimitIncrement, TypeOK
<1>3. CASE AuthCached(t)
  <2>1. task[t].pc # "idle" BY <1>3 DEF AuthCached, At
  <2>2. task' \in [Tasks -> LiveTask \cup {Idle}]
    BY <1>3, <2>1, GotoTyped, DecideTyped DEF AuthCached, Pcs, Early
  <2> QED BY <1>3, <2>2 DEF AuthCached, TypeOK
<1>4. CASE AuthAsk(t)
  <2>1. task[t].pc # "idle" BY <1>4 DEF AuthAsk, At
  <2>2. ASSUME NEW who \in UserRow \cup {NoUserRow}
        PROVE  [task[t] EXCEPT !.pc = "answered", !.who = who] \in LiveTask
    BY <2>1, LiveTyped DEF LiveTask, Pcs, Early
  <2> Administrator \in UserRow BY DEF Administrator, UserRow, Roles
  <2>3. task' \in [Tasks -> LiveTask \cup {Idle}]
    BY <1>4, <2>1, <2>2, GotoTyped, HoldTyped DEF AuthAsk, Pcs, Early
  <2> QED BY <1>4, <2>3 DEF AuthAsk, TypeOK
<1>5. CASE AuthStore(t)
  <2>1. task[t].pc # "idle" BY <1>5 DEF AuthStore, At
  <2>2. task' \in [Tasks -> LiveTask \cup {Idle}] BY <1>5, <2>1, DecideTyped DEF AuthStore
  <2>3. IsAdmin(task[t].who) \in BOOLEAN /\ now + Ttl \in Nat
    BY UpdatePipelineAssumption DEF IsAdmin, TypeOK
  <2>4. cache' \in [Users -> [admin : BOOLEAN, until : Nat]]
    BY <1>5, <2>3 DEF AuthStore, TypeOK
  <2> QED BY <1>5, <2>2, <2>4 DEF AuthStore, TypeOK
<1>6. CASE AuthWhitelist(t)
  <2>1. task[t].pc # "idle" /\ Sender(t) \in Users BY <1>6, LiveFields DEF AuthWhitelist, At
  <2>2. users[Sender(t)] \in UserRow \cup {NoUserRow} BY <2>1 DEF TypeOK
  <2>3. CASE Authenticated(t, users[Sender(t)]) /\ UNCHANGED <<log, isolation>>
    <3>1. task' \in [Tasks -> LiveTask \cup {Idle}]
      BY <2>1, <2>2, <2>3, AuthenticatedTyped
    <3> QED BY <1>6, <2>3, <3>1 DEF AuthWhitelist, TypeOK
  <2>4. CASE Record(t, "AUTH_DENIED") /\ End(t)
    BY <1>6, <2>1, <2>4, EndTyped, RecordTyped DEF AuthWhitelist, TypeOK, Events
  <2> QED BY <1>6, <2>3, <2>4 DEF AuthWhitelist
<1>7. CASE Deny(t)
  <2>1. task[t].pc # "idle" BY <1>7 DEF Deny, At
  <2> QED BY <1>7, <2>1, EndTyped, RecordTyped DEF Deny, TypeOK, Events
<1>8. CASE Audit(t)
  <2>1. task[t].pc # "idle" BY <1>8 DEF Audit, At
  <2>2. log' \in SUBSET (Tasks \X Events) /\ lost' \in SUBSET Tasks
    BY <1>8, RecordTyped DEF Audit, TypeOK, Events
  <2> QED BY <1>8, <2>1, <2>2, EndTyped DEF Audit, TypeOK
<1> QED BY <1>1, <1>2, <1>3, <1>4, <1>5, <1>6, <1>7, <1>8 DEF Middleware

\* The list's buttons show the roles that registered users have.
LEMMA ShowUsersTyped ==
    ASSUME TypeOK, ShowUsers
    PROVE  shown' \in SUBSET (Users \X Roles)
<1>1. \A u \in Users : Registered(users[u]) => users[u].role \in Roles
  BY DEF TypeOK, Registered, UserRow
<1> QED BY <1>1 DEF ShowUsers, TypeOK

\* A SELECT into the task.
LEMMA LoadTyped ==
    ASSUME TypeOK, NEW t \in Tasks, task[t].pc # "idle", NEW p \in Pcs
    PROVE  /\ \A row \in UserRow \cup {NoUserRow} :
                 [task[t] EXCEPT !.pc = p, !.row = row] \in LiveTask
           /\ \A rows \in SUBSET QuotaRow :
                 [task[t] EXCEPT !.pc = p, !.quota = rows] \in LiveTask
           /\ [task[t] EXCEPT !.pc = p, !.second = TRUE] \in LiveTask
BY LiveTyped DEF LiveTask

\* The handlers, part by part.
LEMMA ListTyped ==
    ASSUME TypeOK, NEW t \in Tasks,
           ListUsers(t) \/ Refresh(t) \/ Report(t) \/ Answer(t)
    PROVE  TypeOK'
<1> USE DEF stores, locks, telegram, observed
<1>1. task[t].pc # "idle" BY DEF ListUsers, Refresh, Report, Answer, Begin, At
<1>2. CASE ListUsers(t)
  <2>1. shown' \in SUBSET (Users \X Roles)
    BY <1>2, ShowUsersTyped DEF ListUsers, TypeOK
  <2>2. task' \in [Tasks -> LiveTask \cup {Idle}]
    BY <1>1, <1>2, GotoTyped DEF ListUsers, Pcs, Slow
  <2>3. log' \in SUBSET (Tasks \X Events)
    BY <1>2, RecordTyped DEF ListUsers, Events, TypeOK
  <2> QED BY <1>2, <2>1, <2>2, <2>3 DEF ListUsers, TypeOK
<1>3. CASE Refresh(t)
  <2>1. shown' \in SUBSET (Users \X Roles) BY <1>3, ShowUsersTyped DEF Refresh
  <2>2. task' \in [Tasks -> LiveTask \cup {Idle}]
    BY <1>1, <1>3, GotoTyped DEF Refresh, Pcs, Slow
  <2>3. log' \in SUBSET (Tasks \X Events) BY <1>3, RecordTyped DEF Refresh, Events
  <2> QED BY <1>3, <2>1, <2>2, <2>3 DEF Refresh, TypeOK
<1>4. CASE Report(t) \/ Answer(t)
  <2>1. task' \in [Tasks -> LiveTask \cup {Idle}]
    BY <1>1, <1>4, GotoTyped DEF Report, Answer, Pcs, Slow
  <2>2. log' \in SUBSET (Tasks \X Events)
    BY <1>4, RecordTyped DEF Report, Answer, Events, TypeOK
  <2> QED BY <1>4, <2>1, <2>2 DEF Report, Answer, TypeOK
<1> QED BY <1>2, <1>3, <1>4

\* Toggling a user, changing a role.
LEMMA ChangeTyped ==
    ASSUME TypeOK, RowsKept, NEW t \in Tasks,
           ToggleLoad(t) \/ ToggleSave(t) \/ RoleLoad(t) \/ RoleSave(t)
    PROVE  TypeOK'
<1> USE DEF stores, locks, telegram, observed
<1>1. task[t].pc # "idle" /\ Target(t) \in Users /\ task[t].upd.role \in Roles
  BY LiveFields DEF ToggleLoad, ToggleSave, RoleLoad, RoleSave, Begin, At
<1>2. users[Target(t)] \in UserRow \cup {NoUserRow} BY <1>1 DEF TypeOK
<1>3. CASE ToggleLoad(t) \/ RoleLoad(t)
  <2>1. task' \in [Tasks -> LiveTask \cup {Idle}]
    BY <1>1, <1>2, <1>3, GotoTyped, HoldTyped, LoadTyped DEF ToggleLoad, RoleLoad, Pcs, Slow
  <2> QED BY <1>3, <2>1 DEF ToggleLoad, RoleLoad, TypeOK
<1>4. ASSUME NEW row \in UserRow, task[t].pc \in {"toggle", "role"}, Write(t, Target(t), row),
             Goto(t, "refresh"),
             UNCHANGED <<now, hits, quota, log, locks, cache, telegram, received,
                         admitted, lost, overtaken>>
      PROVE  TypeOK'
  <2>1. task[t].row \in UserRow /\ users[Target(t)] \in UserRow BY <1>4 DEF RowsKept
  <2>2. /\ users' \in [Users -> UserRow \cup {NoUserRow}]
        /\ changed' \in SUBSET Tasks
        /\ revoked' \in [Users -> SUBSET Nat]
    BY <1>1, <1>4, <2>1, WriteTyped
  <2>3. task' \in [Tasks -> LiveTask \cup {Idle}] BY <1>1, <1>4, GotoTyped DEF Pcs
  <2> QED BY <1>4, <2>2, <2>3 DEF TypeOK
<1>5. CASE ToggleSave(t)
  <2>1. task[t].row \in UserRow BY <1>5 DEF RowsKept, ToggleSave, At
  <2>2. [task[t].row EXCEPT !.active = ~@] \in UserRow BY <2>1 DEF UserRow
  <2> QED BY <1>4, <1>5, <2>2 DEF ToggleSave, At
<1>6. CASE RoleSave(t)
  <2>1. task[t].row \in UserRow BY <1>6 DEF RowsKept, RoleSave, At
  <2>2. NextRole[task[t].upd.role] \in Roles BY <1>1 DEF NextRole, Roles
  <2>3. [task[t].row EXCEPT !.role = NextRole[task[t].upd.role]] \in UserRow
    BY <2>1, <2>2 DEF UserRow
  <2> QED BY <1>4, <1>6, <2>3 DEF RoleSave, At
<1> QED BY <1>3, <1>5, <1>6

\* The command /auth.
LEMMA AddTyped ==
    ASSUME TypeOK, RowsKept, NEW t \in Tasks,
           AddCheck(t) \/ AddLoad(t) \/ AddSave(t) \/ AddAudit(t)
    PROVE  TypeOK'
<1> USE DEF stores, locks, telegram, observed
<1>1. task[t].pc # "idle" /\ Target(t) \in Users /\ task[t].upd.role \in Roles
  BY LiveFields DEF AddCheck, AddLoad, AddSave, AddAudit, Begin, At
<1>2. users[Target(t)] \in UserRow \cup {NoUserRow} BY <1>1 DEF TypeOK
<1>3. CASE AddCheck(t)
  <2>1. task' \in [Tasks -> LiveTask \cup {Idle}]
    BY <1>1, <1>3, GotoTyped DEF AddCheck, Pcs, Slow
  <2> QED BY <1>3, <2>1 DEF AddCheck, TypeOK
<1>4. CASE AddLoad(t)
  <2>1. task' \in [Tasks -> LiveTask \cup {Idle}]
    BY <1>1, <1>2, <1>4, HoldTyped, LoadTyped DEF AddLoad, Pcs
  <2> QED BY <1>4, <2>1 DEF AddLoad, TypeOK
<1>5. CASE AddSave(t)
  <2>1. CASE Goto(t, "audit") /\ UNCHANGED <<users, changed, revoked>>
    <3>1. task' \in [Tasks -> LiveTask \cup {Idle}] BY <1>1, <2>1, GotoTyped DEF Pcs
    <3> QED BY <1>5, <2>1, <3>1 DEF AddSave, TypeOK
  <2>2. CASE Write(t, Target(t), NewUser(task[t].upd)) /\ Goto(t, "added")
    <3>1. NewUser(task[t].upd) \in UserRow BY <1>1 DEF NewUser, UserRow
    <3>2. task[t].row \in UserRow => users[Target(t)] \in UserRow
      BY <1>5 DEF RowsKept, AddSave, At
    <3>3. /\ users' \in [Users -> UserRow \cup {NoUserRow}]
          /\ changed' \in SUBSET Tasks
          /\ revoked' \in [Users -> SUBSET Nat]
      BY <1>1, <2>2, <3>1, <3>2, WriteTyped
    <3>4. task' \in [Tasks -> LiveTask \cup {Idle}] BY <1>1, <2>2, GotoTyped DEF Pcs
    <3> QED BY <1>5, <3>3, <3>4 DEF AddSave, TypeOK
  <2> QED BY <1>5, <2>1, <2>2 DEF AddSave
<1>6. CASE AddAudit(t)
  <2>1. task' \in [Tasks -> LiveTask \cup {Idle}] BY <1>1, <1>6, GotoTyped DEF AddAudit, Pcs, Slow
  <2>2. log' \in SUBSET (Tasks \X Events) BY <1>6, RecordTyped DEF AddAudit, Events
  <2> QED BY <1>6, <2>1, <2>2 DEF AddAudit, TypeOK
<1> QED BY <1>3, <1>4, <1>5, <1>6

\* The lock around a size query.
LEMMA SizeTyped ==
    ASSUME TypeOK, NEW t \in Tasks, SizeAcquire(t) \/ SizeRelease(t)
    PROVE  TypeOK'
<1> USE DEF stores, locks, telegram, observed
<1>1. task[t].pc # "idle" BY DEF SizeAcquire, SizeRelease, Begin, At
<1>2. sizeLock' \in Tasks \cup {NoToken, Orphan}
  BY DEF SizeAcquire, SizeRelease, SetNX, ReleaseScript, TypeOK
<1>3. CASE SizeAcquire(t)
  <2>1. task' \in [Tasks -> LiveTask \cup {Idle}]
    BY <1>1, <1>3, GotoTyped DEF SizeAcquire, Pcs, Slow
  <2> QED BY <1>2, <1>3, <2>1 DEF SizeAcquire, TypeOK
<1>4. CASE SizeRelease(t)
  <2>1. task' \in [Tasks -> LiveTask \cup {Idle}]
    BY <1>1, <1>4, GotoTyped, HoldTyped, LoadTyped DEF SizeRelease, Pcs, Slow
  <2>2. log' \in SUBSET (Tasks \X Events)
    BY <1>4, RecordTyped DEF SizeRelease, Events, TypeOK
  <2> QED BY <1>2, <1>4, <2>1, <2>2 DEF SizeRelease, TypeOK
<1> QED BY <1>3, <1>4

\* The quota of size queries.
LEMMA QuotaTyped ==
    ASSUME TypeOK, NEW t \in Tasks, QuotaLoad(t) \/ QuotaSave(t)
    PROVE  TypeOK'
<1> USE DEF stores, locks, telegram, observed
<1>1. task[t].pc # "idle" /\ Sender(t) \in Users
  BY LiveFields DEF QuotaLoad, QuotaSave, Begin, At
<1>2. CASE QuotaLoad(t)
  <2>1. LiveRows(quota[Sender(t)], now) \in SUBSET QuotaRow BY <1>1 DEF LiveRows, TypeOK
  <2>2. task' \in [Tasks -> LiveTask \cup {Idle}]
    BY <1>1, <1>2, <2>1, GotoTyped, HoldTyped, LoadTyped DEF QuotaLoad, Pcs, Slow
  <2> QED BY <1>2, <2>2 DEF QuotaLoad, TypeOK
<1>3. CASE QuotaSave(t)
  <2> DEFINE row == Counted(task[t].quota, now, t)
  <2>1. task[t].quota \in SUBSET QuotaRow BY <1>1, LiveFields
  <2>2. row \in QuotaRow
    <3>1. CASE task[t].quota = {}
      BY <3>1, UpdatePipelineAssumption DEF Counted, QuotaRow, Tasks, TypeOK
    <3>2. CASE task[t].quota # {}
      BY <2>1, <3>2 DEF Counted, QuotaRow
    <3> QED BY <3>1, <3>2
  <2>3. quota' \in [Users -> SUBSET QuotaRow]
    BY <1>1, <1>3, <2>2 DEF QuotaSave, Written, LiveRows, TypeOK
  <2>4. task' \in [Tasks -> LiveTask \cup {Idle}] BY <1>1, <1>3, GotoTyped DEF QuotaSave, Pcs, Slow
  <2>5. log' \in SUBSET (Tasks \X Events) BY <1>3, RecordTyped DEF QuotaSave, Events, TypeOK
  <2> QED BY <1>3, <2>3, <2>4, <2>5 DEF QuotaSave, TypeOK
<1> QED BY <1>2, <1>3

\* The steps of a task are those of its middlewares and its handler.
LEMMA TaskStepTyped ==
    ASSUME Types, NEW t \in Tasks, TaskStep(t)
    PROVE  TypeOK'
<1>1. TypeOK /\ RowsKept BY DEF Types
<1>2. CASE Middleware(t) BY <1>1, <1>2, MiddlewareTyped
<1>3. CASE Handler(t)
  BY <1>1, <1>3, ListTyped, ChangeTyped, AddTyped, SizeTyped, QuotaTyped DEF Handler
<1> QED BY <1>2, <1>3 DEF TaskStep

\* A new update, an exception, and the steps of the world outside.
LEMMA OutsideTyped ==
    ASSUME TypeOK
    PROVE  /\ \A t \in Tasks : \A upd \in Sends[t] : Receive(t, upd) => TypeOK'
           /\ \A t \in Tasks : Raise(t) => TypeOK'
           /\ \A u \in Users : IsolationExpires(u) \/ Dismiss(u) => TypeOK'
           /\ SizeLockExpires \/ Crash \/ Tick => TypeOK'
<1> USE DEF stores, locks, telegram, observed
<1>1. ASSUME NEW t \in Tasks, NEW upd \in Sends[t], Receive(t, upd) PROVE TypeOK'
  <2>1. upd \in Update BY UpdatePipelineAssumption
  <2> DEFINE state == [pc |-> "limit", upd |-> upd,
                       who |-> NoUserRow, row |-> NoUserRow, quota |-> {}, second |-> FALSE,
                       begun |-> now, known |-> {v \in Users : Registered(users[v])}]
  <2>2. state \in LiveTask BY <2>1 DEF LiveTask, Pcs, Early, TypeOK
  <2>3. task' \in [Tasks -> LiveTask \cup {Idle}]
    BY <1>1, <2>2, HoldTyped DEF Receive, Enter
  <2>4. isolation' \in [Users -> Tasks \cup {NoToken, Orphan}]
    BY <1>1, <2>1 DEF Receive, Enter, SetNX, TypeOK
  <2>5. received' \in Nat BY <1>1, UpdatePipelineAssumption DEF Receive, Enter, Tasks
  <2> QED BY <1>1, <2>3, <2>4, <2>5 DEF Receive, Enter, TypeOK
<1>2. ASSUME NEW t \in Tasks, Raise(t) PROVE TypeOK'
  <2>1. task[t].pc # "idle" BY <1>2 DEF Raise, InHandler, InStack
  <2>2. CASE Goto(t, "audit") /\ UNCHANGED isolation
    <3>1. task' \in [Tasks -> LiveTask \cup {Idle}] BY <2>1, <2>2, GotoTyped DEF Pcs
    <3> QED BY <1>2, <2>2, <3>1 DEF Raise, TypeOK
  <2>3. CASE End(t) BY <1>2, <2>1, <2>3, EndTyped DEF Raise, TypeOK
  <2> QED BY <1>2, <2>2, <2>3 DEF Raise
<1>3. ASSUME NEW u \in Users, IsolationExpires(u) \/ Dismiss(u) PROVE TypeOK'
  <2>1. CASE Dismiss(u) BY <2>1 DEF Dismiss, Observe, TypeOK
  <2>2. CASE IsolationExpires(u)
    <3>1. isolation' \in [Users -> Tasks \cup {NoToken, Orphan}]
      BY <2>2 DEF IsolationExpires, TypeOK
    <3>2. overtaken' \in [Users -> SUBSET Tasks] BY <2>2 DEF IsolationExpires, TypeOK
    <3> QED BY <2>2, <3>1, <3>2 DEF IsolationExpires, TypeOK
  <2> QED BY <1>3, <2>1, <2>2
<1>4. CASE SizeLockExpires BY <1>4 DEF SizeLockExpires, TypeOK
<1>5. CASE Crash BY <1>5 DEF Crash, TypeOK, Uncached
<1>6. CASE Tick BY <1>6 DEF Tick, TypeOK
<1> QED BY <1>1, <1>2, <1>3, <1>4, <1>5, <1>6

-----------------------------------------------------------------------------
(***************************************************************************)
(* What a step of one task leaves alone.                                   *)
(***************************************************************************)

\* Task t ends, or keeps its update, and touches no other task; it enters none of
\* the middlewares' stages from outside, and gives up no lock but its own.
Frame(t) ==
    /\ \A s \in Tasks : s # t => task'[s] = task[s]
    /\ \/ End(t)
       \/ /\ UNCHANGED isolation
          /\ task'[t].upd = task[t].upd /\ task'[t].begun = task[t].begun
          /\ task'[t].known = task[t].known /\ task'[t].pc # "idle"
          /\ task'[t].pc \in Early => task[t].pc \in Early
    /\ UNCHANGED <<now, admins, received, overtaken>>

\* A step that stores a record into the task.
LEMMA HoldFrame ==
    ASSUME TypeOK, NEW t \in Tasks, NEW state, Hold(t, state)
    PROVE  (\A s \in Tasks : s # t => task'[s] = task[s]) /\ task'[t] = state
BY DEF TypeOK, Hold

\* A step that only moves or loads something into the task.
LEMMA GotoFrame ==
    ASSUME TypeOK, NEW t \in Tasks, task[t].pc # "idle", NEW p \in Pcs,
           \/ Goto(t, p)
           \/ \E row : Hold(t, [task[t] EXCEPT !.pc = p, !.row = row])
           \/ \E who : Hold(t, [task[t] EXCEPT !.pc = p, !.who = who])
           \/ \E rows : Hold(t, [task[t] EXCEPT !.pc = p, !.quota = rows])
           \/ Hold(t, [task[t] EXCEPT !.pc = p, !.second = TRUE])
    PROVE  /\ \A s \in Tasks : s # t => task'[s] = task[s]
           /\ task'[t].upd = task[t].upd /\ task'[t].begun = task[t].begun
           /\ task'[t].known = task[t].known /\ task'[t].pc = p /\ p # "idle"
<1>1. task[t] \in LiveTask BY LiveTyped
<1>2. p # "idle" BY DEF Pcs, Early, Slow
<1> DEFINE States(row, who, rows) ==
             {[task[t] EXCEPT !.pc = p],
              [task[t] EXCEPT !.pc = p, !.row = row],
              [task[t] EXCEPT !.pc = p, !.who = who],
              [task[t] EXCEPT !.pc = p, !.quota = rows],
              [task[t] EXCEPT !.pc = p, !.second = TRUE]}
<1>3. PICK state, row, who, rows : Hold(t, state) /\ state \in States(row, who, rows)
  BY DEF Goto
<1>4. (\A s \in Tasks : s # t => task'[s] = task[s]) /\ task'[t] = state
  BY <1>3, HoldFrame
<1>5. /\ state.upd = task[t].upd /\ state.begun = task[t].begun
      /\ state.known = task[t].known /\ state.pc = p
  BY <1>1, <1>3 DEF LiveTask
<1> QED BY <1>2, <1>4, <1>5

\* The middlewares touch their own task only.
LEMMA MiddlewareFrame ==
    ASSUME TypeOK, NEW t \in Tasks, Middleware(t)
    PROVE  Frame(t)
<1> USE DEF locks, telegram, observed
<1>1. task[t].pc \in Early \cup {"audit"}
  BY DEF Middleware, LimitCheck, LimitIncrement, AuthCached, AuthAsk, AuthStore,
         AuthWhitelist, Deny, Audit, At, Early
<1>2. task[t].pc # "idle" BY <1>1 DEF Early
<1>3. /\ UNCHANGED <<now, admins, received, overtaken>>
      /\ End(t) \/ UNCHANGED isolation
  BY DEF Middleware, LimitCheck, LimitIncrement, AuthCached, AuthAsk, AuthStore,
         AuthWhitelist, Deny, Audit
<1>4. CASE End(t) BY <1>3, <1>4, HoldFrame DEF End, Frame
<1>5. CASE ~End(t)
  <2>1. task[t].pc \in Early
    BY <1>5 DEF Middleware, LimitCheck, LimitIncrement, AuthCached, AuthAsk, AuthStore,
                AuthWhitelist, Deny, Audit, At, Early
  <2>2. \E p \in Early \cup {"handle"} :
          Goto(t, p) \/ \E who : Hold(t, [task[t] EXCEPT !.pc = p, !.who = who])
    BY <1>5 DEF Middleware, LimitCheck, LimitIncrement, AuthCached, AuthAsk, AuthStore,
                AuthWhitelist, Deny, Audit, Early, Decide, Authenticated
  <2>3. \A p \in Early \cup {"handle"} : p \in Pcs BY DEF Pcs
  <2> QED BY <1>2, <1>3, <1>5, <2>1, <2>2, <2>3, GotoFrame DEF Frame
<1> QED BY <1>4, <1>5

\* Only a task that is under way takes a step.
LEMMA HandlerLive ==
    ASSUME NEW t \in Tasks, Handler(t)
    PROVE  task[t].pc # "idle"
BY DEF Handler, ListUsers, Refresh, Report, Answer, ToggleLoad, ToggleSave, RoleLoad, RoleSave,
       AddCheck, AddLoad, AddSave, AddAudit, SizeAcquire, SizeRelease, QuotaLoad, QuotaSave,
       Begin, At

\* The handlers touch their own task only.
LEMMA HandlerFrame ==
    ASSUME TypeOK, NEW t \in Tasks, Handler(t)
    PROVE  Frame(t) /\ UNCHANGED <<isolation, hits, admitted, lost>>
<1> USE DEF locks, telegram, stores, observed
<1> DEFINE Ps == Pcs \ Early
<1>1. UNCHANGED <<now, admins, received, isolation, hits, admitted, lost, overtaken>>
  BY DEF Handler, ListUsers, Refresh, Report, Answer, ToggleLoad, ToggleSave, RoleLoad,
         RoleSave, AddCheck, AddLoad, AddSave, AddAudit, SizeAcquire, SizeRelease,
         QuotaLoad, QuotaSave
<1>2. task[t].pc # "idle"
  BY HandlerLive
<1>3. \E p \in Ps :
         \/ Goto(t, p)
         \/ \E row : Hold(t, [task[t] EXCEPT !.pc = p, !.row = row])
         \/ \E rows : Hold(t, [task[t] EXCEPT !.pc = p, !.quota = rows])
         \/ Hold(t, [task[t] EXCEPT !.pc = p, !.second = TRUE])
  <2>1. /\ "answer" \in Ps /\ "audit" \in Ps /\ "toggle" \in Ps /\ "role" \in Ps
        /\ "refresh" \in Ps /\ "addLoad" \in Ps /\ "addSave" \in Ps /\ "added" \in Ps
        /\ "query" \in Ps /\ "quota" \in Ps /\ "handle" \in Ps
    BY DEF Pcs, Early, Slow
  <2> HIDE DEF Ps
  <2>2. CASE ListUsers(t) \/ Refresh(t) \/ Report(t) \/ Answer(t)
    BY <2>1, <2>2 DEF ListUsers, Refresh, Report, Answer
  <2>3. CASE ToggleLoad(t) \/ ToggleSave(t) \/ RoleLoad(t) \/ RoleSave(t)
    BY <2>1, <2>3 DEF ToggleLoad, ToggleSave, RoleLoad, RoleSave
  <2>4. CASE AddCheck(t) \/ AddLoad(t) \/ AddSave(t) \/ AddAudit(t)
    BY <2>1, <2>4 DEF AddCheck, AddLoad, AddSave, AddAudit
  <2>5. CASE SizeAcquire(t) \/ SizeRelease(t)
    BY <2>1, <2>5 DEF SizeAcquire, SizeRelease
  <2>6. CASE QuotaLoad(t) \/ QuotaSave(t)
    BY <2>1, <2>6 DEF QuotaLoad, QuotaSave
  <2> QED BY <2>2, <2>3, <2>4, <2>5, <2>6 DEF Handler
<1> QED BY <1>1, <1>2, <1>3, GotoFrame DEF Frame

\* An exception touches the task it is raised in.
LEMMA RaiseFrame ==
    ASSUME TypeOK, NEW t \in Tasks, Raise(t)
    PROVE  Frame(t) /\ UNCHANGED <<stores, sizeLock, cache, telegram, received, observed>>
<1>1. task[t].pc # "idle" BY DEF Raise, InHandler, InStack
<1>2. "audit" \in Pcs /\ "audit" \notin Early BY DEF Pcs, Early
<1>3. CASE End(t) BY <1>3, HoldFrame DEF End, Frame, Raise, telegram, observed
<1>4. CASE Goto(t, "audit") /\ UNCHANGED isolation
  BY <1>1, <1>2, <1>4, GotoFrame DEF Frame, Raise, telegram, observed
<1> QED BY <1>3, <1>4 DEF Raise

\* Where a handler's step leads: the stages that hold something for a later step
\* are entered by one action each.
Loads == {"handle", "toggle", "role", "addLoad", "addSave", "quota", "query"}

\* Handlers keep the principal, and stay out of the middlewares' stages.
LEMMA HandlerMoves ==
    ASSUME TypeOK, NEW t \in Tasks, Handler(t)
    PROVE  /\ task'[t].who = task[t].who /\ task'[t].pc \in Pcs \ Early
           /\ \/ task'[t].pc \in Pcs \ (Early \cup Loads)
              \/ ToggleLoad(t) /\ task'[t].pc = "toggle"
              \/ RoleLoad(t) /\ task'[t].pc = "role"
              \/ AddCheck(t) /\ task'[t].pc = "addLoad"
              \/ AddLoad(t) /\ task'[t].pc = "addSave"
              \/ QuotaLoad(t) /\ task'[t].pc = "quota"
              \/ SizeAcquire(t) /\ task'[t].pc = "query"
              \/ SizeRelease(t) /\ task'[t].pc = "handle"
<1> DEFINE States(p, row, rows) ==
             {[task[t] EXCEPT !.pc = p],
              [task[t] EXCEPT !.pc = p, !.row = row],
              [task[t] EXCEPT !.pc = p, !.quota = rows],
              [task[t] EXCEPT !.pc = p, !.second = TRUE]}
<1> DEFINE Move(P) == \E p \in P : \E row, rows, state :
                        state \in States(p, row, rows) /\ Hold(t, state)
<1> DEFINE Ps == Pcs \ (Early \cup Loads)
<1>1. task[t].pc # "idle"
  BY HandlerLive
<1>2. ASSUME NEW P, Move(P) PROVE task'[t].pc \in P /\ task'[t].who = task[t].who
  <2>0. PICK p \in P : \E row, rows, state : state \in States(p, row, rows) /\ Hold(t, state)
    BY <1>2
  <2>1. PICK row, rows, state : state \in States(p, row, rows) /\ Hold(t, state) BY <2>0
  <2>2. task[t] \in LiveTask BY <1>1, LiveTyped
  <2>3. state.pc = p /\ state.who = task[t].who BY <2>1, <2>2 DEF LiveTask
  <2> QED BY <2>1, <2>3, HoldFrame
<1>3. /\ "answer" \in Ps /\ "audit" \in Ps /\ "refresh" \in Ps /\ "added" \in Ps
      /\ Loads \subseteq Pcs \ Early
  BY DEF Pcs, Early, Slow, Loads
<1>4. \/ Move(Ps)
      \/ (ToggleLoad(t) /\ Move({"toggle"}))
      \/ (RoleLoad(t) /\ Move({"role"}))
      \/ (AddCheck(t) /\ Move({"addLoad"}))
      \/ (AddLoad(t) /\ Move({"addSave"}))
      \/ (QuotaLoad(t) /\ Move({"quota"}))
      \/ (SizeAcquire(t) /\ Move({"query"}))
      \/ (SizeRelease(t) /\ Move({"handle"}))
  <2> HIDE DEF Ps
  <2>1. CASE ListUsers(t) \/ Refresh(t) \/ Report(t) \/ Answer(t)
    BY <1>3, <2>1 DEF ListUsers, Refresh, Report, Answer, Goto
  <2>2. CASE ToggleLoad(t)
    BY <1>3, <2>2 DEF ToggleLoad, Goto
  <2>3. CASE RoleLoad(t)
    BY <1>3, <2>3 DEF RoleLoad, Goto
  <2>4. CASE ToggleSave(t) \/ RoleSave(t)
    BY <1>3, <2>4 DEF ToggleSave, RoleSave, Goto
  <2>5. CASE AddCheck(t)
    BY <1>3, <2>5 DEF AddCheck, Goto
  <2>6. CASE AddLoad(t)
    BY <1>3, <2>6 DEF AddLoad
  <2>7. CASE AddSave(t) \/ AddAudit(t)
    BY <1>3, <2>7 DEF AddSave, AddAudit, Goto
  <2>8. CASE SizeAcquire(t)
    BY <1>3, <2>8 DEF SizeAcquire, Goto
  <2>9. CASE SizeRelease(t)
    BY <1>3, <2>9 DEF SizeRelease, Goto
  <2>10. CASE QuotaLoad(t)
    BY <1>3, <2>10 DEF QuotaLoad, Goto
  <2>11. CASE QuotaSave(t)
    BY <1>3, <2>11 DEF QuotaSave, Goto
  <2> QED BY <2>1, <2>2, <2>3, <2>4, <2>5, <2>6, <2>7, <2>8, <2>9, <2>10, <2>11 DEF Handler
<1> HIDE DEF Move, Ps
<1>5. CASE Move(Ps) BY <1>2, <1>5 DEF Ps
<1>6. CASE ~Move(Ps) BY <1>2, <1>3, <1>4, <1>6 DEF Loads
<1> QED BY <1>5, <1>6

\* The table users changes by a Write of a handler, of a whole row.
LEMMA UsersChange ==
    ASSUME Types, NEW t \in Tasks, Handler(t)
    PROVE  \/ UNCHANGED <<users, changed, revoked>>
           \/ /\ task[t].pc \in {"toggle", "role", "addSave"} /\ Target(t) \in Users
              /\ \E row \in UserRow : Write(t, Target(t), row)
              /\ task[t].row \in UserRow => users[Target(t)] \in UserRow
              /\ task'[t].pc \in {"refresh", "added"}
<1> USE DEF stores, locks, observed
<1>1. TypeOK /\ RowsKept BY DEF Types
<1>2. CASE ToggleSave(t)
  <2>1. Target(t) \in Users BY <1>1, <1>2, LiveFields DEF ToggleSave, At
  <2>2. task[t].row \in UserRow BY <1>1, <1>2 DEF RowsKept, ToggleSave, At
  <2>3. [task[t].row EXCEPT !.active = ~@] \in UserRow BY <2>2 DEF UserRow
  <2>4. task'[t].pc = "refresh" BY <1>1, <1>2, GotoFrame DEF ToggleSave, At, Pcs
  <2> QED BY <1>1, <1>2, <2>1, <2>3, <2>4 DEF RowsKept, ToggleSave, At
<1>3. CASE RoleSave(t)
  <2>1. Target(t) \in Users /\ task[t].upd.role \in Roles
    BY <1>1, <1>3, LiveFields DEF RoleSave, At
  <2>2. task[t].row \in UserRow BY <1>1, <1>3 DEF RowsKept, RoleSave, At
  <2>3. NextRole[task[t].upd.role] \in Roles BY <2>1 DEF NextRole, Roles
  <2>4. [task[t].row EXCEPT !.role = NextRole[task[t].upd.role]] \in UserRow
    BY <2>2, <2>3 DEF UserRow
  <2>5. task'[t].pc = "refresh" BY <1>1, <1>3, GotoFrame DEF RoleSave, At, Pcs
  <2> QED BY <1>1, <1>3, <2>1, <2>4, <2>5 DEF RowsKept, RoleSave, At
<1>4. CASE AddSave(t)
  <2>1. task[t].pc = "addSave" BY <1>4 DEF AddSave, At
  <2>2. Target(t) \in Users /\ task[t].upd.role \in Roles BY <1>1, <2>1, LiveFields
  <2>3. NewUser(task[t].upd) \in UserRow BY <2>2 DEF NewUser, UserRow
  <2>4. Goto(t, "added") => task'[t].pc = "added" BY <1>1, <2>1, GotoFrame DEF Pcs
  <2> QED BY <1>1, <1>4, <2>1, <2>2, <2>3, <2>4 DEF RowsKept, AddSave
<1>5. CASE ~(ToggleSave(t) \/ RoleSave(t) \/ AddSave(t))
  BY <1>5 DEF Handler, ListUsers, Refresh, Report, Answer, ToggleLoad, RoleLoad,
              AddCheck, AddLoad, AddAudit, SizeAcquire, SizeRelease, QuotaLoad, QuotaSave
<1> QED BY <1>2, <1>3, <1>4, <1>5

\* Nobody is ever struck off.
LEMMA UsersStay ==
    ASSUME Types, NEW t \in Tasks, Handler(t), NEW u \in Users, users[u] \in UserRow
    PROVE  users'[u] \in UserRow
<1>1. CASE UNCHANGED users BY <1>1
<1>2. CASE \E row \in UserRow : /\ Write(t, Target(t), row)
                                /\ task[t].pc \in {"toggle", "role", "addSave"}
                                /\ Target(t) \in Users
                                /\ task[t].row \in UserRow => users[Target(t)] \in UserRow
  <2>1. TypeOK BY DEF Types
  <2>2. users'[Target(t)] \in UserRow /\ \A v \in Users : v # Target(t) => users'[v] = users[v]
    BY <1>2, <2>1, WriteTyped
  <2> QED BY <2>2
<1> QED BY <1>1, <1>2, UsersChange

\* Middlewares read the table users; their steps stay in their stages, lead to the
\* handler, or end the update.
LEMMA MiddlewareMoves ==
    ASSUME TypeOK, NEW t \in Tasks, Middleware(t)
    PROVE  /\ task'[t].pc \in Early \cup {"handle", "idle"}
           /\ task[t].pc \in Early \cup {"audit"}
           /\ UNCHANGED <<users, quota, sizeLock, changed, revoked, shown>>
<1>1. task[t].pc \in Early \cup {"audit"}
  BY DEF Middleware, LimitCheck, LimitIncrement, AuthCached, AuthAsk, AuthStore,
         AuthWhitelist, Deny, Audit, At, Early
<1>2. task[t].pc # "idle" BY <1>1 DEF Early
<1>3. UNCHANGED <<users, quota, sizeLock, changed, revoked, shown>>
  BY DEF Middleware, LimitCheck, LimitIncrement, AuthCached, AuthAsk, AuthStore,
         AuthWhitelist, Deny, Audit, stores, locks, telegram, observed
<1>4. CASE End(t)
  <2>1. task'[t] = Idle BY <1>4, HoldFrame DEF End
  <2> QED BY <1>1, <1>3, <2>1 DEF Idle
<1>5. CASE ~End(t)
  <2>1. \E p \in Early \cup {"handle"} :
          Goto(t, p) \/ \E who : Hold(t, [task[t] EXCEPT !.pc = p, !.who = who])
    BY <1>5 DEF Middleware, LimitCheck, LimitIncrement, AuthCached, AuthAsk, AuthStore,
                AuthWhitelist, Deny, Audit, Early, Decide, Authenticated
  <2>2. \A p \in Early \cup {"handle"} : p \in Pcs BY DEF Pcs
  <2> QED BY <1>1, <1>2, <1>3, <2>1, <2>2, GotoFrame
<1> QED BY <1>4, <1>5

\* An exception leads to the audit entry or ends the update.
LEMMA RaiseMoves ==
    ASSUME TypeOK, NEW t \in Tasks, Raise(t)
    PROVE  task'[t].pc \in {"audit", "idle"} /\ task[t].pc # "idle"
<1>1. task[t].pc # "idle" BY DEF Raise, InHandler, InStack
<1>2. End(t) => task'[t] = Idle BY HoldFrame DEF End
<1>3. Goto(t, "audit") => task'[t].pc = "audit" BY <1>1, GotoFrame DEF Pcs
<1> QED BY <1>1, <1>2, <1>3 DEF Raise, Idle

\* The steps, by what they do to the tasks.
OutsideStep == \/ \E u \in Users : IsolationExpires(u) \/ Dismiss(u)
               \/ SizeLockExpires \/ Tick

\* There are no others.
LEMMA StepKinds ==
    ASSUME [Next]_vars
    PROVE  \/ \E t \in Tasks : Middleware(t) \/ Handler(t) \/ Raise(t)
           \/ \E t \in Tasks : \E upd \in Sends[t] : Receive(t, upd)
           \/ OutsideStep \/ Crash \/ UNCHANGED vars
BY DEF Next, TaskStep, OutsideStep

\* A step that loads a row of the table loads the one of its target.
LEMMA LoadsRow ==
    ASSUME Types, NEW t \in Tasks, ToggleLoad(t) \/ RoleLoad(t) \/ AddLoad(t),
           task'[t].pc \in {"toggle", "role", "addSave"}
    PROVE  /\ task'[t].row = users[Target(t)]
           /\ ToggleLoad(t) \/ RoleLoad(t) => Registered(users[Target(t)])
           /\ UNCHANGED users
<1>1. TypeOK /\ task[t].pc # "idle"
  BY DEF Types, ToggleLoad, RoleLoad, AddLoad, Begin, At
<1>2. task[t] \in LiveTask BY <1>1, LiveTyped
<1>3. ASSUME Goto(t, "answer") PROVE FALSE
  <2>1. task'[t].pc = "answer" BY <1>1, <1>3, GotoFrame DEF Pcs, Slow
  <2> QED BY <2>1
<1>4. ASSUME NEW p, Hold(t, [task[t] EXCEPT !.pc = p, !.row = users[Target(t)]])
      PROVE  task'[t].row = users[Target(t)]
  <2> DEFINE state == [task[t] EXCEPT !.pc = p, !.row = users[Target(t)]]
  <2>1. state.row = users[Target(t)] BY <1>2 DEF LiveTask
  <2>2. task'[t] = state BY <1>1, <1>4, HoldFrame
  <2> QED BY <2>1, <2>2
<1> QED BY <1>3, <1>4 DEF ToggleLoad, RoleLoad, AddLoad, stores

\* Only handlers change the table users.
LEMMA UsersOnlyInHandlers ==
    ASSUME TypeOK, [Next]_vars, \A t \in Tasks : ~Handler(t)
    PROVE  UNCHANGED <<users, changed>>
<1> USE DEF stores, observed
<1>1. CASE \E t \in Tasks : Middleware(t) BY <1>1, MiddlewareMoves
<1>2. CASE \E t \in Tasks : Raise(t) BY <1>2 DEF Raise
<1>3. CASE \E t \in Tasks : \E upd \in Sends[t] : Receive(t, upd) BY <1>3 DEF Receive, Enter
<1>4. CASE OutsideStep
  BY <1>4 DEF OutsideStep, IsolationExpires, Dismiss, SizeLockExpires, Tick
<1>5. CASE Crash BY <1>5 DEF Crash
<1>6. CASE UNCHANGED vars BY <1>6 DEF vars
<1> QED BY <1>1, <1>2, <1>3, <1>4, <1>5, <1>6, StepKinds

\* Whoever is registered stays registered through every step.
LEMMA UsersStayRegistered ==
    ASSUME Types, [Next]_vars, NEW u \in Users, users[u] \in UserRow
    PROVE  users'[u] \in UserRow
BY UsersStay, UsersOnlyInHandlers DEF Types

\* What a task holds for its write stays a row of somebody who is registered.
LEMMA RowsKeptStep ==
    ASSUME Types, [Next]_vars
    PROVE  RowsKept'
<1>1. TypeOK BY DEF Types
<1>2. ASSUME NEW s \in Tasks, task'[s] = task[s]
      PROVE  /\ task'[s].pc \in {"toggle", "role"} =>
                  task'[s].row \in UserRow /\ users'[Target(s)'] \in UserRow
             /\ task'[s].pc = "addSave" /\ task'[s].row \in UserRow =>
                  users'[Target(s)'] \in UserRow
  <2>1. Target(s)' = Target(s) BY <1>2 DEF Target
  <2>2. task[s].pc \in {"toggle", "role", "addSave"} => Target(s) \in Users
    BY <1>1, LiveFields
  <2> QED BY <1>2, <2>1, <2>2, UsersStayRegistered DEF Types, RowsKept
<1>3. ASSUME NEW t \in Tasks, Middleware(t) \/ Handler(t) \/ Raise(t) PROVE RowsKept'
  <2>1. Frame(t) BY <1>1, <1>3, MiddlewareFrame, HandlerFrame, RaiseFrame
  <2>2. \A s \in Tasks : s # t => task'[s] = task[s] BY <2>1 DEF Frame
  <2>3. CASE task'[t].pc \notin {"toggle", "role", "addSave"}
    BY <1>2, <2>2, <2>3 DEF RowsKept
  <2>4. CASE task'[t].pc \in {"toggle", "role", "addSave"}
    <3>1. Handler(t)
      BY <1>1, <1>3, <2>4, MiddlewareMoves, RaiseMoves DEF Early
    <3>2. \/ ToggleLoad(t) /\ task'[t].pc = "toggle"
          \/ RoleLoad(t) /\ task'[t].pc = "role"
          \/ AddLoad(t) /\ task'[t].pc = "addSave"
      BY <1>1, <2>4, <3>1, HandlerMoves DEF Loads
    <3>3. /\ task'[t].row = users[Target(t)] /\ UNCHANGED users
          /\ task'[t].pc \in {"toggle", "role"} => Registered(users[Target(t)])
      BY <2>4, <3>2, LoadsRow
    <3>4. task'[t].upd = task[t].upd
      BY <2>1, <2>4, HoldFrame, <1>1 DEF Frame, End, Idle
    <3>5. Target(t)' = Target(t) /\ Target(t) \in Users
      <4>1. task[t].pc # "idle"
        BY <3>2 DEF ToggleLoad, RoleLoad, AddLoad, Begin, At
      <4> QED BY <1>1, <3>4, <4>1, LiveFields DEF Target
    <3>6. Registered(users[Target(t)]) => users[Target(t)] \in UserRow
      BY <1>1, <3>5 DEF TypeOK, Registered
    <3> QED BY <1>2, <2>2, <3>2, <3>3, <3>5, <3>6 DEF RowsKept
  <2> QED BY <2>3, <2>4
<1>4. ASSUME NEW t \in Tasks, NEW upd \in Sends[t], Receive(t, upd) PROVE RowsKept'
  <2>1. (\A s \in Tasks : s # t => task'[s] = task[s]) /\ task'[t].pc = "limit"
    BY <1>1, <1>4, HoldFrame DEF Receive, Enter
  <2> QED BY <1>2, <2>1 DEF RowsKept
<1>5. CASE OutsideStep \/ UNCHANGED vars
  <2>1. task' = task
    BY <1>5 DEF OutsideStep, IsolationExpires, Dismiss, SizeLockExpires, Tick, vars
  <2> QED BY <1>2, <2>1 DEF RowsKept
<1>6. CASE Crash
  BY <1>6 DEF Crash, RowsKept, Idle
<1> QED BY <1>3, <1>4, <1>5, <1>6, StepKinds

\* Every state has the types, and what tasks hold is good: the induction under all
\* that follows.
LEMMA TypesInit == Init => Types
<1> SUFFICES ASSUME Init PROVE Types OBVIOUS
<1>1. Shown \subseteq Users \X Roles /\ 0 \in Nat BY UpdatePipelineAssumption
<1>2. TypeOK BY <1>1, UpdatePipelineAssumption DEF Init, TypeOK, Uncached
<1>3. RowsKept BY DEF Init, RowsKept, Idle
<1> QED BY <1>2, <1>3 DEF Types

\* The types are inductive.
LEMMA TypesStep == Types /\ [Next]_vars => Types'
<1> SUFFICES ASSUME Types, [Next]_vars PROVE Types' OBVIOUS
<1>1. TypeOK BY DEF Types
<1>2. TypeOK'
  <2>1. UNCHANGED vars => TypeOK' BY <1>1 DEF vars, TypeOK, stores, locks, telegram, observed
  <2> QED BY <1>1, <2>1, TaskStepTyped, OutsideTyped DEF Next
<1> QED BY <1>2, RowsKeptStep DEF Types

\* The types hold in every reachable state.
LEMMA TypesKept == Spec => []Types
BY TypesInit, TypesStep, PTL DEF Spec

\* Every variable keeps its type, whatever updates come, fail or meet: no row of
\* the table users ever has an unknown role (Write, NewUser, NextRole).
THEOREM UpdatesTypeCorrect == Spec => []TypeOK
<1>1. Types => TypeOK BY DEF Types
<1> QED BY <1>1, TypesKept, PTL

-----------------------------------------------------------------------------
(***************************************************************************)
(* The lock of the size queries.                                           *)
(***************************************************************************)

QueryLocked == \A t \in Tasks : At(t, "query") => sizeLock = t

\* A handler takes the lock on its way into a query, and gives up no other task's.
LEMMA SizeSteps ==
    ASSUME TypeOK, QueryLocked, NEW t \in Tasks, Handler(t)
    PROVE  /\ task'[t].pc = "query" => sizeLock' = t
           /\ \A s \in Tasks : s # t /\ sizeLock = s => sizeLock' = s
<1>1. \A s \in Tasks : s # NoToken BY UpdatePipelineAssumption
<1>2. CASE SizeAcquire(t)
  <2>1. task[t].pc # "idle" BY <1>2 DEF SizeAcquire, Begin, At
  <2>2. \/ task'[t].pc = "audit"
        \/ task'[t].pc = "query" /\ sizeLock = NoToken /\ sizeLock' = t
    BY <1>2, <2>1, GotoFrame DEF SizeAcquire, SetNX, Pcs, Slow
  <2>3. sizeLock # NoToken => sizeLock' = sizeLock BY <1>2 DEF SizeAcquire, SetNX
  <2> QED BY <1>1, <2>2, <2>3
<1>3. CASE SizeRelease(t)
  <2>1. sizeLock = t BY <1>3 DEF SizeRelease, QueryLocked
  <2>2. task'[t].pc # "query"
    BY <1>3, HandlerMoves DEF SizeRelease, SizeAcquire, Begin, At, Loads
  <2> QED BY <2>1, <2>2
<1>4. CASE ~SizeAcquire(t) /\ ~SizeRelease(t)
  <2>1. UNCHANGED sizeLock
    BY <1>4 DEF Handler, ListUsers, Refresh, Report, Answer, ToggleLoad, ToggleSave, RoleLoad,
                RoleSave, AddCheck, AddLoad, AddSave, AddAudit, QuotaLoad, QuotaSave, locks
  <2>2. task'[t].pc # "query" BY <1>4, HandlerMoves DEF Loads
  <2> QED BY <2>1, <2>2
<1> QED BY <1>2, <1>3, <1>4

\* The invariant of the size lock is inductive.
LEMMA QueryLockedStep == Types /\ QueryLocked /\ [Next]_vars => QueryLocked'
<1> SUFFICES ASSUME Types, QueryLocked, [Next]_vars PROVE QueryLocked' OBVIOUS
<1>1. TypeOK BY DEF Types
<1>2. ASSUME NEW t \in Tasks, Middleware(t) \/ Raise(t) PROVE QueryLocked'
  <2>1. UNCHANGED sizeLock BY <1>1, <1>2, MiddlewareMoves, RaiseFrame
  <2>2. task'[t].pc # "query" BY <1>1, <1>2, MiddlewareMoves, RaiseMoves DEF Early
  <2>3. \A s \in Tasks : s # t => task'[s] = task[s]
    BY <1>1, <1>2, MiddlewareFrame, RaiseFrame DEF Frame
  <2> QED BY <2>1, <2>2, <2>3 DEF QueryLocked, At
<1>3. ASSUME NEW t \in Tasks, Handler(t) PROVE QueryLocked'
  <2>1. \A s \in Tasks : s # t => task'[s] = task[s] BY <1>1, <1>3, HandlerFrame DEF Frame
  <2> QED BY <1>1, <1>3, <2>1, SizeSteps DEF QueryLocked, At
<1>4. ASSUME NEW t \in Tasks, NEW upd \in Sends[t], Receive(t, upd) PROVE QueryLocked'
  <2>1. (\A s \in Tasks : s # t => task'[s] = task[s]) /\ task'[t].pc = "limit"
    BY <1>1, <1>4, HoldFrame DEF Receive, Enter
  <2> QED BY <1>4, <2>1 DEF QueryLocked, At, Receive, Enter
<1>5. CASE OutsideStep
  BY <1>5 DEF OutsideStep, IsolationExpires, Dismiss, SizeLockExpires, Tick, QueryLocked, At,
              locks
<1>6. CASE Crash BY <1>6 DEF Crash, QueryLocked, At, Idle
<1>7. CASE UNCHANGED vars BY <1>7 DEF vars, locks, QueryLocked, At
<1> QED BY <1>2, <1>3, <1>4, <1>5, <1>6, <1>7, StepKinds

\* Size queries exclude each other across errors, crashes and the lock's expiry
\* (QuerySizeUseCase.execute): whoever queries holds the lock.
THEOREM SizeQueriesAreExclusive == Spec => []SizeQueriesExclusive
<1>1. Init => QueryLocked BY DEF Init, QueryLocked, At, Idle
<1>2. QueryLocked => SizeQueriesExclusive BY DEF QueryLocked, SizeQueriesExclusive
<1> QED BY <1>1, <1>2, TypesKept, QueryLockedStep, PTL DEF Spec

\* Tasks get their numbers as they come in.
Numbered == \A t \in Tasks : Live(t) => t <= received

\* A task that is under way after a step was so before, or has just come in.
LEMMA NumberedStep == Types /\ Numbered /\ [Next]_vars => Numbered'
<1> SUFFICES ASSUME Types, Numbered, [Next]_vars PROVE Numbered' OBVIOUS
<1>1. TypeOK /\ Tasks \subseteq Nat /\ received \in Nat
  BY UpdatePipelineAssumption DEF Types, TypeOK, Tasks
<1>2. ASSUME NEW t \in Tasks, Middleware(t) \/ Handler(t) \/ Raise(t) PROVE Numbered'
  <2>1. Frame(t) BY <1>1, <1>2, MiddlewareFrame, HandlerFrame, RaiseFrame
  <2>2. Live(t)
    BY <1>1, <1>2, MiddlewareMoves, HandlerLive, RaiseMoves DEF Live, Early
  <2> QED BY <2>1, <2>2 DEF Frame, Numbered, Live
<1>3. ASSUME NEW t \in Tasks, NEW upd \in Sends[t], Receive(t, upd) PROVE Numbered'
  <2>1. (\A s \in Tasks : s # t => task'[s] = task[s]) /\ received' = t /\ t = received + 1
    BY <1>1, <1>3, HoldFrame DEF Receive, Enter
  <2>2. ASSUME NEW s \in Tasks, Live(s)', s # t PROVE s <= received'
    <3>1. s <= received BY <2>1, <2>2 DEF Numbered, Live
    <3> QED BY <1>1, <2>1, <3>1
  <2>3. t <= received' BY <1>1, <2>1
  <2> QED BY <2>2, <2>3 DEF Numbered
<1>4. CASE OutsideStep \/ UNCHANGED vars
  <2>1. UNCHANGED <<task, received>>
    BY <1>4 DEF OutsideStep, IsolationExpires, Dismiss, SizeLockExpires, Tick, vars
  <2> QED BY <2>1 DEF Numbered, Live
<1>5. CASE Crash BY <1>5 DEF Crash, Numbered, Live, Idle
<1> QED BY <1>2, <1>3, <1>4, <1>5, StepKinds

\* Who may keep a user's lock, and who the size lock.
UpdateOwners == \A u \in Users : isolation[u] \in Tasks => Holds(isolation[u], u)
SizeOwner == sizeLock \in Tasks => At(sizeLock, "query")

\* A user's lock is given up at the end of its update.
LEMMA UpdateOwnersStep ==
    ASSUME Types, Numbered, UpdateOwners, [Next]_vars
    PROVE  UpdateOwners'
<1>1. /\ TypeOK /\ NoToken \notin Tasks /\ Orphan \notin Tasks
      /\ Tasks \subseteq Nat /\ received \in Nat
  BY UpdatePipelineAssumption DEF Types, TypeOK, Tasks
<1>2. ASSUME NEW t \in Tasks, Middleware(t) \/ Handler(t) \/ Raise(t) PROVE UpdateOwners'
  <2>1. Frame(t) BY <1>1, <1>2, MiddlewareFrame, HandlerFrame, RaiseFrame
  <2>2. Live(t) /\ Sender(t) \in Users
    <3>1. Live(t) BY <1>1, <1>2, MiddlewareMoves, HandlerLive, RaiseMoves DEF Live, Early
    <3> QED BY <1>1, <3>1, LiveFields DEF Live
  <2> SUFFICES ASSUME NEW u \in Users, isolation'[u] \in Tasks
               PROVE  Holds(isolation[u], u)'
    BY DEF UpdateOwners
  <2>3. isolation'[u] = isolation[u]
    BY <1>1, <2>1, <2>2 DEF Frame, End, ReleaseScript, TypeOK
  <2>4. Holds(isolation[u], u) BY <2>3 DEF UpdateOwners
  <2>5. CASE isolation[u] = t
    <3>1. Sender(t) = u BY <2>4, <2>5 DEF Holds
    <3>2. ~End(t) BY <1>1, <2>2, <2>3, <2>5, <3>1 DEF End, ReleaseScript, TypeOK
    <3> QED BY <2>1, <2>3, <2>5, <3>1, <3>2 DEF Frame, Holds, Live, Sender
  <2>6. CASE isolation[u] # t
    BY <2>1, <2>3, <2>4, <2>6 DEF Frame, Holds, Live, Sender
  <2> QED BY <2>5, <2>6
<1>3. ASSUME NEW t \in Tasks, NEW upd \in Sends[t], Receive(t, upd) PROVE UpdateOwners'
  <2>1. /\ \A s \in Tasks : s # t => task'[s] = task[s]
        /\ task'[t].pc = "limit" /\ task'[t].upd = upd
    BY <1>1, <1>3, HoldFrame DEF Receive, Enter
  <2>2. upd.from \in Users BY UpdatePipelineAssumption DEF Update
  <2>3. isolation' = [isolation EXCEPT ![upd.from] = t]
    BY <1>3 DEF Receive, Enter, SetNX
  <2>4. ~Live(t) BY <1>1, <1>3 DEF Numbered, Receive, Enter
  <2>5. Holds(t, upd.from)' BY <1>1, <2>1, <2>2, <2>3 DEF Holds, Live, Sender, TypeOK
  <2>6. ASSUME NEW u \in Users, u # upd.from, isolation'[u] \in Tasks
        PROVE  Holds(isolation[u], u)'
    <3>1. isolation'[u] = isolation[u] BY <1>1, <2>3, <2>6 DEF TypeOK
    <3>2. Holds(isolation[u], u) /\ isolation[u] # t
      BY <2>4, <2>6, <3>1 DEF UpdateOwners, Holds
    <3> QED BY <2>1, <2>6, <3>1, <3>2 DEF Holds, Live, Sender
  <2>7. isolation'[upd.from] = t BY <1>1, <2>2, <2>3 DEF TypeOK
  <2> QED BY <2>5, <2>6, <2>7 DEF UpdateOwners
<1>4. CASE OutsideStep \/ UNCHANGED vars
  <2>1. UNCHANGED task /\ \A u \in Users : isolation'[u] \in {isolation[u], NoToken}
    BY <1>1, <1>4 DEF OutsideStep, IsolationExpires, Dismiss, SizeLockExpires, Tick, vars,
                      locks, TypeOK
  <2> QED BY <1>1, <2>1 DEF UpdateOwners, Holds, Live, Sender
<1>5. CASE Crash BY <1>1, <1>5 DEF Crash, UpdateOwners, TypeOK
<1> QED BY <1>2, <1>3, <1>4, <1>5, StepKinds

\* The size lock is given up when the query is over; a release that Redis fails leaves
\* it to nobody.
LEMMA SizeOwnerStep ==
    ASSUME Types, Numbered, QueryLocked, SizeOwner, [Next]_vars
    PROVE  SizeOwner'
<1> SUFFICES ASSUME sizeLock' \in Tasks PROVE At(sizeLock, "query")'
  BY DEF SizeOwner
<1>1. /\ TypeOK /\ NoToken \notin Tasks /\ Orphan \notin Tasks
      /\ Tasks \subseteq Nat /\ received \in Nat
  BY UpdatePipelineAssumption DEF Types, TypeOK, Tasks
<1>2. sizeLock \in Tasks => At(sizeLock, "query") BY DEF SizeOwner
<1>3. ASSUME NEW t \in Tasks, Middleware(t) \/ Handler(t) \/ Raise(t),
             UNCHANGED sizeLock, ~At(t, "query")
      PROVE  At(sizeLock, "query")'
  <2>1. Frame(t) BY <1>1, <1>3, MiddlewareFrame, HandlerFrame, RaiseFrame
  <2>2. sizeLock # t /\ At(sizeLock, "query") BY <1>2, <1>3
  <2> QED BY <1>3, <2>1, <2>2 DEF Frame, At
<1>4. ASSUME NEW t \in Tasks, Middleware(t) \/ Raise(t) PROVE At(sizeLock, "query")'
  <2>1. UNCHANGED sizeLock BY <1>1, <1>4, MiddlewareMoves, RaiseFrame
  <2>2. ~At(t, "query")
    BY <1>1, <1>4, MiddlewareMoves DEF Raise, InHandler, InStack, Early, At
  <2> QED BY <1>3, <1>4, <2>1, <2>2
<1>5. ASSUME NEW t \in Tasks, Handler(t) PROVE At(sizeLock, "query")'
  <2>1. CASE SizeAcquire(t)
    <3>1. task[t].pc # "idle" /\ ~At(t, "query") BY <2>1 DEF SizeAcquire, Begin, At
    <3>2. CASE sizeLock = NoToken
      <4>1. Goto(t, "query") /\ sizeLock' = t BY <1>1, <2>1, <3>2 DEF SizeAcquire, SetNX
      <4>2. task'[t].pc = "query" BY <1>1, <3>1, <4>1, GotoFrame DEF Pcs, Slow
      <4> QED BY <4>1, <4>2 DEF At
    <3>3. CASE sizeLock # NoToken
      BY <1>3, <1>5, <2>1, <3>1, <3>3 DEF SizeAcquire, SetNX
    <3> QED BY <3>2, <3>3
  <2>2. CASE SizeRelease(t)
    <3>1. sizeLock = t BY <2>2 DEF SizeRelease, QueryLocked
    <3>2. sizeLock' \in {NoToken, Orphan} BY <2>2, <3>1 DEF SizeRelease, ReleaseScript
    <3> QED BY <1>1, <3>2
  <2>3. CASE ~SizeAcquire(t) /\ ~SizeRelease(t)
    <3>1. UNCHANGED sizeLock
      BY <1>5, <2>3 DEF Handler, ListUsers, Refresh, Report, Answer, ToggleLoad, ToggleSave,
           RoleLoad, RoleSave, AddCheck, AddLoad, AddSave, AddAudit, QuotaLoad, QuotaSave, locks
    <3>2. ~At(t, "query")
      BY <1>5, <2>3 DEF Handler, ListUsers, Refresh, Report, Answer, ToggleLoad, ToggleSave,
           RoleLoad, RoleSave, AddCheck, AddLoad, AddSave, AddAudit, QuotaLoad, QuotaSave,
           Begin, At
    <3> QED BY <1>3, <1>5, <3>1, <3>2
  <2> QED BY <2>1, <2>2, <2>3
<1>6. ASSUME NEW t \in Tasks, NEW upd \in Sends[t], Receive(t, upd)
      PROVE  At(sizeLock, "query")'
  <2>1. /\ \A s \in Tasks : s # t => task'[s] = task[s]
        /\ UNCHANGED sizeLock /\ t = received + 1
    BY <1>1, <1>6, HoldFrame DEF Receive, Enter
  <2>2. ~Live(t) BY <1>1, <2>1 DEF Numbered
  <2>3. At(sizeLock, "query") /\ sizeLock # t BY <1>2, <2>1, <2>2 DEF Live, At
  <2> QED BY <2>1, <2>3 DEF At
<1>7. CASE OutsideStep \/ UNCHANGED vars
  <2>1. UNCHANGED task /\ (sizeLock' = sizeLock \/ sizeLock' = NoToken)
    BY <1>7 DEF OutsideStep, IsolationExpires, Dismiss, SizeLockExpires, Tick, vars, locks
  <2> QED BY <1>1, <1>2, <2>1 DEF At
<1>8. CASE Crash BY <1>1, <1>8 DEF Crash
<1> QED BY <1>4, <1>5, <1>6, <1>7, <1>8, StepKinds

\* Nobody but the dead keeps a lock, but where Redis fails: every way out of the update
\* stack releases the user's lock (aiogram's lock context), every way out of a size
\* query the global one (the finally block of QuerySizeUseCase.execute).
THEOREM LocksAreOwned == Spec => []LocksHaveOwners
<1>1. Init => Numbered /\ UpdateOwners /\ SizeOwner /\ QueryLocked
  BY UpdatePipelineAssumption
     DEF Init, Numbered, UpdateOwners, SizeOwner, QueryLocked, Live, Idle, At
<1>2. Types /\ Numbered /\ UpdateOwners /\ SizeOwner /\ QueryLocked /\ [Next]_vars
        => (Numbered /\ UpdateOwners /\ SizeOwner /\ QueryLocked)'
  BY NumberedStep, UpdateOwnersStep, SizeOwnerStep, QueryLockedStep
<1>3. UpdateOwners /\ SizeOwner => LocksHaveOwners
  BY DEF UpdateOwners, SizeOwner, LocksHaveOwners
<1> QED BY <1>1, <1>2, <1>3, TypesKept, PTL DEF Spec

-----------------------------------------------------------------------------
(***************************************************************************)
(* The audit entry of every change.                                        *)
(***************************************************************************)

\* Where a task can still be when it has changed the table users.
AfterChange == {"refresh", "added", "answer", "audit"}

Accounted(t) == <<t, "TELEGRAM_INTERACTION">> \in log \/ t \in lost

AuditInv ==
    /\ \A t \in Tasks : Live(t) => t <= received
    /\ \A t \in changed :
         /\ t <= received
         /\ Live(t) => task[t].pc \in AfterChange
         /\ ~Live(t) => Accounted(t)

\* Audit entries stay.
LEMMA AuditGrows ==
    ASSUME TypeOK, [Next]_vars
    PROVE  log \subseteq log' /\ lost \subseteq lost'
<1> USE DEF stores, observed, Record
<1>1. CASE \E t \in Tasks : Middleware(t)
  BY <1>1 DEF Middleware, LimitCheck, LimitIncrement, AuthCached, AuthAsk, AuthStore,
              AuthWhitelist, Deny, Audit
<1>2. CASE \E t \in Tasks : Handler(t)
  BY <1>2 DEF Handler, ListUsers, Refresh, Report, Answer, ToggleLoad, ToggleSave, RoleLoad,
              RoleSave, AddCheck, AddLoad, AddSave, AddAudit, SizeAcquire, SizeRelease,
              QuotaLoad, QuotaSave
<1>3. CASE \E t \in Tasks : Raise(t) BY <1>3 DEF Raise
<1>4. CASE \E t \in Tasks : \E upd \in Sends[t] : Receive(t, upd) BY <1>4 DEF Receive, Enter
<1>5. CASE OutsideStep
  BY <1>5 DEF OutsideStep, IsolationExpires, Dismiss, SizeLockExpires, Tick
<1>6. CASE Crash BY <1>6 DEF Crash
<1>7. CASE UNCHANGED vars BY <1>7 DEF vars
<1> QED BY <1>1, <1>2, <1>3, <1>4, <1>5, <1>6, <1>7, StepKinds

\* After its change a handler goes on to the audit entry, and nowhere else.
LEMMA AfterChangeStays ==
    ASSUME TypeOK, NEW t \in Tasks, Handler(t), task[t].pc \in AfterChange
    PROVE  task'[t].pc \in AfterChange
<1>1. Refresh(t) \/ AddAudit(t) \/ Answer(t)
  BY DEF Handler, ListUsers, Report, ToggleLoad, ToggleSave, RoleLoad, RoleSave, AddCheck,
         AddLoad, AddSave, SizeAcquire, SizeRelease, QuotaLoad, QuotaSave, Begin, At, AfterChange
<1>2. task[t].pc # "idle" BY DEF AfterChange
<1> QED BY <1>1, <1>2, GotoFrame DEF Refresh, AddAudit, Answer, Pcs, Slow, AfterChange

\* The invariant after a step of one task, from what the step did to that task.
LEMMA AuditInvMoves ==
    ASSUME TypeOK, AuditInv, log \subseteq log', lost \subseteq lost', NEW t \in Tasks,
           \A s \in Tasks : s # t => task'[s] = task[s],
           received' \in Nat, received <= received', t <= received',
           changed' \subseteq changed \cup {t},
           t \in changed' => IF Live(t)' THEN task'[t].pc \in AfterChange ELSE Accounted(t)'
    PROVE  AuditInv'
<1>1. \A s \in Tasks : s \in Nat BY UpdatePipelineAssumption DEF Tasks
<1>2. received \in Nat /\ changed \subseteq Tasks BY DEF TypeOK
<1>3. \A s \in Tasks : Live(s)' => s <= received' BY <1>1, <1>2 DEF AuditInv, Live
<1>4. ASSUME NEW s \in changed', s # t
      PROVE  /\ s <= received'
             /\ Live(s)' => task'[s].pc \in AfterChange
             /\ ~Live(s)' => Accounted(s)'
  <2>1. s \in changed /\ s \in Tasks /\ task'[s] = task[s] BY <1>2, <1>4
  <2>2. s <= received' BY <1>1, <1>2, <2>1 DEF AuditInv
  <2> QED BY <2>1, <2>2 DEF AuditInv, Live, Accounted
<1> QED BY <1>3, <1>4 DEF AuditInv

\* The invariant of the audit entries is inductive.
LEMMA AuditInvStep == Types /\ AuditInv /\ [Next]_vars => AuditInv'
<1> SUFFICES ASSUME Types, AuditInv, [Next]_vars PROVE AuditInv' OBVIOUS
<1>1. TypeOK /\ TypeOK' BY TypesStep DEF Types
<1>2. log \subseteq log' /\ lost \subseteq lost' BY <1>1, AuditGrows
<1>3. ASSUME NEW t \in Tasks, Middleware(t) \/ Raise(t) PROVE AuditInv'
  <2>1. /\ \A s \in Tasks : s # t => task'[s] = task[s]
        /\ UNCHANGED <<received, changed>> /\ received' \in Nat
    BY <1>1, <1>3, MiddlewareFrame, MiddlewareMoves, RaiseFrame DEF Frame, observed, TypeOK
  <2>2. task[t].pc # "idle" /\ t <= received
    BY <1>1, <1>3, MiddlewareMoves, RaiseMoves DEF Early, AuditInv, Live
  <2>3. t \in changed => task[t].pc \in AfterChange BY <2>2 DEF AuditInv, Live
  <2>4. CASE Middleware(t) /\ t \in changed
    <3>1. Audit(t)
      BY <2>3, <2>4 DEF Middleware, LimitCheck, LimitIncrement, AuthCached, AuthAsk, AuthStore,
                        AuthWhitelist, Deny, At, AfterChange
    <3>2. task'[t] = Idle BY <1>1, <3>1, HoldFrame DEF Audit, End
    <3>3. Accounted(t)' BY <3>1 DEF Audit, Record, Accounted
    <3>4. ~Live(t)' BY <3>2 DEF Live, Idle
    <3> QED BY <1>1, <1>2, <2>1, <2>2, <3>3, <3>4, AuditInvMoves
  <2>5. CASE Raise(t) /\ t \in changed
    <3>1. Goto(t, "audit") BY <2>3, <2>5 DEF Raise, InStack, AfterChange
    <3>2. task'[t].pc = "audit" BY <1>1, <2>2, <3>1, GotoFrame DEF Pcs
    <3>3. Live(t)' /\ task'[t].pc \in AfterChange BY <3>2 DEF Live, AfterChange
    <3> QED BY <1>1, <1>2, <2>1, <2>2, <3>3, AuditInvMoves
  <2>6. CASE t \notin changed BY <1>1, <1>2, <2>1, <2>2, <2>6, AuditInvMoves
  <2> QED BY <1>3, <2>4, <2>5, <2>6
<1>4. ASSUME NEW t \in Tasks, Handler(t) PROVE AuditInv'
  <2>1. /\ \A s \in Tasks : s # t => task'[s] = task[s]
        /\ received' = received /\ received' \in Nat /\ Live(t)'
    BY <1>1, <1>4, HandlerFrame, HandlerMoves DEF Frame, Pcs, Early, Slow, Live, TypeOK
  <2>2. task[t].pc # "idle"
    BY <1>4, HandlerLive
  <2>3. changed' \subseteq changed \cup {t} /\ (t \in changed' => task'[t].pc \in AfterChange)
    <3>1. t \in changed => task'[t].pc \in AfterChange
      BY <1>1, <1>4, <2>2, AfterChangeStays DEF AuditInv, Live
    <3> QED BY <1>4, <3>1, UsersChange DEF Write, AfterChange
  <2>4. t <= received BY <2>2 DEF AuditInv, Live
  <2> QED BY <1>1, <1>2, <2>1, <2>3, <2>4, AuditInvMoves
<1>5. ASSUME NEW t \in Tasks, NEW upd \in Sends[t], Receive(t, upd) PROVE AuditInv'
  <2>1. \A s \in Tasks : s # t => task'[s] = task[s]
    BY <1>1, <1>5, HoldFrame DEF Receive, Enter
  <2>2. t = received + 1 /\ received' = t /\ UNCHANGED changed
    BY <1>5 DEF Receive, Enter, observed
  <2>3. \A s \in Tasks : s \in Nat BY UpdatePipelineAssumption DEF Tasks
  <2>4. received \in Nat /\ changed \subseteq Tasks BY <1>1 DEF TypeOK
  <2>5. t \notin changed BY <2>2, <2>3, <2>4 DEF AuditInv
  <2>6. received' \in Nat /\ received <= received' /\ t <= received' BY <2>2, <2>3, <2>4
  <2> QED BY <1>1, <1>2, <2>1, <2>2, <2>5, <2>6, AuditInvMoves
<1>6. CASE OutsideStep \/ UNCHANGED vars
  <2>1. UNCHANGED <<task, received, changed>>
    BY <1>6 DEF OutsideStep, IsolationExpires, Dismiss, SizeLockExpires, Tick, vars, observed
  <2> QED BY <1>2, <2>1 DEF AuditInv, Accounted, Live
<1>7. CASE Crash
  <2>1. changed \subseteq Tasks BY <1>1 DEF TypeOK
  <2> QED BY <1>2, <1>7, <2>1 DEF Crash, AuditInv, Accounted, Live, Idle
<1> QED BY <1>3, <1>4, <1>5, <1>6, <1>7, StepKinds

\* No change of the table users goes without its audit entry (AuditMiddleware's
\* finally block), unless the bot dies or the entry itself fails.
THEOREM ChangesGetAudited == Spec => []ChangesAreAudited
<1>1. Init => AuditInv BY DEF Init, AuditInv, Live, Idle
<1>2. AuditInv => ChangesAreAudited BY DEF AuditInv, Accounted, ChangesAreAudited
<1> QED BY <1>1, <1>2, TypesKept, AuditInvStep, PTL DEF Spec
=============================================================================
