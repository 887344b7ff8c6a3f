---------------------------- MODULE UpdatePipeline ----------------------------
(***************************************************************************)
(* The bot's way of an update (app/telegram): the middleware stack, and    *)
(* the handlers of the routers admin and size.  aiogram runs every update  *)
(* as a task; the tasks of one user in the chat are serialised by a lock   *)
(* in Redis (RedisEventIsolation), the tasks of different users are not.   *)
(*                                                                         *)
(* A task goes through these stages, one step per access to shared state:  *)
(*   limit, increment      RateLimitMiddleware on the Redis sorted set     *)
(*   auth, ask, answered   TelegramRoleValidator: cache, API call, store   *)
(*   whitelist             AuthMiddleware's fallback, the table users      *)
(*   denied                RoleMiddleware refuses                          *)
(*   handle ...            the handler of the update's kind                *)
(*   answer                its last message to the chat                    *)
(*   audit                 AuditMiddleware's finally block                 *)
(* The middlewares keep the principal they found; no handler reads it      *)
(* again.  The handlers of /backup, /cancel and the request behind the     *)
(* confirmation button continue in BackupWizard and BackupPlatform.        *)
(***************************************************************************)
EXTENDS RateLimit, Permissions, RedisLockManager

CONSTANTS
    Users,          \* Telegram users of the chat
    Sends,          \* [Tasks -> sets of Update]: what the first may be, ...
    Administrators, \* administrators of the chat, at the start
    Whitelist,      \* [Users -> UserRow or NoUserRow], the table at the start
    Shown,          \* the role buttons that are in the chat at the start
    Ttl,            \* how long an answer of Telegram is cached
    Orphan,         \* a token that no task knows any more
    MaxUpdates,     \* bound on the updates
    Horizon,        \* bound on the clock
    Faults          \* subset of {"raise", "telegram", "redis", "crash", "audit"}

\* The asyncio tasks that handle the updates, numbered as these come in.
Tasks == 1..MaxUpdates

\* An update: who sent it, its kind, the topic it was sent in, and for the kinds
\* about a user that user and a role (the role to register with /auth, the role
\* the pressed button shows).
Update == [from : Users, kind : Kinds, topic : Topics, target : Users, role : Roles]

ASSUME UpdatePipelineAssumption ==
    /\ Sends \in [Tasks -> SUBSET Update]
    /\ Administrators \subseteq Users
    /\ Whitelist \in [Users -> UserRow \cup {NoUserRow}]
    /\ Shown \subseteq {b \in Users \X Roles : Registered(Whitelist[b[1]])}
    /\ Ttl \in Nat \ {0} /\ MaxUpdates \in Nat /\ Horizon \in Nat
    /\ NoToken \notin Tasks /\ Orphan \notin Tasks /\ NoToken # Orphan

VARIABLES
    now,          \* the clock
    hits,         \* Redis: the sorted set of each user and action
    quota,        \* table rate_limits: the rows of each user for BACKUP
    users,        \* table users
    log,          \* table audit_logs: <<task, action>>
    isolation,    \* Redis: each user's update lock
    sizeLock,     \* Redis: size_query:global
    cache,        \* the role validator's answers [admin, until], in memory
    admins,       \* Telegram: who is an administrator of the chat
    shown,        \* the role buttons in the chat: <<user, role>>
    task,         \* where each task is, and what it holds
    received,     \* updates so far
    \* Observation only: every admission by the rate limiter, the tasks whose
    \* handler changed the table users and those whose audit entry was lost, when
    \* each user lost an administrator's rights, and the tasks of each user whose
    \* update lock expired before their handler had done its work.
    admitted, changed, lost, revoked, overtaken

stores   == <<hits, quota, users, log>>
locks    == <<isolation, sizeLock>>
telegram == <<admins, shown>>
observed == <<admitted, changed, lost, revoked, overtaken>>
vars == <<now, stores, locks, cache, telegram, task, received, observed>>

Keys == Users \X Actions
Uncached == [admin |-> FALSE, until |-> 0]
Idle == [pc |-> "idle"]

Init ==
    /\ now = 0
    /\ hits = [k \in Keys |-> {}]
    /\ quota = [u \in Users |-> {}]
    /\ users = Whitelist
    /\ log = {}
    /\ isolation = [u \in Users |-> NoToken]
    /\ sizeLock = NoToken
    /\ cache = [u \in Users |-> Uncached]
    /\ admins = Administrators
    /\ shown = Shown
    /\ task = [t \in Tasks |-> Idle]
    /\ received = 0
    /\ admitted = {} /\ changed = {} /\ lost = {}
    /\ revoked = [u \in Users |-> {}]
    /\ overtaken = [u \in Users |-> {}]

Live(t) == task[t].pc # "idle"
Kind(t) == task[t].upd.kind
Sender(t) == task[t].upd.from
Key(t)  == <<Sender(t), CommandOf(Kind(t))>>

\* Shared step helpers: a task moves on, keeping or changing what it holds.
At(t, from)       == task[t].pc = from
Hold(t, state)    == task' = [task EXCEPT ![t] = state]
Goto(t, to)       == Hold(t, [task[t] EXCEPT !.pc = to])
Record(t, action) == log' = log \cup {<<t, action>>}

\* The update is over, by an answer or by an exception that
\* ErrorHandlerMiddleware swallows; the lock is released if it still is its own.
End(t) ==
    /\ Hold(t, Idle)
    /\ isolation' = [isolation EXCEPT ![Sender(t)] = ReleaseScript(@, t)]

-----------------------------------------------------------------------------
(***************************************************************************)
(* The middlewares.                                                        *)
(***************************************************************************)

\* Only what arrives in a designated topic of the configured chat passes the
\* TopicFilterMiddleware; the rest is answered or dropped without an effect.  A
\* role or toggle button can be pressed as long as its message is in the chat.
MaySend(upd) ==
    /\ upd.kind = "role" => <<upd.target, upd.role>> \in shown
    /\ upd.kind = "toggle" => \E r \in Roles : <<upd.target, r>> \in shown

Enter(t, upd) ==
    /\ t = received + 1
    /\ MaySend(upd)
    /\ Hold(t, [pc |-> "limit", upd |-> upd,
                who |-> NoUserRow, row |-> NoUserRow, quota |-> {}, second |-> FALSE,
                begun |-> now, known |-> {v \in Users : Registered(users[v])}])
    /\ received' = t
    /\ isolation' = [isolation EXCEPT ![upd.from] = SetNX(@, t)]
    /\ UNCHANGED <<now, stores, sizeLock, cache, telegram, observed>>

\* Mutant of Receive: updates of one user are not serialised.
ReceiveAtOnce(t, upd) == Enter(t, upd)

\* A task gets the lock of the update's sender and enters the stack.  (In "begun"
\* and "known" the task remembers, for the properties only, when that was and
\* who was registered.)
Receive(t, upd) == isolation[upd.from] = NoToken /\ Enter(t, upd)

\* RateLimitMiddleware: check_limit, and a reply instead of the handler when the
\* window is full; an update that is refused is not counted.
LimitCheck(t) ==
    /\ At(t, "limit")
    /\ hits' = [hits EXCEPT ![Key(t)] = Trim(@, now)]
    /\ \/ HasRoom(hits[Key(t)], now) /\ Goto(t, "increment") /\ UNCHANGED isolation
       \/ ~HasRoom(hits[Key(t)], now) /\ End(t)
    /\ UNCHANGED <<now, quota, users, log, sizeLock, cache, telegram, received, observed>>

LimitIncrement(t) ==
    LET entry == [key |-> Key(t), at |-> now, serial |-> t] IN
    /\ At(t, "increment")
    /\ hits' = [hits EXCEPT ![Key(t)] = Added(@, now, entry)]
    /\ admitted' = admitted \cup {entry}
    /\ Goto(t, "auth")
    /\ UNCHANGED <<now, quota, users, log, locks, cache, telegram, received,
                   changed, lost, revoked, overtaken>>

\* Mutant of FromCache: an answer is good for ever.
FromCacheForEver(u) == cache[u].until > 0

\* is_admin: an entry of the TTL cache is valid until it expires.
FromCache(u) == now < cache[u].until

\* RoleMiddleware, at once after the user is known: an update without a command
\* passes, any other needs the right to its command in its topic.
Allowed(t, user) ==
    LET command == CommandOf(Kind(t)) IN
    command \in Commands => CanExecute(user, command, task[t].upd.topic)

Authenticated(t, user) ==
    Hold(t, [task[t] EXCEPT !.pc = IF Allowed(t, user) THEN "handle" ELSE "denied", !.who = user])

\* A cached or new answer decides: an administrator of the chat is an ADMIN,
\* anybody else is looked up in the table.
Decide(t, admin) ==
    \/ admin /\ Authenticated(t, Administrator)
    \/ ~admin /\ Goto(t, "whitelist")

AuthCached(t) ==
    /\ At(t, "auth")
    /\ \/ FromCache(Sender(t)) /\ Decide(t, cache[Sender(t)].admin)
       \/ ~FromCache(Sender(t)) /\ Goto(t, "ask")
    /\ UNCHANGED <<now, stores, locks, cache, telegram, received, observed>>

\* External: Telegram answers get_chat_member; an API error counts as "no" and
\* is not cached.
AuthAsk(t) ==
    /\ At(t, "ask")
    /\ \/ Hold(t, [task[t] EXCEPT !.pc = "answered",
                     !.who = IF Sender(t) \in admins THEN Administrator ELSE NoUserRow])
       \/ "telegram" \in Faults /\ Goto(t, "whitelist")
    /\ UNCHANGED <<now, stores, locks, cache, telegram, received, observed>>

AuthStore(t) ==
    /\ At(t, "answered")
    /\ cache' = [cache EXCEPT ![Sender(t)] =
                   [admin |-> IsAdmin(task[t].who), until |-> now + Ttl]]
    /\ Decide(t, IsAdmin(task[t].who))
    /\ UNCHANGED <<now, stores, locks, telegram, received, observed>>

\* AuthMiddleware: who is not registered or not active is denied.
AuthWhitelist(t) ==
    /\ At(t, "whitelist")
    /\ LET user == users[Sender(t)] IN
       \/ /\ user.active
          /\ Authenticated(t, user)
          /\ UNCHANGED <<log, isolation>>
       \/ /\ ~user.active
          /\ Record(t, "AUTH_DENIED")
          /\ End(t)
    /\ UNCHANGED <<now, hits, quota, users, sizeLock, cache, telegram, received, observed>>

Deny(t) ==
    /\ At(t, "denied")
    /\ Record(t, "PERMISSION_DENIED")
    /\ End(t)
    /\ UNCHANGED <<now, hits, quota, users, sizeLock, cache, telegram, received, observed>>

\* AuditMiddleware logs the interaction after the handler, whether it returned
\* or raised; an error of that entry is swallowed.
Audit(t) ==
    /\ At(t, "audit")
    /\ \/ Record(t, "TELEGRAM_INTERACTION") /\ UNCHANGED lost
       \/ "audit" \in Faults /\ lost' = lost \cup {t} /\ UNCHANGED log
    /\ End(t)
    /\ UNCHANGED <<now, hits, quota, users, sizeLock, cache, telegram, received,
                   admitted, changed, revoked, overtaken>>

-----------------------------------------------------------------------------
(***************************************************************************)
(* The handlers.  A handler ends with a message to the chat; an error in   *)
(* it goes to the audit entry.                                             *)
(***************************************************************************)

Begin(t, kinds) == At(t, "handle") /\ Kind(t) \in kinds
AsAdmin(t)      == IsAdmin(task[t].who)
Target(t)       == task[t].upd.target

\* The user list: every row gets a toggle button and one with its present role.
ShowUsers == shown' = shown \cup {<<u, users[u].role>> : u \in {v \in Users : Registered(users[v])}}

\* cmd_users and on_user_page.
ListUsers(t) ==
    /\ Begin(t, {"users", "userPage"})
    /\ Goto(t, "answer")
    /\ \/ AsAdmin(t) /\ ShowUsers /\ Record(t, "LIST_USERS")
       \/ ~AsAdmin(t) /\ UNCHANGED <<shown, log>>
    /\ UNCHANGED <<now, hits, quota, users, locks, cache, admins, received, observed>>

\* on_user_toggle: the SELECT of toggle_active.
ToggleLoad(t) ==
    /\ Begin(t, {"toggle"})
    /\ \/ /\ AsAdmin(t) /\ Registered(users[Target(t)])
          /\ Hold(t, [task[t] EXCEPT !.pc = "toggle", !.row = users[Target(t)]])
       \/ ~(AsAdmin(t) /\ Registered(users[Target(t)])) /\ Goto(t, "answer")
    /\ UNCHANGED <<now, stores, locks, cache, telegram, received, observed>>

\* For the properties: whose rights make an update of u an ADMIN's, given who
\* administers the chat and the table; and when the step to these takes them away.
Authority(u, chat, table) == u \in chat \/ (table[u].active /\ IsAdmin(table[u]))

Observe(chat, table) ==
    revoked' = [u \in Users |-> revoked[u] \cup
                  IF Authority(u, admins, users) /\ ~Authority(u, chat, table) THEN {now} ELSE {}]

\* Mutant of Write: the row is written as a whole.
WriteRow(t, u, row) ==
    /\ users' = [users EXCEPT ![u] = row]
    /\ changed' = changed \cup {t}
    /\ Observe(admins, users')

\* Rows are written by column: SQLAlchemy updates what differs from the row loaded.
Write(t, u, row) ==
    /\ users' = [users EXCEPT ![u] =
          [role   |-> IF row.role # task[t].row.role THEN row.role ELSE @.role,
           active |-> IF row.active # task[t].row.active THEN row.active ELSE @.active]]
    /\ changed' = changed \cup {t}
    /\ Observe(admins, users')

\* Its UPDATE: the flag is the opposite of the one it loaded.
ToggleSave(t) ==
    /\ At(t, "toggle")
    /\ Write(t, Target(t), [task[t].row EXCEPT !.active = ~@])
    /\ Goto(t, "refresh")
    /\ UNCHANGED <<now, hits, quota, log, locks, cache, telegram, received,
                   admitted, lost, overtaken>>

\* on_user_role: the SELECT of update_role.
RoleLoad(t) ==
    /\ Begin(t, {"role"})
    /\ \/ /\ AsAdmin(t) /\ Registered(users[Target(t)])
          /\ Hold(t, [task[t] EXCEPT !.pc = "role", !.row = users[Target(t)]])
       \/ ~(AsAdmin(t) /\ Registered(users[Target(t)])) /\ Goto(t, "answer")
    /\ UNCHANGED <<now, stores, locks, cache, telegram, received, observed>>

\* Its UPDATE: the role after the one the button shows, whatever the row has.
RoleSave(t) ==
    /\ At(t, "role")
    /\ Write(t, Target(t), [task[t].row EXCEPT !.role = NextRole[task[t].upd.role]])
    /\ Goto(t, "refresh")
    /\ UNCHANGED <<now, hits, quota, log, locks, cache, telegram, received,
                   admitted, lost, overtaken>>

\* Both show the list again.
Refresh(t) ==
    /\ At(t, "refresh")
    /\ ShowUsers
    /\ Record(t, "LIST_USERS")
    /\ Goto(t, "answer")
    /\ UNCHANGED <<now, hits, quota, users, locks, cache, admins, received, observed>>

\* Mutant of AddCheck: without the look-up save() overwrites.
AddCheckNothing(t) ==
    /\ Begin(t, {"auth"})
    /\ \/ AsAdmin(t) /\ Goto(t, "addLoad")
       \/ ~AsAdmin(t) /\ Goto(t, "answer")
    /\ UNCHANGED <<now, stores, locks, cache, telegram, received, observed>>

\* cmd_auth and AddUserUseCase: MANAGE_USERS, and a user who is registered is
\* left alone.
AddCheck(t) ==
    LET mayAdd == /\ AsAdmin(t)
                  /\ CanExecute(task[t].who, "MANAGE_USERS", "ADMIN")
                  /\ ~Registered(users[Target(t)])
    IN  /\ Begin(t, {"auth"})
        /\ \/ mayAdd /\ Goto(t, "addLoad")
           \/ ~mayAdd /\ Goto(t, "answer")
        /\ UNCHANGED <<now, stores, locks, cache, telegram, received, observed>>

\* save() looks again, and inserts or overwrites by what it finds.
AddLoad(t) ==
    /\ At(t, "addLoad")
    /\ Hold(t, [task[t] EXCEPT !.pc = "addSave", !.row = users[Target(t)]])
    /\ UNCHANGED <<now, stores, locks, cache, telegram, received, observed>>

\* Mutant of NewUser: the role is not assigned.
NewUserUnset(upd) == [role |-> "NONE", active |-> TRUE]

NewUser(upd) == [role |-> upd.role, active |-> TRUE]

\* The INSERT of a user who was registered in between violates the primary key.
AddSave(t) ==
    /\ At(t, "addSave")
    /\ \/ /\ Registered(users[Target(t)]) /\ ~Registered(task[t].row)
          /\ Goto(t, "audit")
          /\ UNCHANGED <<users, changed, revoked>>
       \/ /\ Registered(users[Target(t)]) => Registered(task[t].row)
          /\ Write(t, Target(t), NewUser(task[t].upd))
          /\ Goto(t, "added")
    /\ UNCHANGED <<now, hits, quota, log, locks, cache, telegram, received,
                   admitted, lost, overtaken>>

AddAudit(t) ==
    /\ At(t, "added")
    /\ Record(t, "USER_ADDED")
    /\ Goto(t, "answer")
    /\ UNCHANGED <<now, hits, quota, users, locks, cache, telegram, received, observed>>

\* Mutant of SizeAcquire: what acquire() returned is not looked at.
SizeAcquireUnchecked(t) ==
    /\ Begin(t, {"size", "sizePage"})
    /\ sizeLock' = SetNX(sizeLock, t)
    /\ Goto(t, "query")
    /\ UNCHANGED <<now, stores, isolation, cache, telegram, received, observed>>

\* QuerySizeUseCase.execute: one size query of the platform at a time; when the
\* lock is taken it raises, and so does a SET whose answer is lost: then nobody
\* knows the token.
SizeAcquire(t) ==
    /\ Begin(t, {"size", "sizePage"})
    /\ \/ /\ sizeLock' = SetNX(sizeLock, t)
          /\ Goto(t, IF sizeLock = NoToken THEN "query" ELSE "audit")
       \/ "redis" \in Faults /\ sizeLock' = SetNX(sizeLock, Orphan) /\ Goto(t, "audit")
    /\ UNCHANGED <<now, stores, isolation, cache, telegram, received, observed>>

\* Mutant of SizeRelease: the lock is released only when MongoDB has answered.
SizeReleaseUnprotected(t) ==
    /\ At(t, "query")
    /\ \/ sizeLock' = ReleaseScript(sizeLock, t) /\ Record(t, "SIZE_QUERIED") /\ Goto(t, "answer")
       \/ "raise" \in Faults /\ Goto(t, "audit") /\ UNCHANGED <<sizeLock, log>>
    /\ UNCHANGED <<now, hits, quota, users, isolation, cache, telegram, received, observed>>

\* MongoDB has answered, or failed; the finally block releases, or fails to: then
\* a token that is still there stays for the TTL.
SizeRelease(t) ==
    /\ At(t, "query")
    /\ \/ sizeLock' = ReleaseScript(sizeLock, t)
       \/ "redis" \in Faults /\ sizeLock' = IF sizeLock = t THEN Orphan ELSE sizeLock
    /\ \/ Record(t, "SIZE_QUERIED") /\ Goto(t, "answer")
       \/ \* A page of collections: a second query for the total.
          /\ Kind(t) = "sizePage" /\ ~task[t].second
          /\ Record(t, "SIZE_QUERIED")
          /\ Hold(t, [task[t] EXCEPT !.pc = "handle", !.second = TRUE])
       \/ "raise" \in Faults /\ Goto(t, "audit") /\ UNCHANGED log
    /\ UNCHANGED <<now, hits, quota, users, isolation, cache, telegram, received, observed>>

\* RequestBackupUseCase, its first two steps: BACKUP in BACKUP_REQUESTS, and the
\* limiter's SELECT.  Two rows in the window would raise MultipleResultsFound.
QuotaLoad(t) ==
    LET found == LiveRows(quota[Sender(t)], now) IN
    /\ Begin(t, {"confirm"})
    /\ \/ /\ ~CanExecute(task[t].who, "BACKUP", "BACKUP_REQUESTS")
          /\ Goto(t, "answer")
       \/ /\ CanExecute(task[t].who, "BACKUP", "BACKUP_REQUESTS")
          /\ IF Cardinality(found) > 1 THEN Goto(t, "audit")
             ELSE Hold(t, [task[t] EXCEPT !.pc = "quota", !.quota = found])
    /\ UNCHANGED <<now, stores, locks, cache, telegram, received, observed>>

\* The request counts; over the maximum it raises RateLimitError, which the
\* handler answers, otherwise the use case goes on as in BackupPlatform.
QuotaSave(t) ==
    LET row == Counted(task[t].quota, now, t) IN
    /\ At(t, "quota")
    /\ quota' = [quota EXCEPT ![Sender(t)] = Written(@, row, now)]
    /\ \/ row.count <= MaxRequests /\ Record(t, "BACKUP_REQUESTED")
       \/ row.count > MaxRequests /\ UNCHANGED log
    /\ Goto(t, "answer")
    /\ UNCHANGED <<now, hits, users, locks, cache, telegram, received, observed>>

\* Handlers that change only the audit log: the reports (/jobs and its pages for
\* administrators, a job's detail also for its requester, /stats and /health), and
\* the commands whose handlers are modelled elsewhere.
Report(t) ==
    /\ Begin(t, {"jobs", "stats", "jobDetail", "backup", "cancel"})
    /\ Goto(t, "answer")
    /\ \/ Kind(t) = "jobs" /\ AsAdmin(t) /\ Record(t, "LIST_JOBS")
       \/ Kind(t) = "jobDetail" /\ Record(t, "GET_JOB_DETAIL")
       \/ ~(Kind(t) = "jobs" /\ AsAdmin(t)) /\ UNCHANGED log
    /\ UNCHANGED <<now, hits, quota, users, locks, cache, telegram, received, observed>>

Answer(t) ==
    /\ At(t, "answer")
    /\ Goto(t, "audit")
    /\ UNCHANGED <<now, stores, locks, cache, telegram, received, observed>>

Handler(t) ==
    \/ ListUsers(t) \/ Refresh(t) \/ Report(t) \/ Answer(t)
    \/ ToggleLoad(t) \/ ToggleSave(t) \/ RoleLoad(t) \/ RoleSave(t)
    \/ AddCheck(t) \/ AddLoad(t) \/ AddSave(t) \/ AddAudit(t)
    \/ SizeAcquire(t) \/ SizeRelease(t)
    \/ QuotaLoad(t) \/ QuotaSave(t)

Middleware(t) ==
    \/ LimitCheck(t) \/ LimitIncrement(t)
    \/ AuthCached(t) \/ AuthAsk(t) \/ AuthStore(t) \/ AuthWhitelist(t)
    \/ Deny(t) \/ Audit(t)

TaskStep(t) == Middleware(t) \/ Handler(t)

-----------------------------------------------------------------------------
(***************************************************************************)
(* Errors, expiry, crashes and the world outside.                          *)
(***************************************************************************)

InHandler == {"handle", "toggle", "role", "refresh", "addLoad", "addSave", "added",
              "quota", "answer"}
InStack   == {"limit", "increment", "ask", "whitelist", "denied"}

\* Mutant of Raise: the audit entry is not in a finally block.
RaiseUnaudited(t) ==
    /\ "raise" \in Faults
    /\ task[t].pc \in InHandler \cup InStack
    /\ End(t)
    /\ UNCHANGED <<now, stores, sizeLock, cache, telegram, received, observed>>

\* An exception from the call a task is about to make.  In a handler it still
\* reaches the audit entry; before, the update just ends.
Raise(t) ==
    /\ "raise" \in Faults
    /\ \/ task[t].pc \in InHandler /\ Goto(t, "audit") /\ UNCHANGED isolation
       \/ task[t].pc \in InStack /\ End(t)
    /\ UNCHANGED <<now, stores, sizeLock, cache, telegram, received, observed>>

\* The bot dies and restarts: its tasks and its memory are gone, their locks stay.
Crash ==
    /\ "crash" \in Faults
    /\ \E t \in Tasks : Live(t)
    /\ lost' = lost \cup {t \in Tasks : Live(t)}
    /\ task' = [t \in Tasks |-> Idle]
    /\ cache' = [u \in Users |-> Uncached]
    /\ isolation' = [u \in Users |-> IF isolation[u] = NoToken THEN NoToken ELSE Orphan]
    /\ sizeLock' = IF sizeLock = NoToken THEN NoToken ELSE Orphan
    /\ UNCHANGED <<now, stores, telegram, received, admitted, changed, revoked,
                   overtaken>>

Holds(t, u) == Live(t) /\ Sender(t) = u /\ isolation[u] = t

\* The lock of a user's updates lives for a minute, and its holder goes on without
\* it.  Only the two calls to Redis after its receipt are taken to be over by then:
\* get_chat_member, the answer to a pressed button, the databases and MongoDB may
\* each take as long.
IsolationExpires(u) ==
    /\ isolation[u] # NoToken
    /\ \A t \in Tasks : Holds(t, u) => task[t].pc \notin {"limit", "increment"}
    /\ isolation' = [isolation EXCEPT ![u] = NoToken]
    /\ overtaken' = [overtaken EXCEPT ![u] = @ \cup
                        {t \in Tasks : Holds(t, u) /\ task[t].pc \notin {"answer", "audit"}}]
    /\ UNCHANGED <<now, stores, sizeLock, cache, telegram, task, received,
                   admitted, changed, lost, revoked>>

\* The size lock lives for five minutes, which outlasts a query.
SizeLockExpires ==
    /\ sizeLock # NoToken
    /\ \A t \in Tasks : sizeLock = t => ~At(t, "query")
    /\ sizeLock' = NoToken
    /\ UNCHANGED <<now, stores, isolation, cache, telegram, task, received, observed>>

\* Time passes anywhere but between Telegram's answer and its storing.
Tick ==
    /\ now < Horizon
    /\ \A t \in Tasks : ~At(t, "answered")
    /\ now' = now + 1
    /\ UNCHANGED <<stores, locks, cache, telegram, task, received, observed>>

\* The owner of the chat dismisses an administrator.
Dismiss(u) ==
    /\ u \in admins
    /\ admins' = admins \ {u}
    /\ Observe(admins', users)
    /\ UNCHANGED <<now, stores, locks, cache, shown, task, received, admitted, changed, lost,
                   overtaken>>

-----------------------------------------------------------------------------
Next ==
    \/ \E t \in Tasks : TaskStep(t) \/ Raise(t) \/ (\E upd \in Sends[t] : Receive(t, upd))
    \/ \E u \in Users : IsolationExpires(u) \/ Dismiss(u)
    \/ SizeLockExpires
    \/ Crash
    \/ Tick

Spec == Init /\ [][Next]_vars
-----------------------------------------------------------------------------
(***************************************************************************)
(* Properties.                                                             *)
(***************************************************************************)

Early == {"limit", "increment", "auth", "ask", "answered", "whitelist", "denied"}
Slow  == {"query", "answer"}
Pcs   == Early \cup Slow \cup
         {"handle", "toggle", "role", "refresh", "addLoad", "addSave", "added", "quota", "audit"}

Events == {"AUTH_DENIED", "PERMISSION_DENIED", "TELEGRAM_INTERACTION", "USER_ADDED",
           "SIZE_QUERIED", "BACKUP_REQUESTED", "LIST_USERS", "LIST_JOBS", "GET_JOB_DETAIL"}

QuotaRow == [id : Nat, start : Nat, count : Nat]
LiveTask == [pc : Pcs, upd : Update,
             who : UserRow \cup {NoUserRow}, row : UserRow \cup {NoUserRow},
             quota : SUBSET QuotaRow, second : BOOLEAN, begun : Nat, known : SUBSET Users]
Entry    == [key : Keys, at : Nat, serial : Tasks]

\* Every variable keeps its type; no row of the table ever has an unknown role.
TypeOK ==
    /\ now \in Nat /\ received \in Nat
    /\ hits \in [Keys -> SUBSET Entry]
    /\ quota \in [Users -> SUBSET QuotaRow]
    /\ users \in [Users -> UserRow \cup {NoUserRow}]
    /\ log \in SUBSET (Tasks \X Events)
    /\ isolation \in [Users -> Tasks \cup {NoToken, Orphan}]
    /\ sizeLock \in Tasks \cup {NoToken, Orphan}
    /\ cache \in [Users -> [admin : BOOLEAN, until : Nat]]
    /\ admins \in SUBSET Users
    /\ shown \in SUBSET (Users \X Roles)
    /\ task \in [Tasks -> LiveTask \cup {Idle}]
    /\ admitted \in SUBSET Entry
    /\ changed \in SUBSET Tasks /\ lost \in SUBSET Tasks
    /\ revoked \in [Users -> SUBSET Nat]
    /\ overtaken \in [Users -> SUBSET Tasks]

\* The middleware's limiter, whose check and increment are two scripts with an
\* await between them, keeps the promise of a sliding window.
Limit == INSTANCE SlidingWindow WITH Serials <- Tasks
KeepsSlidingWindow == Limit!Spec

\* A second row of a user in one window of the fixed-window table, which makes every
\* further request of the window raise (scalar_one_or_none), comes from a request
\* that had lost its update lock; no interleaving of requests that kept it makes one.
OneQuotaRow ==
    \A u \in Users : \A r, s \in LiveRows(quota[u], now) :
        r # s => r.id \in overtaken[u] \/ s.id \in overtaken[u]

\* What increment() writes is one more than the live row of the user has then, not
\* only when its SELECT read it.
CountsOne(t) ==
    At(t, "quota") /\ task'[t].pc = "answer" =>
       \E row \in quota'[Sender(t)] :
          \A r \in LiveRows(quota[Sender(t)], now) : row = [r EXCEPT !.count = @ + 1]

\* No request of a window goes uncounted, for users none of whose updates ever
\* outlived its lock.
RequestsAreCounted ==
    [][\A t \in Tasks : Live(t) /\ overtaken[Sender(t)] = {} => CountsOne(t)]_vars

\* Two size queries never run at once (QuerySizeUseCase, _GLOBAL_LOCK), whatever
\* fails and whoever crashes.
SizeQueriesExclusive ==
    \A s, t \in Tasks : At(s, "query") /\ At(t, "query") => s = t

\* The table users changes only through somebody who had an administrator's
\* rights when the update began, or less than a cache lifetime before: neither
\* the cached answer of Telegram nor the principal that the task keeps makes a
\* revoked right last longer.
OnlyRecentAdminsChangeUsers ==
    [][users' # users =>
         \E t \in Tasks :
            /\ task'[t] # task[t] /\ t \in changed'
            /\ \/ Authority(Sender(t), admins, users)
               \/ \E at \in revoked[Sender(t)] : at + Ttl > task[t].begun]_vars

\* Changes of two administrators do not undo each other: a role change leaves the
\* flag of a registered user as it is then, and a toggle the role.
ChangesTouchOneColumn ==
    [][\A t \in Tasks, u \in Users :
         /\ Live(t) /\ Registered(users[u]) /\ task'[t] # task[t]
         => /\ At(t, "role")   => users'[u].active = users[u].active
            /\ At(t, "toggle") => users'[u].role = users[u].role]_vars

\* /auth never changes a user who was registered when the command came in.
AddKeepsRegistered ==
    [][\A t \in Tasks :
         At(t, "addSave") /\ task'[t] # task[t]
         => \A u \in task[t].known : users'[u] = users[u]]_vars

\* An update that changed the table users does not end without an audit entry,
\* whatever its handler did afterwards, unless the bot dies or the entry itself
\* fails.
ChangesAreAudited ==
    \A t \in changed : Live(t) \/ <<t, "TELEGRAM_INTERACTION">> \in log \/ t \in lost

\* Whatever fails, a lock names a task that is where it needs the lock: its own user's
\* update, or the size query it is making.  So a user or the size queries are locked
\* out beyond that only by an Orphan: after the bot's death, or when Redis itself
\* fails in acquire() or release().
LocksHaveOwners ==
    /\ \A u \in Users : isolation[u] \in Tasks => Holds(isolation[u], u)
    /\ sizeLock \in Tasks => At(sizeLock, "query")
=============================================================================
