----------------------------- MODULE BackupWizard -----------------------------
(***************************************************************************)
(* The /backup wizard of app/telegram/routers/backup.py: its FSM state and *)
(* data in Redis, the keyboards that stay pressable in the chat, and the   *)
(* FSMTimeoutMonitor (app/telegram/fsm_timeout.py), a background task that *)
(* resets abandoned wizards.                                               *)
(*                                                                         *)
(* aiogram runs one update of a user at a time (RedisEventIsolation) and   *)
(* reads the FSM state for StateFilter under that lock; the monitor does   *)
(* not take the lock.  set_state, get_data and set_data are one Redis call *)
(* each, update_data is get_data followed by set_data, and a handler can   *)
(* be overtaken by the monitor between any two of them.                    *)
(***************************************************************************)
EXTENDS Sequences, Naturals

CONSTANTS
    Users,         \* users of the chat, one wizard each
    NoUser,        \* the monitor is not at any user
    Databases,
    Collections,
    CollectionsOf, \* what MongoDB lists: [Databases -> SUBSET Collections]
    MaxWizards,    \* bound on the /backup commands of a user
    Faults         \* subset of {"raise"}: MongoDB or Telegram calls fail

ASSUME WizardAssumption ==
    /\ NoUser \notin Users
    /\ CollectionsOf \in [Databases -> SUBSET Collections]
    /\ MaxWizards \in Nat
    /\ Faults \subseteq {"raise"}

\* BackupStates; "none" is the state after FSMContext.clear.
WizardStates == {"none", "idle", "selecting_backup_type", "selecting_databases",
                 "selecting_collections", "confirming"}
Resting == {"none", "idle"}

VARIABLES
    state,     \* FSM state
    data,      \* FSM data
    active,    \* score in fsm:backup:active: "absent", "fresh" or "old" (> 10 min)
    screens,   \* the wizard messages of each user, in the order they were sent
    accepted,  \* number of backups the use case accepted
    handler,   \* the update being handled
    monitor,   \* where _check_timeouts is, and at which user
    expired,   \* the members it still has to look at
    fresh,     \* history: confirming was entered and nothing accepted since
    trusted    \* history: since the last /backup only its own message was used
               \* and the monitor left this wizard alone

chat    == <<screens, accepted>>
history == <<fresh, trusted>>
timeout == <<monitor, expired>>
vars    == <<state, data, active, chat, handler, timeout, history>>

\* Absent keys of the FSM data read as their defaults; "type" has a default of
\* its own, in on_ejecutar.
NoData == [type |-> "absent", databases |-> {}, collections |-> {}]

\* What a message shows: a keyboard, or the summary with its two buttons.
Screen(kind)            == [kind |-> kind, type |-> "absent", collections |-> {}]
CollectionKeyboard(all) == [Screen("collections") EXCEPT !.collections = all]
Summary(type, selected) == [kind |-> "summary", type |-> type, collections |-> selected]

NoHandler == [op |-> "none", step |-> "none", msg |-> 0, arg |-> {}, seen |-> NoData]

Init ==
    /\ state = [u \in Users |-> "none"]
    /\ data = [u \in Users |-> NoData]
    /\ active = [u \in Users |-> "absent"]
    /\ screens = [u \in Users |-> <<>>]
    /\ accepted = [u \in Users |-> 0]
    /\ handler = [u \in Users |-> NoHandler]
    /\ monitor = [pc |-> "sleep", user |-> NoUser]
    /\ expired = {}
    /\ fresh = [u \in Users |-> FALSE]
    /\ trusted = [u \in Users |-> FALSE]

-----------------------------------------------------------------------------
\* Steps shared by the handlers.
At(u, op, step) == handler[u].op = op /\ handler[u].step = step
Step(u, step)   == handler' = [handler EXCEPT ![u].step = step]
End(u)          == handler' = [handler EXCEPT ![u] = NoHandler]

\* The final edit of the message; Telegram or a size query before it may fail.
Show(u, m, screen) ==
    \/ screens' = [screens EXCEPT ![u][m] = screen]
    \/ "raise" \in Faults /\ UNCHANGED screens

\* FSMTimeoutMonitor.touch.
Touch(u) == active' = [active EXCEPT ![u] = "fresh"]

\* A button of message m is pressed, the filter on the state lets it through,
\* and the handler touches the user.  Buttons of old messages stay pressable.
Press(u, m, op, required, kind, arg, step) ==
    /\ handler[u] = NoHandler
    /\ state[u] = required
    /\ screens[u][m].kind = kind
    /\ Touch(u)
    /\ handler' = [handler EXCEPT ![u] =
                     [NoHandler EXCEPT !.op = op, !.step = step, !.msg = m, !.arg = arg]]
    /\ trusted' = [trusted EXCEPT ![u] = @ /\ m = Len(screens[u])]
    /\ UNCHANGED <<state, data, chat, timeout, fresh>>

\* get_data; a handler that finds its selection empty answers and is over.
Read(u, op, ok, arg, next) ==
    /\ At(u, op, "read")
    /\ handler' = [handler EXCEPT ![u] =
          IF ok THEN [@ EXCEPT !.step = next, !.arg = arg, !.seen = data[u]] ELSE NoHandler]
    /\ UNCHANGED <<state, data, active, chat, timeout, history>>

SetState(u, op, to, next) ==
    /\ At(u, op, "state")
    /\ state' = [state EXCEPT ![u] = to]
    /\ fresh' = [fresh EXCEPT ![u] = to = "confirming" \/ @]
    /\ Step(u, next)
    /\ UNCHANGED <<data, active, chat, timeout, trusted>>

\* The two halves of update_data.
Load(u, op) ==
    /\ At(u, op, "load")
    /\ handler' = [handler EXCEPT ![u].step = "store", ![u].seen = data[u]]
    /\ UNCHANGED <<state, data, active, chat, timeout, history>>

Store(u, op, value, screen) ==
    /\ At(u, op, "store")
    /\ data' = [data EXCEPT ![u] = value]
    /\ Show(u, handler[u].msg, screen)
    /\ End(u)
    /\ UNCHANGED <<state, active, accepted, timeout, history>>

\* One entry of a multi-select list is switched on or off.
Toggle(selected, entries) == (selected \ entries) \cup (entries \ selected)

-----------------------------------------------------------------------------
\* /backup: touch, set_state, set_data, and a new message with the keyboard.
CmdBackup(u) ==
    \/ /\ handler[u] = NoHandler
       /\ Len(screens[u]) < MaxWizards
       /\ Touch(u)
       /\ handler' = [handler EXCEPT ![u] = [NoHandler EXCEPT !.op = "backup", !.step = "state"]]
       /\ UNCHANGED <<state, data, chat, timeout, history>>
    \/ SetState(u, "backup", "selecting_backup_type", "store")
    \/ /\ At(u, "backup", "store")
       /\ data' = [data EXCEPT ![u] = NoData]
       /\ \/ screens' = [screens EXCEPT ![u] = Append(@, Screen("type"))]
          \/ "raise" \in Faults /\ UNCHANGED screens
       /\ trusted' = [trusted EXCEPT ![u] = TRUE]
       /\ End(u)
       /\ UNCHANGED <<state, active, accepted, timeout, fresh>>

OnFullType(u) ==
    \/ \E m \in DOMAIN screens[u] :
          Press(u, m, "full", "selecting_backup_type", "type", {}, "state")
    \/ SetState(u, "full", "confirming", "load")
    \/ Load(u, "full")
    \/ Store(u, "full", [handler[u].seen EXCEPT !.type = "FULL"], Summary("FULL", {}))

\* Mutant of OnCustomType: the type is not stored.
OnCustomTypeForgotten(u) ==
    \/ \E m \in DOMAIN screens[u] :
          Press(u, m, "custom", "selecting_backup_type", "type", {}, "state")
    \/ SetState(u, "custom", "selecting_databases", "load")
    \/ Load(u, "custom")
    \/ Store(u, "custom", [handler[u].seen EXCEPT !.databases = {}], Screen("databases"))

OnCustomType(u) ==
    \/ \E m \in DOMAIN screens[u] :
          Press(u, m, "custom", "selecting_backup_type", "type", {}, "state")
    \/ SetState(u, "custom", "selecting_databases", "load")
    \/ Load(u, "custom")
    \/ Store(u, "custom", [handler[u].seen EXCEPT !.type = "CUSTOM", !.databases = {}],
             Screen("databases"))

OnDbToggle(u) ==
    \/ \E m \in DOMAIN screens[u], d \in Databases :
          Press(u, m, "db", "selecting_databases", "databases", {d}, "read")
    \/ Read(u, "db", TRUE, Toggle(data[u].databases, handler[u].arg), "load")
    \/ Load(u, "db")
    \/ Store(u, "db", [handler[u].seen EXCEPT !.databases = handler[u].arg], Screen("databases"))

\* The collections of the selected databases are listed.  When there are none,
\* the handler goes on to the confirmation at once, with an empty selection.  (It
\* ends before that, like a failing call, when the callback bears no message.)
OnDbContinuar(u) ==
    LET listed == UNION {CollectionsOf[d] : d \in data[u].databases}
        all    == handler[u].arg
        stored == [handler[u].seen EXCEPT !.collections = {}]
    IN
    \/ \E m \in DOMAIN screens[u] :
          Press(u, m, "continue", "selecting_databases", "databases", {}, "read")
    \/ Read(u, "continue", data[u].databases # {}, listed, "state")
    \/ SetState(u, "continue", "selecting_collections", "load")
    \/ Load(u, "continue")
    \/ all # {} /\ Store(u, "continue", stored, CollectionKeyboard(all))
    \/ /\ all = {}
       /\ At(u, "continue", "store")
       /\ data' = [data EXCEPT ![u] = stored]
       /\ handler' = [handler EXCEPT ![u].op = "empty", ![u].step = "state"]
       /\ UNCHANGED <<state, active, chat, timeout, history>>
    \/ SetState(u, "empty", "confirming", "load")
    \/ Load(u, "empty")
    \/ Store(u, "empty", stored, Summary("CUSTOM", {}))

OnCollToggle(u) ==
    \/ \E m \in DOMAIN screens[u] : \E c \in screens[u][m].collections :
          Press(u, m, "coll", "selecting_collections", "collections", {c}, "read")
    \/ Read(u, "coll", TRUE, Toggle(data[u].collections, handler[u].arg), "load")
    \/ Load(u, "coll")
    \/ /\ At(u, "coll", "store")
       /\ Store(u, "coll", [handler[u].seen EXCEPT !.collections = handler[u].arg],
                screens[u][handler[u].msg])

\* Another page of the same keyboard: the data is written back with its page.
OnPageNav(u) ==
    \/ \E m \in DOMAIN screens[u] :
          Press(u, m, "page", "selecting_collections", "collections", {}, "load")
    \/ Load(u, "page")
    \/ At(u, "page", "store") /\ Store(u, "page", handler[u].seen, screens[u][handler[u].msg])

\* The summary shows the selection read before the size query.
OnCollConfirmar(u) ==
    \/ \E m \in DOMAIN screens[u] :
          Press(u, m, "confirm", "selecting_collections", "collections", {}, "read")
    \/ Read(u, "confirm", data[u].collections # {}, data[u].collections, "state")
    \/ SetState(u, "confirm", "confirming", "show")
    \/ /\ At(u, "confirm", "show")
       /\ Show(u, handler[u].msg, Summary("CUSTOM", handler[u].arg))
       /\ End(u)
       /\ UNCHANGED <<state, data, active, accepted, timeout, history>>

\* The request on_ejecutar builds from the data it read.
Requested(d) ==
    IF d.type = "CUSTOM" THEN Summary("CUSTOM", d.collections) ELSE Summary("FULL", {})

\* Mutant of RequestBackup: the wizard is not cleared after an accepted request.
RequestBackupUncleared(u) ==
    /\ At(u, "run", "request")
    /\ \/ /\ Requested(handler[u].seen) # Summary("CUSTOM", {})
          /\ accepted' = [accepted EXCEPT ![u] = @ + 1]
          /\ fresh' = [fresh EXCEPT ![u] = FALSE]
          /\ End(u)
       \/ /\ Step(u, "state")
          /\ UNCHANGED <<accepted, fresh>>
       \/ /\ End(u)
          /\ UNCHANGED <<accepted, fresh>>
    /\ UNCHANGED <<state, data, active, screens, timeout, trusted>>

\* RequestBackupUseCase accepts the request, refuses it (rate limit, disk,
\* permission: the wizard is cleared too) or raises something the handler does
\* not catch: the wizard stays as it is.  A custom request without collections
\* is never accepted.
RequestBackup(u) ==
    /\ At(u, "run", "request")
    /\ \/ /\ Requested(handler[u].seen) # Summary("CUSTOM", {})
          /\ accepted' = [accepted EXCEPT ![u] = @ + 1]
          /\ fresh' = [fresh EXCEPT ![u] = FALSE]
          /\ Step(u, "state")
       \/ /\ Step(u, "state")
          /\ UNCHANGED <<accepted, fresh>>
       \/ /\ End(u)
          /\ UNCHANGED <<accepted, fresh>>
    /\ UNCHANGED <<state, data, active, screens, timeout, trusted>>

OnEjecutar(u) ==
    \/ \E m \in DOMAIN screens[u] : Press(u, m, "run", "confirming", "summary", {}, "read")
    \/ Read(u, "run", TRUE, {}, "request")
    \/ RequestBackup(u)
    \/ SetState(u, "run", "none", "store")
    \/ Store(u, "run", NoData, Screen("text"))

OnCancelar(u) ==
    \/ \E m \in DOMAIN screens[u] : Press(u, m, "cancel", "confirming", "summary", {}, "state")
    \/ SetState(u, "cancel", "none", "store")
    \/ Store(u, "cancel", NoData, Screen("text"))

\* callback.answer or a MongoDB query fails before the handler wrote anything;
\* the error middleware reports it.
HandlerFails(u) ==
    /\ "raise" \in Faults
    /\ \/ handler[u].step = "read"
       \/ /\ handler[u].step = "state"
          /\ handler[u].op \in {"full", "custom", "continue", "confirm", "cancel"}
       \/ At(u, "page", "load")
    /\ End(u)
    /\ UNCHANGED <<state, data, active, chat, timeout, history>>

-----------------------------------------------------------------------------
\* Ten minutes pass.  A handler and a check of the monitor take seconds.
Age(u) ==
    /\ active[u] = "fresh"
    /\ handler[u] = NoHandler
    /\ monitor.pc = "sleep"
    /\ active' = [active EXCEPT ![u] = "old"]
    /\ UNCHANGED <<state, data, chat, handler, timeout, history>>

\* _check_timeouts: zrangebyscore lists the users beyond the cutoff.
MonitorScan ==
    LET old == {u \in Users : active[u] = "old"} IN
    /\ monitor.pc = "sleep"
    /\ old # {}
    /\ expired' = old
    /\ monitor' = [monitor EXCEPT !.pc = "check"]
    /\ UNCHANGED <<state, data, active, chat, handler, history>>

\* get_state of the next user; a wizard that is at rest is skipped.
MonitorCheck(u) ==
    /\ monitor.pc = "check"
    /\ u \in expired
    /\ \/ /\ state[u] \in Resting
          /\ UNCHANGED monitor
       \/ /\ state[u] \notin Resting
          /\ monitor' = [pc |-> "state", user |-> u]
    /\ expired' = expired \ {u}
    /\ UNCHANGED <<state, data, active, chat, handler, history>>

\* set_state(idle), then set_data({}).
MonitorSetState(u) ==
    /\ monitor = [pc |-> "state", user |-> u]
    /\ state' = [state EXCEPT ![u] = "idle"]
    /\ monitor' = [monitor EXCEPT !.pc = "data"]
    /\ trusted' = [trusted EXCEPT ![u] = FALSE]
    /\ UNCHANGED <<data, active, chat, handler, expired, fresh>>

MonitorSetData(u) ==
    /\ monitor = [pc |-> "data", user |-> u]
    /\ data' = [data EXCEPT ![u] = NoData]
    /\ monitor' = [pc |-> "check", user |-> NoUser]
    /\ trusted' = [trusted EXCEPT ![u] = FALSE]
    /\ UNCHANGED <<state, active, chat, handler, expired, fresh>>

\* Mutant of MonitorForget: the whole index is dropped, not only its old members.
MonitorForgetAll ==
    /\ monitor.pc = "check"
    /\ expired = {}
    /\ active' = [u \in Users |-> "absent"]
    /\ monitor' = [monitor EXCEPT !.pc = "sleep"]
    /\ UNCHANGED <<state, data, chat, handler, expired, history>>

\* zremrangebyscore with the same cutoff: a user touched meanwhile stays.
MonitorForget ==
    /\ monitor.pc = "check"
    /\ expired = {}
    /\ active' = [u \in Users |-> IF active[u] = "old" THEN "absent" ELSE active[u]]
    /\ monitor' = [monitor EXCEPT !.pc = "sleep"]
    /\ UNCHANGED <<state, data, chat, handler, expired, history>>

Monitor ==
    \/ MonitorScan
    \/ \E u \in Users : MonitorCheck(u) \/ MonitorSetState(u) \/ MonitorSetData(u)
    \/ MonitorForget

Handle(u) ==
    \/ CmdBackup(u) \/ OnFullType(u) \/ OnCustomType(u) \/ OnDbToggle(u) \/ OnDbContinuar(u)
    \/ OnCollToggle(u) \/ OnPageNav(u) \/ OnCollConfirmar(u) \/ OnEjecutar(u) \/ OnCancelar(u)
    \/ HandlerFails(u)

Next == Monitor \/ \E u \in Users : Handle(u) \/ Age(u)

Spec == Init /\ [][Next]_vars

\* Time passes, the monitor wakes up, and a handler that has begun ends.  Users
\* owe nothing: they may abandon a wizard at any point.
Fairness ==
    /\ WF_vars(Monitor)
    /\ \A u \in Users : WF_vars(Age(u)) /\ WF_vars(handler[u] # NoHandler /\ Handle(u))

FairSpec == Spec /\ Fairness
-----------------------------------------------------------------------------
\* One confirmation starts at most one backup: whatever is pressed twice, on
\* whichever message, a request is accepted only from a wizard that was brought
\* to "confirming" after the previous one (state.clear in on_ejecutar, the
\* state filters, and the serialised updates).
OneRequestPerConfirmation ==
    [][\A u \in Users : accepted'[u] # accepted[u] => fresh[u]]_vars

\* A user who answers in time and uses the newest message gets exactly the
\* backup whose summary was confirmed: type and collections, whatever was
\* toggled, paged, failed or left behind by earlier wizards.
RequestMatchesSummary ==
    [][\A u \in Users :
          accepted'[u] # accepted[u] /\ trusted[u] =>
             screens[u][handler[u].msg] = Requested(handler[u].seen)]_vars

\* An abandoned wizard expires: no wizard stays open for ever without its user
\* (FSMTimeoutMonitor; no interaction is lost between its scan and its removal).
AbandonedWizardsExpire ==
    \A u \in Users : []<>(state[u] \in Resting \/ handler[u] # NoHandler)

\* A wizard that has been reset or finished starts over: only /backup opens it
\* again (the transitions listed in BackupStates).
RestingWizardsStartOver ==
    [][\A u \in Users :
          state[u] \in Resting /\ state'[u] \notin Resting
             => state'[u] = "selecting_backup_type"]_vars
=============================================================================
