-------------------------- MODULE BackupWizardProofs --------------------------
(***************************************************************************)
(* One backup per confirmation, and the backup that was confirmed:         *)
(* theorems about BackupWizard for every value of its constants.           *)
(***************************************************************************)
EXTENDS BackupWizard, SequenceTheorems, TLAPS

Types == {"absent", "FULL", "CUSTOM"}
Data  == [type : Types, databases : SUBSET Databases, collections : SUBSET Collections]
Screens ==
    [kind : {"type", "databases", "collections", "summary", "text"}, type : Types,
     collections : SUBSET Collections]
Ops ==
    {"none", "backup", "full", "custom", "db", "continue", "empty", "coll", "page", "confirm",
     "run", "cancel"}
Handlers ==
    [op : Ops, step : {"none", "read", "request", "state", "load", "store", "show"},
     msg : Nat, arg : SUBSET (Databases \cup Collections), seen : Data]

TypeOK ==
    /\ state \in [Users -> WizardStates]
    /\ data \in [Users -> Data]
    /\ active \in [Users -> {"absent", "fresh", "old"}]
    /\ screens \in [Users -> Seq(Screens)]
    /\ accepted \in [Users -> Nat]
    /\ handler \in [Users -> Handlers]
    /\ monitor \in [pc : {"sleep", "check", "state", "data"}, user : Users \cup {NoUser}]
    /\ expired \subseteq Users
    /\ fresh \in [Users -> BOOLEAN]
    /\ trusted \in [Users -> BOOLEAN]

\* A handler that was started by a button.
Pressed(u) == handler[u].op \notin {"none", "backup"}

\* Its message, and what it has read of the user's selection.
HandlerTyped(u) ==
    Pressed(u) =>
      /\ handler[u].msg \in DOMAIN screens[u]
      /\ handler[u].arg \subseteq IF handler[u].op = "db" THEN Databases ELSE Collections

\* A wizard that can be confirmed was brought there since the last accepted
\* request, unless that request is about to clear it.
Confirmable(u) ==
    /\ state[u] = "confirming" => fresh[u] \/ At(u, "run", "state")
    /\ At(u, "run", "read") \/ At(u, "run", "request") => fresh[u]

Newest(u) == screens[u][Len(screens[u])]

\* The message whose button starts a handler.
StartsFrom(op, kind) ==
    /\ op \in {"full", "custom"} => kind = "type"
    /\ op \in {"db", "continue", "empty"} => kind = "databases"
    /\ op \in {"coll", "page", "confirm"} => kind = "collections"
    /\ op \in {"run", "cancel"} => kind = "summary"

\* A wizard whose user kept to the newest message: its handler works on that
\* message, and on data that nobody has changed since it was read.
OwnMessage(u) ==
    Pressed(u) =>
      /\ handler[u].msg = Len(screens[u])
      /\ StartsFrom(handler[u].op, Newest(u).kind)

DataAsRead(u) ==
    /\ handler[u].step = "store" /\ handler[u].op \notin {"backup", "run", "cancel"}
         => handler[u].seen = data[u]
    /\ handler[u].op = "confirm" /\ handler[u].step \in {"state", "show"}
         => handler[u].arg = data[u].collections
    /\ At(u, "run", "request") => handler[u].seen = data[u]

\* Beyond the choice of databases the stored type is "CUSTOM".
CustomStored(u) ==
    /\ handler[u].op \in {"db", "continue", "empty", "coll", "page", "confirm"}
         => data[u].type = "CUSTOM"
    /\ state[u] \in {"selecting_databases", "selecting_collections"}
         => \/ data[u].type = "CUSTOM"
            \/ At(u, "custom", "load") \/ At(u, "custom", "store")
    /\ At(u, "full", "load") \/ At(u, "full", "store") => state[u] = "confirming"

\* A summary that can be confirmed shows the stored selection.
SummaryShown(u) ==
    /\ state[u] = "confirming" /\ screens[u] # <<>> /\ Newest(u).kind = "summary"
         => Newest(u) = Requested(data[u])
    /\ At(u, "run", "read") \/ At(u, "run", "request") => Newest(u) = Requested(data[u])
    /\ At(u, "run", "store") \/ At(u, "cancel", "store") => state[u] = "none"

TrustedInv(u) ==
    trusted[u] => OwnMessage(u) /\ DataAsRead(u) /\ CustomStored(u) /\ SummaryShown(u)

\* A new wizard has no selection to confirm yet.
Opened(u) == At(u, "backup", "store") => state[u] \in {"selecting_backup_type", "idle"}

UserInv(u) == HandlerTyped(u) /\ Confirmable(u) /\ Opened(u) /\ TrustedInv(u)

WizardInv == TypeOK /\ \A u \in Users : UserInv(u)

-----------------------------------------------------------------------------
\* What the invariant says of v is untouched by a step of somebody else.
Same(v) ==
    /\ state'[v] = state[v] /\ data'[v] = data[v] /\ screens'[v] = screens[v]
    /\ handler'[v] = handler[v] /\ fresh'[v] = fresh[v] /\ trusted'[v] = trusted[v]

\* What holds of a user is kept by the steps of the others.
LEMMA SameKeeps ==
    ASSUME NEW v \in Users, UserInv(v), Same(v)
    PROVE  UserInv(v)'
<1>1. HandlerTyped(v)'
  BY DEF Same, UserInv, HandlerTyped, Pressed
<1>2. Confirmable(v)' /\ Opened(v)'
  BY DEF Same, UserInv, Confirmable, Opened, At
<1>3. TrustedInv(v)'
  <2> SUFFICES ASSUME trusted[v]
               PROVE  (OwnMessage(v) /\ DataAsRead(v) /\ CustomStored(v) /\ SummaryShown(v))'
    BY DEF Same, TrustedInv
  <2>1. Newest(v)' = Newest(v)
    BY DEF Same, Newest
  <2>2. OwnMessage(v)' /\ DataAsRead(v)'
    BY <2>1 DEF Same, UserInv, TrustedInv, OwnMessage, Pressed, DataAsRead, At
  <2>3. CustomStored(v)' /\ SummaryShown(v)'
    BY <2>1 DEF Same, UserInv, TrustedInv, CustomStored, SummaryShown, At
  <2> QED BY <2>2, <2>3
<1> QED BY <1>1, <1>2, <1>3 DEF UserInv

\* A step of user u is over when it has been shown for u.
LEMMA OneUserMoves ==
    ASSUME WizardInv, NEW u \in Users, TypeOK', UserInv(u)',
           \A v \in Users \ {u} : Same(v)
    PROVE  WizardInv'
BY SameKeeps DEF WizardInv

-----------------------------------------------------------------------------
\* The steps that the handlers share.
Buttons ==
    {<<"full", "selecting_backup_type", "type", "state">>,
     <<"custom", "selecting_backup_type", "type", "state">>,
     <<"db", "selecting_databases", "databases", "read">>,
     <<"continue", "selecting_databases", "databases", "read">>,
     <<"coll", "selecting_collections", "collections", "read">>,
     <<"page", "selecting_collections", "collections", "load">>,
     <<"confirm", "selecting_collections", "collections", "read">>,
     <<"run", "confirming", "summary", "read">>,
     <<"cancel", "confirming", "summary", "state">>}

\* A press starts a handler on a message that the state matches.
LEMMA PressStep ==
    ASSUME WizardInv, NEW u \in Users, NEW m \in DOMAIN screens[u],
           NEW op, NEW required, NEW kind, NEW arg, NEW step,
           <<op, required, kind, step>> \in Buttons,
           arg \subseteq IF op = "db" THEN Databases ELSE Collections,
           Press(u, m, op, required, kind, arg, step)
    PROVE  WizardInv'
<1> USE DEF Press, Touch, chat, timeout
<1> DEFINE pressed == [NoHandler EXCEPT !.op = op, !.step = step, !.msg = m, !.arg = arg]
<1>1. /\ op \in Ops /\ op \notin {"none", "backup", "empty"}
      /\ step \in {"read", "state", "load"}
      /\ step = "load" => op = "page"
      /\ StartsFrom(op, kind)
  BY DEF Buttons, Ops, StartsFrom
<1>2. m \in Nat /\ m \in DOMAIN screens[u] /\ screens[u] # <<>>
  BY LenProperties, EmptySeq DEF WizardInv, TypeOK
<1>3. NoHandler \in Handlers
  BY DEF NoHandler, NoData, Handlers, Data, Types, Ops
<1>4. /\ pressed \in Handlers /\ handler'[u] = pressed
      /\ pressed.op = op /\ pressed.step = step /\ pressed.msg = m /\ pressed.arg = arg
  BY <1>1, <1>2, <1>3 DEF Handlers, WizardInv, TypeOK
<1>5. TypeOK'
  <2>1. handler' \in [Users -> Handlers]
    BY <1>4 DEF WizardInv, TypeOK
  <2>2. active' \in [Users -> {"absent", "fresh", "old"}] /\ trusted' \in [Users -> BOOLEAN]
    BY DEF WizardInv, TypeOK
  <2> QED BY <2>1, <2>2 DEF WizardInv, TypeOK
<1>6. \A v \in Users \ {u} : Same(v)
  BY <1>4 DEF WizardInv, TypeOK, Same
<1>7. HandlerTyped(u)'
  BY <1>2, <1>4 DEF HandlerTyped, Pressed
<1>8. Opened(u)'
  BY <1>1, <1>4 DEF Opened, At
<1>9. Confirmable(u)'
  <2>1. op = "run" => required = "confirming" /\ step = "read"
    BY DEF Buttons
  <2>2. ~At(u, "run", "state")
    BY DEF At, NoHandler
  <2>3. state'[u] = state[u] /\ fresh'[u] = fresh[u] /\ state[u] = required
    OBVIOUS
  <2> QED BY <1>4, <2>1, <2>2, <2>3 DEF WizardInv, UserInv, Confirmable, At
<1>10. TrustedInv(u)'
  <2> SUFFICES ASSUME trusted'[u]
               PROVE  (OwnMessage(u) /\ DataAsRead(u) /\ CustomStored(u) /\ SummaryShown(u))'
    BY DEF TrustedInv
  <2>1. trusted[u] /\ m = Len(screens[u])
    BY DEF WizardInv, TypeOK
  <2>2. Newest(u)' = Newest(u) /\ Newest(u).kind = kind
    BY <2>1 DEF Newest
  <2>3. OwnMessage(u)'
    BY <1>1, <1>4, <2>1, <2>2 DEF OwnMessage
  <2>4. DataAsRead(u)'
    BY <1>1, <1>4 DEF DataAsRead, At, Buttons
  <2>5. CustomStored(u)'
    <3>1. required \in {"selecting_databases", "selecting_collections"} => data[u].type = "CUSTOM"
      BY <2>1 DEF WizardInv, UserInv, TrustedInv, CustomStored, At, NoHandler
    <3>2. op \in {"db", "continue", "coll", "page", "confirm"} =>
            required \in {"selecting_databases", "selecting_collections"}
      BY DEF Buttons
    <3> QED BY <1>1, <1>4, <3>1, <3>2 DEF CustomStored, At, Buttons
  <2>6. SummaryShown(u)'
    <3>1. SummaryShown(u)
      BY <2>1 DEF WizardInv, UserInv, TrustedInv
    <3>2. op = "run" => required = "confirming" /\ kind = "summary"
      BY DEF Buttons
    <3>3. Requested(data[u])' = Requested(data[u])
      BY DEF Requested
    <3> QED BY <1>1, <1>2, <1>4, <2>2, <3>1, <3>2, <3>3 DEF SummaryShown, At
  <2> QED BY <2>3, <2>4, <2>5, <2>6
<1>11. UserInv(u)'
  BY <1>7, <1>8, <1>9, <1>10 DEF UserInv
<1> QED BY <1>5, <1>6, <1>11, OneUserMoves

Moves ==
    {<<"backup", "selecting_backup_type", "store">>, <<"full", "confirming", "load">>,
     <<"custom", "selecting_databases", "load">>, <<"continue", "selecting_collections", "load">>,
     <<"empty", "confirming", "load">>, <<"confirm", "confirming", "show">>,
     <<"run", "none", "store">>, <<"cancel", "none", "store">>}

\* set_state moves the wizard and its handler on, and changes no data.
LEMMA SetStateStep ==
    ASSUME WizardInv, NEW u \in Users, NEW op, NEW to, NEW next, <<op, to, next>> \in Moves,
           SetState(u, op, to, next)
    PROVE  WizardInv'
<1> USE DEF SetState, Step, chat, timeout
<1> DEFINE moved == [handler[u] EXCEPT !.step = next]
<1>1. /\ op \in Ops \ {"none"} /\ to \in WizardStates /\ next \in {"load", "store", "show"}
      /\ handler[u] \in Handlers /\ handler[u].op = op /\ handler[u].step = "state"
  BY DEF Moves, Ops, WizardStates, At, WizardInv, TypeOK
<1>2. moved \in Handlers /\ handler'[u] = moved
  BY <1>1 DEF Handlers, WizardInv, TypeOK
<1>3. /\ moved.op = op /\ moved.step = next /\ moved.msg = handler[u].msg
      /\ moved.arg = handler[u].arg
      /\ state'[u] = to /\ (fresh'[u] <=> to = "confirming" \/ fresh[u])
      /\ trusted'[u] = trusted[u] /\ data'[u] = data[u] /\ screens'[u] = screens[u]
  BY <1>1 DEF Handlers, WizardInv, TypeOK
<1>4. TypeOK'
  <2>1. handler' \in [Users -> Handlers]
    BY <1>2 DEF WizardInv, TypeOK
  <2>2. state' \in [Users -> WizardStates] /\ fresh' \in [Users -> BOOLEAN]
    BY <1>1 DEF WizardInv, TypeOK
  <2> QED BY <2>1, <2>2 DEF WizardInv, TypeOK
<1>5. \A v \in Users \ {u} : Same(v)
  BY DEF WizardInv, TypeOK, Same
<1>6. HandlerTyped(u)'
  BY <1>1, <1>2, <1>3 DEF WizardInv, UserInv, HandlerTyped, Pressed
<1>7. Opened(u)'
  BY <1>2, <1>3 DEF Opened, At, Moves
<1>8. Confirmable(u)'
  BY <1>2, <1>3 DEF Confirmable, At, Moves
<1>9. TrustedInv(u)'
  <2> SUFFICES ASSUME trusted'[u]
               PROVE  (OwnMessage(u) /\ DataAsRead(u) /\ CustomStored(u) /\ SummaryShown(u))'
    BY DEF TrustedInv
  <2>1. OwnMessage(u) /\ DataAsRead(u) /\ CustomStored(u) /\ SummaryShown(u)
    BY <1>3 DEF WizardInv, UserInv, TrustedInv
  <2>2. Newest(u)' = Newest(u)
    BY DEF Newest
  <2>3. OwnMessage(u)'
    BY <1>1, <1>2, <1>3, <2>1, <2>2 DEF OwnMessage, Pressed
  <2>4. DataAsRead(u)'
    BY <1>1, <1>2, <1>3, <2>1 DEF DataAsRead, At, Moves
  <2>5. CustomStored(u)'
    BY <1>1, <1>2, <1>3, <2>1 DEF CustomStored, At, Moves
  <2>6. SummaryShown(u)'
    BY <1>1, <1>2, <1>3, <2>1, <2>2 DEF SummaryShown, OwnMessage, Pressed, StartsFrom, At, Moves
  <2> QED BY <2>3, <2>4, <2>5, <2>6
<1>10. UserInv(u)'
  BY <1>6, <1>7, <1>8, <1>9 DEF UserInv
<1> QED BY <1>4, <1>5, <1>10, OneUserMoves

Reads ==
    {<<"db", "load">>, <<"coll", "load">>, <<"continue", "state">>, <<"confirm", "state">>,
     <<"run", "request">>}

\* A read either ends the handler or keeps what it has read.
LEMMA ReadStep ==
    ASSUME WizardInv, NEW u \in Users, NEW op, NEW ok, NEW arg, NEW next,
           <<op, next>> \in Reads,
           arg \subseteq IF op = "db" THEN Databases ELSE Collections,
           op = "confirm" => arg = data[u].collections,
           Read(u, op, ok, arg, next)
    PROVE  WizardInv'
<1> USE DEF Read, chat, timeout, history, Reads
<1> DEFINE moved == [handler[u] EXCEPT !.step = next, !.arg = arg, !.seen = data[u]]
<1>1. /\ handler[u] \in Handlers /\ data[u] \in Data /\ NoHandler \in Handlers
      /\ handler[u].op = op /\ handler[u].step = "read" /\ op \notin {"none", "backup"}
  BY DEF At, WizardInv, TypeOK, NoHandler, NoData, Handlers, Data, Types, Ops
<1>2. moved \in Handlers
  BY <1>1 DEF Handlers
<1>3. /\ moved.op = op /\ moved.step = next /\ moved.msg = handler[u].msg
      /\ moved.arg = arg /\ moved.seen = data[u]
  BY <1>1 DEF Handlers
<1>4. handler'[u] = moved \/ handler'[u] = NoHandler
  BY DEF WizardInv, TypeOK
<1>5. TypeOK'
  <2>1. handler' \in [Users -> Handlers]
    BY <1>1, <1>2 DEF WizardInv, TypeOK
  <2> QED BY <2>1 DEF WizardInv, TypeOK
<1>6. \A v \in Users \ {u} : Same(v)
  BY DEF WizardInv, TypeOK, Same
<1>7. HandlerTyped(u)'
  BY <1>1, <1>3, <1>4 DEF WizardInv, UserInv, HandlerTyped, Pressed, NoHandler
<1>8. Opened(u)' /\ Confirmable(u)'
  BY <1>1, <1>3, <1>4 DEF WizardInv, UserInv, Opened, Confirmable, At, NoHandler
<1>9. TrustedInv(u)'
  <2> SUFFICES ASSUME trusted[u]
               PROVE  (OwnMessage(u) /\ DataAsRead(u) /\ CustomStored(u) /\ SummaryShown(u))'
    BY DEF TrustedInv
  <2>1. OwnMessage(u) /\ DataAsRead(u) /\ CustomStored(u) /\ SummaryShown(u)
    BY DEF WizardInv, UserInv, TrustedInv
  <2>2. Newest(u)' = Newest(u)
    BY DEF Newest
  <2>3. OwnMessage(u)'
    BY <1>1, <1>3, <1>4, <2>1, <2>2 DEF OwnMessage, Pressed, NoHandler
  <2>4. DataAsRead(u)'
    BY <1>1, <1>3, <1>4 DEF DataAsRead, At, NoHandler
  <2>5. CustomStored(u)'
    BY <1>1, <1>3, <1>4, <2>1 DEF CustomStored, At, NoHandler
  <2>6. SummaryShown(u)'
    BY <1>1, <1>3, <1>4, <2>1, <2>2 DEF SummaryShown, At, NoHandler
  <2> QED BY <2>3, <2>4, <2>5, <2>6
<1>10. UserInv(u)'
  BY <1>7, <1>8, <1>9 DEF UserInv
<1> QED BY <1>5, <1>6, <1>10, OneUserMoves

\* The first half of update_data reads what is stored.
LEMMA LoadStep ==
    ASSUME WizardInv, NEW u \in Users,
           NEW op \in {"full", "custom", "db", "continue", "empty", "coll", "page"}, Load(u, op)
    PROVE  WizardInv'
<1> USE DEF Load, chat, timeout, history
<1> DEFINE moved == [handler[u] EXCEPT !.step = "store", !.seen = data[u]]
<1>1. /\ handler[u] \in Handlers /\ data[u] \in Data
      /\ handler[u].op = op /\ handler[u].step = "load"
  BY DEF At, WizardInv, TypeOK
<1>2. moved \in Handlers /\ handler'[u] = moved
  BY <1>1 DEF Handlers, WizardInv, TypeOK
<1>3. /\ moved.op = op /\ moved.step = "store" /\ moved.msg = handler[u].msg
      /\ moved.arg = handler[u].arg /\ moved.seen = data[u]
  BY <1>1 DEF Handlers
<1>4. TypeOK'
  <2>1. handler' \in [Users -> Handlers]
    BY <1>2 DEF WizardInv, TypeOK
  <2> QED BY <2>1 DEF WizardInv, TypeOK
<1>5. \A v \in Users \ {u} : Same(v)
  BY DEF WizardInv, TypeOK, Same
<1>6. HandlerTyped(u)'
  BY <1>1, <1>2, <1>3 DEF WizardInv, UserInv, HandlerTyped, Pressed
<1>7. Opened(u)' /\ Confirmable(u)'
  BY <1>1, <1>2, <1>3 DEF WizardInv, UserInv, Opened, Confirmable, At
<1>8. TrustedInv(u)'
  <2> SUFFICES ASSUME trusted[u]
               PROVE  (OwnMessage(u) /\ DataAsRead(u) /\ CustomStored(u) /\ SummaryShown(u))'
    BY DEF TrustedInv
  <2>1. OwnMessage(u) /\ DataAsRead(u) /\ CustomStored(u) /\ SummaryShown(u)
    BY DEF WizardInv, UserInv, TrustedInv
  <2>2. Newest(u)' = Newest(u)
    BY DEF Newest
  <2>3. OwnMessage(u)'
    BY <1>1, <1>2, <1>3, <2>1, <2>2 DEF OwnMessage, Pressed
  <2>4. DataAsRead(u)'
    BY <1>1, <1>2, <1>3, <2>1 DEF DataAsRead, At
  <2>5. CustomStored(u)'
    BY <1>1, <1>2, <1>3, <2>1 DEF CustomStored, At
  <2>6. SummaryShown(u)'
    BY <1>1, <1>2, <1>3, <2>1, <2>2 DEF SummaryShown, At
  <2> QED BY <2>3, <2>4, <2>5, <2>6
<1>9. UserInv(u)'
  BY <1>6, <1>7, <1>8 DEF UserInv
<1> QED BY <1>4, <1>5, <1>9, OneUserMoves

\* The last step of a handler: it stores a value and edits its message.
LEMMA LastStep ==
    ASSUME WizardInv, NEW u \in Users, Pressed(u), handler[u].step \in {"store", "show"},
           NEW value \in Data, data' = [data EXCEPT ![u] = value],
           NEW screen \in Screens, Show(u, handler[u].msg, screen), End(u),
           UNCHANGED <<state, active, accepted, timeout, history>>,
           trusted[u] /\ state[u] \in {"selecting_databases", "selecting_collections"}
             => value.type = "CUSTOM",
           trusted[u] /\ state[u] = "confirming"
             => /\ Newest(u).kind # "summary"
                /\ screen.kind = "summary" => screen = Requested(value)
    PROVE  WizardInv'
<1> USE DEF Show, End, timeout, history
<1> DEFINE m == handler[u].msg
<1>1. screens[u] \in Seq(Screens) /\ m \in 1..Len(screens[u]) /\ screens[u] # <<>>
  <2>1. screens[u] \in Seq(Screens) /\ m \in DOMAIN screens[u]
    BY DEF WizardInv, TypeOK, UserInv, HandlerTyped
  <2> QED BY <2>1, LenProperties, EmptySeq
<1>2. NoHandler \in Handlers
  BY DEF NoHandler, NoData, Handlers, Data, Types, Ops
<1>3. handler'[u] = NoHandler /\ data'[u] = value /\ state'[u] = state[u]
  BY DEF WizardInv, TypeOK
<1>4. screens'[u] = screens[u] \/ screens'[u] = [screens[u] EXCEPT ![m] = screen]
  BY DEF WizardInv, TypeOK
<1>5. screens'[u] \in Seq(Screens)
  BY <1>1, <1>4, ExceptSeq
<1>6. TypeOK'
  <2>1. handler' \in [Users -> Handlers] /\ data' \in [Users -> Data]
    BY <1>2 DEF WizardInv, TypeOK
  <2>2. screens' \in [Users -> Seq(Screens)]
    BY <1>5 DEF WizardInv, TypeOK
  <2> QED BY <2>1, <2>2 DEF WizardInv, TypeOK
<1>7. \A v \in Users \ {u} : Same(v)
  BY DEF WizardInv, TypeOK, Same
<1>8. HandlerTyped(u)' /\ Opened(u)'
  BY <1>3 DEF HandlerTyped, Opened, Pressed, At, NoHandler
<1>9. Confirmable(u)'
  BY <1>3 DEF WizardInv, UserInv, Confirmable, At, NoHandler
<1>10. TrustedInv(u)'
  <2> SUFFICES ASSUME trusted[u]
               PROVE  (OwnMessage(u) /\ DataAsRead(u) /\ CustomStored(u) /\ SummaryShown(u))'
    BY DEF TrustedInv
  <2>1. m = Len(screens[u])
    BY DEF WizardInv, UserInv, TrustedInv, OwnMessage
  <2>2. Newest(u)' = Newest(u) \/ Newest(u)' = screen
    <3>1. CASE screens'[u] = screens[u]
      BY <3>1 DEF Newest
    <3>2. CASE screens'[u] = [screens[u] EXCEPT ![m] = screen]
      <4>1. Len(screens'[u]) = m /\ screens'[u][m] = screen
        BY <1>1, <2>1, <3>2, ExceptSeq
      <4> QED BY <4>1 DEF Newest
    <3> QED BY <1>4, <3>1, <3>2
  <2>3. OwnMessage(u)' /\ DataAsRead(u)'
    BY <1>3 DEF OwnMessage, DataAsRead, Pressed, At, NoHandler
  <2>4. CustomStored(u)'
    BY <1>3 DEF CustomStored, At, NoHandler
  <2>5. SummaryShown(u)'
    <3>1. Requested(data[u])' = Requested(value)
      BY <1>3 DEF Requested
    <3> QED BY <1>3, <2>2, <3>1 DEF SummaryShown, At, NoHandler
  <2> QED BY <2>3, <2>4, <2>5
<1>11. UserInv(u)'
  BY <1>8, <1>9, <1>10 DEF UserInv
<1> QED BY <1>6, <1>7, <1>11, OneUserMoves

\* What each handler stores and shows.
LEMMA StoreStep ==
    ASSUME WizardInv, NEW u \in Users,
           NEW op \in Ops \ {"none", "backup"}, NEW value \in Data, NEW screen \in Screens,
           Store(u, op, value, screen),
           trusted[u] /\ op \notin {"full", "run", "cancel"} => value.type = "CUSTOM",
           trusted[u] /\ screen.kind = "summary" /\ op \notin {"run", "cancel"}
             => screen = Requested(value)
    PROVE  WizardInv'
<1>1. handler[u].op = op /\ handler[u].step = "store" /\ Pressed(u)
  BY DEF Store, At, Pressed
<1>2. ASSUME trusted[u], state[u] \in {"selecting_databases", "selecting_collections"}
      PROVE  value.type = "CUSTOM"
  BY <1>1, <1>2 DEF WizardInv, UserInv, TrustedInv, CustomStored, SummaryShown, At
<1>3. ASSUME trusted[u], state[u] = "confirming"
      PROVE  /\ Newest(u).kind # "summary"
             /\ screen.kind = "summary" => screen = Requested(value)
  <2>1. op \notin {"run", "cancel"}
    BY <1>1, <1>3 DEF WizardInv, UserInv, TrustedInv, SummaryShown, At
  <2>2. StartsFrom(op, Newest(u).kind)
    BY <1>1, <1>3 DEF WizardInv, UserInv, TrustedInv, OwnMessage
  <2> QED BY <1>3, <2>1, <2>2 DEF StartsFrom, Ops
<1> QED BY <1>1, <1>2, <1>3, LastStep DEF Store

-----------------------------------------------------------------------------
\* The handlers, one by one.
LEMMA ValuesTyped ==
    ASSUME WizardInv, NEW u \in Users
    PROVE  /\ handler[u] \in Handlers /\ handler[u].seen \in Data /\ data[u] \in Data
           /\ NoData \in Data /\ NoHandler \in Handlers
           /\ \A kind \in {"type", "databases", "collections", "summary", "text"} :
                 Screen(kind) \in Screens /\ Screen(kind).kind = kind
           /\ \A type \in Types, selected \in SUBSET Collections :
                 Summary(type, selected) \in Screens
           /\ \A d \in Data, s \in SUBSET Collections :
                 /\ [d EXCEPT !.collections = s] \in Data
                 /\ [d EXCEPT !.collections = s].type = d.type
                 /\ [d EXCEPT !.collections = s].collections = s
           /\ \A d \in Data, s \in SUBSET Databases :
                 [d EXCEPT !.databases = s] \in Data /\ [d EXCEPT !.databases = s].type = d.type
           /\ \A s \in SUBSET Collections :
                 CollectionKeyboard(s) \in Screens /\ CollectionKeyboard(s).kind = "collections"
<1>1. handler[u] \in Handlers /\ data[u] \in Data
  BY DEF WizardInv, TypeOK
<1>2. NoData \in Data /\ NoHandler \in Handlers
  BY DEF NoHandler, NoData, Handlers, Data, Types, Ops
<1> QED BY <1>1, <1>2 DEF Handlers, Data, Types, Screens, Screen, Summary, CollectionKeyboard

\* What holds of a trusted user's handler before it stores.
LEMMA StoreFacts ==
    ASSUME WizardInv, NEW u \in Users, handler[u].step = "store", trusted[u]
    PROVE  handler[u].op \in {"db", "continue", "empty", "coll", "page"}
             => handler[u].seen.type = "CUSTOM"
BY DEF WizardInv, UserInv, TrustedInv, DataAsRead, CustomStored

\* A handler that redraws its keyboard shows no summary.
LEMMA OwnScreen ==
    ASSUME WizardInv, NEW u \in Users, handler[u].op \in {"coll", "page"}
    PROVE  /\ screens[u][handler[u].msg] \in Screens
           /\ trusted[u] => screens[u][handler[u].msg].kind # "summary"
<1>1. handler[u].msg \in DOMAIN screens[u] /\ screens[u] \in Seq(Screens)
  BY DEF WizardInv, TypeOK, UserInv, HandlerTyped, Pressed
<1>2. trusted[u] => OwnMessage(u)
  BY DEF WizardInv, UserInv, TrustedInv
<1> QED BY <1>1, <1>2, LenProperties DEF OwnMessage, Pressed, Newest, StartsFrom

\* on_full_type.
LEMMA FullTypeStep ==
    ASSUME WizardInv, NEW u \in Users, OnFullType(u)
    PROVE  WizardInv'
<1>1. ASSUME NEW m \in DOMAIN screens[u],
             Press(u, m, "full", "selecting_backup_type", "type", {}, "state")
      PROVE  WizardInv'
  BY <1>1, PressStep DEF Buttons
<1>2. CASE SetState(u, "full", "confirming", "load")
  BY <1>2, SetStateStep DEF Moves
<1>3. CASE Load(u, "full")
  BY <1>3, LoadStep
<1>4. CASE Store(u, "full", [handler[u].seen EXCEPT !.type = "FULL"], Summary("FULL", {}))
  <2> DEFINE value == [handler[u].seen EXCEPT !.type = "FULL"]
  <2>1. handler[u].seen \in Data /\ Summary("FULL", {}) \in Screens
    BY ValuesTyped DEF Types
  <2>2. value \in Data /\ value.type = "FULL"
    BY <2>1 DEF Data, Types
  <2>3. Summary("FULL", {}) = Requested(value)
    BY <2>2 DEF Requested
  <2>4. "full" \in Ops \ {"none", "backup"}
    BY DEF Ops
  <2> HIDE DEF value
  <2> QED BY <1>4, <2>1, <2>2, <2>3, <2>4, StoreStep DEF value
<1> QED BY <1>1, <1>2, <1>3, <1>4 DEF OnFullType

\* on_custom_type.
LEMMA CustomTypeStep ==
    ASSUME WizardInv, NEW u \in Users, OnCustomType(u)
    PROVE  WizardInv'
<1>1. ASSUME NEW m \in DOMAIN screens[u],
             Press(u, m, "custom", "selecting_backup_type", "type", {}, "state")
      PROVE  WizardInv'
  BY <1>1, PressStep DEF Buttons
<1>2. CASE SetState(u, "custom", "selecting_databases", "load")
  BY <1>2, SetStateStep DEF Moves
<1>3. CASE Load(u, "custom")
  BY <1>3, LoadStep
<1>4. CASE Store(u, "custom", [handler[u].seen EXCEPT !.type = "CUSTOM", !.databases = {}],
                 Screen("databases"))
  <2> DEFINE value == [handler[u].seen EXCEPT !.type = "CUSTOM", !.databases = {}]
  <2>1. handler[u].seen \in Data /\ Screen("databases") \in Screens
        /\ Screen("databases").kind # "summary"
    BY ValuesTyped
  <2>2. value \in Data /\ value.type = "CUSTOM"
    BY <2>1 DEF Data, Types
  <2>3. "custom" \in Ops \ {"none", "backup"}
    BY DEF Ops
  <2> HIDE DEF value
  <2> QED BY <1>4, <2>1, <2>2, <2>3, StoreStep DEF value
<1> QED BY <1>1, <1>2, <1>3, <1>4 DEF OnCustomType

\* on_db_toggle.
LEMMA DbToggleStep ==
    ASSUME WizardInv, NEW u \in Users, OnDbToggle(u)
    PROVE  WizardInv'
<1>1. ASSUME NEW m \in DOMAIN screens[u], NEW d \in Databases,
             Press(u, m, "db", "selecting_databases", "databases", {d}, "read")
      PROVE  WizardInv'
  BY <1>1, PressStep DEF Buttons
<1>2. ASSUME handler[u].op = "db"
      PROVE  handler[u].arg \subseteq Databases /\ data[u].databases \subseteq Databases
  BY <1>2, ValuesTyped DEF WizardInv, UserInv, HandlerTyped, Pressed, Data
<1>3. CASE Read(u, "db", TRUE, Toggle(data[u].databases, handler[u].arg), "load")
  <2> DEFINE toggled == Toggle(data[u].databases, handler[u].arg)
  <2>1. toggled \subseteq Databases
    BY <1>2, <1>3 DEF Toggle, Read, At
  <2> HIDE DEF toggled
  <2>2. toggled \subseteq IF "db" = "db" THEN Databases ELSE Collections
    BY <2>1
  <2>3. <<"db", "load">> \in Reads /\ Read(u, "db", TRUE, toggled, "load")
    BY <1>3 DEF Reads, toggled
  <2> QED BY <2>2, <2>3, ReadStep
<1>4. CASE Load(u, "db")
  BY <1>4, LoadStep
<1>5. CASE Store(u, "db", [handler[u].seen EXCEPT !.databases = handler[u].arg], Screen("databases"))
  <2> DEFINE value == [handler[u].seen EXCEPT !.databases = handler[u].arg]
  <2>1. At(u, "db", "store")
    BY <1>5 DEF Store
  <2>2. value \in Data /\ value.type = handler[u].seen.type
    BY <1>2, <2>1, ValuesTyped DEF At
  <2>3. trusted[u] => handler[u].seen.type = "CUSTOM"
    BY <2>1, StoreFacts DEF At
  <2>4. Screen("databases") \in Screens /\ Screen("databases").kind # "summary"
    BY ValuesTyped
  <2>5. "db" \in Ops \ {"none", "backup"}
    BY DEF Ops
  <2> HIDE DEF value
  <2> QED BY <1>5, <2>2, <2>3, <2>4, <2>5, StoreStep DEF value
<1> QED BY <1>1, <1>3, <1>4, <1>5 DEF OnDbToggle

\* With no collections to choose from the handler goes on as "empty".
LEMMA BecomesEmptyStep ==
    ASSUME WizardInv, NEW u \in Users, At(u, "continue", "store"),
           data' = [data EXCEPT ![u] = [handler[u].seen EXCEPT !.collections = {}]],
           handler' = [handler EXCEPT ![u].op = "empty", ![u].step = "state"],
           UNCHANGED <<state, active, chat, timeout, history>>
    PROVE  WizardInv'
<1> USE DEF chat, timeout, history
<1> DEFINE value == [handler[u].seen EXCEPT !.collections = {}]
           moved == [handler[u] EXCEPT !.op = "empty", !.step = "state"]
<1>1. handler[u] \in Handlers /\ value \in Data /\ value.type = handler[u].seen.type
  BY ValuesTyped
<1>2. moved \in Handlers /\ handler'[u] = moved /\ data'[u] = value
  <2> HIDE DEF value
  <2>1. moved \in Handlers
    BY <1>1 DEF Handlers, Ops
  <2> QED BY <1>1, <2>1 DEF WizardInv, TypeOK, value
<1>3. moved.op = "empty" /\ moved.step = "state" /\ moved.msg = handler[u].msg
      /\ moved.arg = handler[u].arg
  BY <1>1 DEF Handlers
<1> HIDE DEF moved, value
<1>4. TypeOK'
  <2>1. data' \in [Users -> Data]
    BY <1>1 DEF WizardInv, TypeOK, value
  <2>2. handler' \in [Users -> Handlers]
    BY <1>2 DEF WizardInv, TypeOK, moved
  <2> QED BY <2>1, <2>2 DEF WizardInv, TypeOK
<1>5. \A v \in Users \ {u} : Same(v)
  BY DEF WizardInv, TypeOK, Same
<1>6. HandlerTyped(u)' /\ Opened(u)' /\ Confirmable(u)'
  BY <1>2, <1>3 DEF WizardInv, UserInv, HandlerTyped, Opened, Confirmable, Pressed, At
<1>7. TrustedInv(u)'
  <2> SUFFICES ASSUME trusted[u]
               PROVE  (OwnMessage(u) /\ DataAsRead(u) /\ CustomStored(u) /\ SummaryShown(u))'
    BY DEF TrustedInv
  <2>1. OwnMessage(u)
    BY DEF WizardInv, UserInv, TrustedInv
  <2>2. Newest(u)' = Newest(u) /\ StartsFrom("continue", Newest(u).kind)
    BY <2>1 DEF Newest, OwnMessage, Pressed, At
  <2>3. value.type = "CUSTOM"
    BY <1>1, StoreFacts DEF At
  <2>4. OwnMessage(u)'
    BY <1>2, <1>3, <2>1, <2>2 DEF OwnMessage, Pressed, StartsFrom, At
  <2>5. DataAsRead(u)' /\ CustomStored(u)'
    BY <1>2, <1>3, <2>3 DEF DataAsRead, CustomStored, At
  <2>6. SummaryShown(u)'
    BY <1>2, <1>3, <2>2 DEF SummaryShown, StartsFrom, At
  <2> QED BY <2>4, <2>5, <2>6
<1>8. UserInv(u)'
  BY <1>6, <1>7 DEF UserInv
<1> QED BY <1>4, <1>5, <1>8, OneUserMoves

\* on_db_continuar, with the collections it lists or with none.
LEMMA DbContinuarStep ==
    ASSUME WizardAssumption, WizardInv, NEW u \in Users, OnDbContinuar(u)
    PROVE  WizardInv'
<1> DEFINE listed == UNION {CollectionsOf[d] : d \in data[u].databases}
           stored == [handler[u].seen EXCEPT !.collections = {}]
<1>1. ASSUME NEW m \in DOMAIN screens[u],
             Press(u, m, "continue", "selecting_databases", "databases", {}, "read")
      PROVE  WizardInv'
  BY <1>1, PressStep DEF Buttons
<1>2. CASE Read(u, "continue", data[u].databases # {}, listed, "state")
  <2>1. data[u].databases \subseteq Databases
    BY ValuesTyped DEF Data
  <2>2. listed \subseteq Collections
    BY <2>1 DEF WizardAssumption
  <2> HIDE DEF listed
  <2> QED BY <1>2, <2>2, ReadStep DEF Reads
<1>3. CASE SetState(u, "continue", "selecting_collections", "load")
  BY <1>3, SetStateStep DEF Moves
<1>4. CASE Load(u, "continue") \/ Load(u, "empty")
  BY <1>4, LoadStep
<1>5. stored \in Data /\ stored.type = handler[u].seen.type /\ stored.collections = {}
  BY ValuesTyped
<1>6. "continue" \in Ops \ {"none", "backup"} /\ "empty" \in Ops \ {"none", "backup"}
  BY DEF Ops
<1>7. ASSUME NEW op \in {"continue", "empty"}, At(u, op, "store"), trusted[u]
      PROVE  stored.type = "CUSTOM"
  BY <1>5, <1>7, StoreFacts DEF At
<1>8. CASE Store(u, "continue", stored, CollectionKeyboard(handler[u].arg))
  <2>1. At(u, "continue", "store")
    BY <1>8 DEF Store
  <2>2. handler[u].arg \subseteq Collections
    BY <2>1 DEF At, WizardInv, UserInv, HandlerTyped, Pressed
  <2>3. /\ CollectionKeyboard(handler[u].arg) \in Screens
        /\ CollectionKeyboard(handler[u].arg).kind # "summary"
    BY <2>2, ValuesTyped
  <2>4. trusted[u] => stored.type = "CUSTOM"
    BY <1>7, <2>1
  <2> HIDE DEF stored
  <2> QED BY <1>5, <1>6, <1>8, <2>3, <2>4, StoreStep
<1>9. CASE /\ At(u, "continue", "store")
           /\ data' = [data EXCEPT ![u] = stored]
           /\ handler' = [handler EXCEPT ![u].op = "empty", ![u].step = "state"]
           /\ UNCHANGED <<state, active, chat, timeout, history>>
  BY <1>9, BecomesEmptyStep
<1>10. CASE SetState(u, "empty", "confirming", "load")
  BY <1>10, SetStateStep DEF Moves
<1>11. CASE Store(u, "empty", stored, Summary("CUSTOM", {}))
  <2>1. trusted[u] => stored.type = "CUSTOM"
    BY <1>7, <1>11 DEF Store
  <2>2. trusted[u] => Summary("CUSTOM", {}) = Requested(stored)
    BY <1>5, <2>1 DEF Requested
  <2>3. Summary("CUSTOM", {}) \in Screens
    BY ValuesTyped DEF Types
  <2> HIDE DEF stored
  <2> QED BY <1>5, <1>6, <1>11, <2>1, <2>2, <2>3, StoreStep
<1> QED BY <1>1, <1>2, <1>3, <1>4, <1>8, <1>9, <1>10, <1>11 DEF OnDbContinuar

\* on_coll_toggle.
LEMMA CollToggleStep ==
    ASSUME WizardInv, NEW u \in Users, OnCollToggle(u)
    PROVE  WizardInv'
<1>1. ASSUME NEW m \in DOMAIN screens[u], NEW c \in screens[u][m].collections,
             Press(u, m, "coll", "selecting_collections", "collections", {c}, "read")
      PROVE  WizardInv'
  <2>1. screens[u][m] \in Screens
    BY LenProperties DEF WizardInv, TypeOK
  <2>2. c \in Collections
    BY <2>1 DEF Screens
  <2> QED BY <1>1, <2>2, PressStep DEF Buttons
<1>2. ASSUME handler[u].op = "coll"
      PROVE  handler[u].arg \subseteq Collections /\ data[u].collections \subseteq Collections
  BY <1>2, ValuesTyped DEF WizardInv, UserInv, HandlerTyped, Pressed, Data
<1>3. CASE Read(u, "coll", TRUE, Toggle(data[u].collections, handler[u].arg), "load")
  <2> DEFINE toggled == Toggle(data[u].collections, handler[u].arg)
  <2>1. toggled \subseteq Collections
    BY <1>2, <1>3 DEF Toggle, Read, At
  <2> HIDE DEF toggled
  <2>2. toggled \subseteq IF "coll" = "db" THEN Databases ELSE Collections
    BY <2>1
  <2>3. <<"coll", "load">> \in Reads /\ Read(u, "coll", TRUE, toggled, "load")
    BY <1>3 DEF Reads, toggled
  <2> QED BY <2>2, <2>3, ReadStep
<1>4. CASE Load(u, "coll")
  BY <1>4, LoadStep
<1>5. CASE Store(u, "coll", [handler[u].seen EXCEPT !.collections = handler[u].arg],
                 screens[u][handler[u].msg])
  <2> DEFINE value == [handler[u].seen EXCEPT !.collections = handler[u].arg]
  <2>1. At(u, "coll", "store")
    BY <1>5 DEF Store
  <2>2. value \in Data /\ value.type = handler[u].seen.type
    BY <1>2, <2>1, ValuesTyped DEF At
  <2>3. trusted[u] => handler[u].seen.type = "CUSTOM"
    BY <2>1, StoreFacts DEF At
  <2>4. /\ screens[u][handler[u].msg] \in Screens
        /\ trusted[u] => screens[u][handler[u].msg].kind # "summary"
    BY <2>1, OwnScreen DEF At
  <2>5. "coll" \in Ops \ {"none", "backup"}
    BY DEF Ops
  <2> HIDE DEF value
  <2> QED BY <1>5, <2>2, <2>3, <2>4, <2>5, StoreStep DEF value
<1> QED BY <1>1, <1>3, <1>4, <1>5 DEF OnCollToggle

\* The page buttons.
LEMMA PageNavStep ==
    ASSUME WizardInv, NEW u \in Users, OnPageNav(u)
    PROVE  WizardInv'
<1>1. ASSUME NEW m \in DOMAIN screens[u],
             Press(u, m, "page", "selecting_collections", "collections", {}, "load")
      PROVE  WizardInv'
  BY <1>1, PressStep DEF Buttons
<1>2. CASE Load(u, "page")
  BY <1>2, LoadStep
<1>3. CASE Store(u, "page", handler[u].seen, screens[u][handler[u].msg])
  <2>1. At(u, "page", "store") /\ handler[u].seen \in Data
    BY <1>3, ValuesTyped DEF Store
  <2>2. trusted[u] => handler[u].seen.type = "CUSTOM"
    BY <2>1, StoreFacts DEF At
  <2>3. /\ screens[u][handler[u].msg] \in Screens
        /\ trusted[u] => screens[u][handler[u].msg].kind # "summary"
    BY <2>1, OwnScreen DEF At
  <2>4. "page" \in Ops \ {"none", "backup"}
    BY DEF Ops
  <2> QED BY <1>3, <2>1, <2>2, <2>3, <2>4, StoreStep
<1> QED BY <1>1, <1>2, <1>3 DEF OnPageNav

\* on_coll_confirmar: the summary shows what is stored.
LEMMA CollConfirmarStep ==
    ASSUME WizardInv, NEW u \in Users, OnCollConfirmar(u)
    PROVE  WizardInv'
<1>1. ASSUME NEW m \in DOMAIN screens[u],
             Press(u, m, "confirm", "selecting_collections", "collections", {}, "read")
      PROVE  WizardInv'
  BY <1>1, PressStep DEF Buttons
<1>2. CASE Read(u, "confirm", data[u].collections # {}, data[u].collections, "state")
  <2>1. data[u].collections \subseteq Collections
    BY ValuesTyped DEF Data
  <2> QED BY <1>2, <2>1, ReadStep DEF Reads
<1>3. CASE SetState(u, "confirm", "confirming", "show")
  BY <1>3, SetStateStep DEF Moves
<1>4. CASE /\ At(u, "confirm", "show")
           /\ Show(u, handler[u].msg, Summary("CUSTOM", handler[u].arg))
           /\ End(u)
           /\ UNCHANGED <<state, data, active, accepted, timeout, history>>
  <2>1. handler[u].op = "confirm" /\ handler[u].step = "show" /\ Pressed(u)
    BY <1>4 DEF At, Pressed
  <2>2. data[u] \in Data /\ data' = [data EXCEPT ![u] = data[u]]
    BY <1>4 DEF WizardInv, TypeOK
  <2>3. Summary("CUSTOM", handler[u].arg) \in Screens
    BY <2>1, ValuesTyped DEF WizardInv, UserInv, HandlerTyped, Types
  <2>4. ASSUME trusted[u]
        PROVE  /\ data[u].type = "CUSTOM"
               /\ Newest(u).kind # "summary"
               /\ Summary("CUSTOM", handler[u].arg) = Requested(data[u])
    BY <2>1, <2>4 DEF WizardInv, UserInv, TrustedInv, CustomStored, OwnMessage, StartsFrom,
                      DataAsRead, Requested
  <2> QED BY <1>4, <2>1, <2>2, <2>3, <2>4, LastStep
<1> QED BY <1>1, <1>2, <1>3, <1>4 DEF OnCollConfirmar

\* An accepted request leaves "confirming" before another can be read.
LEMMA RequestStep ==
    ASSUME WizardInv, NEW u \in Users, RequestBackup(u)
    PROVE  WizardInv'
<1> DEFINE moved == [handler[u] EXCEPT !.step = "state"]
<1>1. /\ accepted' = accepted \/ accepted' = [accepted EXCEPT ![u] = @ + 1]
      /\ \/ /\ handler' = [handler EXCEPT ![u].step = "state"]
            /\ fresh' = fresh \/ fresh' = [fresh EXCEPT ![u] = FALSE]
         \/ handler' = [handler EXCEPT ![u] = NoHandler] /\ fresh' = fresh
      /\ UNCHANGED <<state, data, active, screens, monitor, expired, trusted>>
      /\ At(u, "run", "request")
  BY DEF RequestBackup, Step, End, timeout
<1>2. /\ handler[u] \in Handlers /\ NoHandler \in Handlers
      /\ handler[u].op = "run" /\ handler[u].step = "request"
  BY <1>1, ValuesTyped DEF At
<1>3. moved \in Handlers
  BY <1>2 DEF Handlers
<1>4. moved.op = "run" /\ moved.step = "state" /\ moved.msg = handler[u].msg /\ moved.arg = handler[u].arg
  BY <1>2 DEF Handlers
<1>5. \/ handler'[u] = moved
      \/ handler'[u] = NoHandler /\ fresh'[u] = fresh[u]
  BY <1>1 DEF WizardInv, TypeOK
<1> HIDE DEF moved
<1>6. TypeOK'
  <2>1. handler' \in [Users -> Handlers]
    BY <1>1, <1>2, <1>3 DEF WizardInv, TypeOK, moved
  <2>2. accepted' \in [Users -> Nat]
    BY <1>1 DEF WizardInv, TypeOK
  <2>3. fresh' \in [Users -> BOOLEAN]
    BY <1>1 DEF WizardInv, TypeOK
  <2> QED BY <1>1, <2>1, <2>2, <2>3 DEF WizardInv, TypeOK
<1>7. \A v \in Users \ {u} : Same(v)
  BY <1>1 DEF WizardInv, TypeOK, Same
<1>8. HandlerTyped(u)' /\ Opened(u)'
  BY <1>1, <1>2, <1>4, <1>5 DEF WizardInv, UserInv, HandlerTyped, Opened, Pressed, At, NoHandler
<1>9. Confirmable(u)'
  BY <1>1, <1>2, <1>4, <1>5 DEF WizardInv, UserInv, Confirmable, At, NoHandler
<1>10. TrustedInv(u)'
  <2> SUFFICES ASSUME trusted[u]
               PROVE  (OwnMessage(u) /\ DataAsRead(u) /\ CustomStored(u) /\ SummaryShown(u))'
    BY <1>1 DEF TrustedInv
  <2>1. OwnMessage(u) /\ CustomStored(u) /\ SummaryShown(u)
    BY DEF WizardInv, UserInv, TrustedInv
  <2>2. Newest(u)' = Newest(u)
    BY <1>1 DEF Newest
  <2>3. OwnMessage(u)' /\ DataAsRead(u)'
    BY <1>1, <1>2, <1>4, <1>5, <2>1, <2>2 DEF OwnMessage, DataAsRead, Pressed, At, NoHandler
  <2>4. CustomStored(u)'
    BY <1>1, <1>2, <1>4, <1>5, <2>1 DEF CustomStored, At, NoHandler
  <2>5. SummaryShown(u)'
    BY <1>1, <1>2, <1>4, <1>5, <2>1, <2>2 DEF SummaryShown, At, NoHandler
  <2> QED BY <2>3, <2>4, <2>5
<1>11. UserInv(u)'
  BY <1>8, <1>9, <1>10 DEF UserInv
<1> QED BY <1>6, <1>7, <1>11, OneUserMoves

\* on_ejecutar.
LEMMA EjecutarStep ==
    ASSUME WizardInv, NEW u \in Users, OnEjecutar(u)
    PROVE  WizardInv'
<1>1. ASSUME NEW m \in DOMAIN screens[u], Press(u, m, "run", "confirming", "summary", {}, "read")
      PROVE  WizardInv'
  BY <1>1, PressStep DEF Buttons
<1>2. CASE Read(u, "run", TRUE, {}, "request")
  <2>1. <<"run", "request">> \in Reads /\ "run" # "db" /\ "run" # "confirm"
    BY DEF Reads
  <2> QED BY <1>2, <2>1, ReadStep
<1>3. CASE RequestBackup(u)
  BY <1>3, RequestStep
<1>4. CASE SetState(u, "run", "none", "store")
  BY <1>4, SetStateStep DEF Moves
<1>5. CASE Store(u, "run", NoData, Screen("text"))
  <2>1. "run" \in Ops \ {"none", "backup"} /\ NoData \in Data /\ Screen("text") \in Screens
    BY ValuesTyped DEF Ops
  <2> QED BY <1>5, <2>1, StoreStep
<1> QED BY <1>1, <1>2, <1>3, <1>4, <1>5 DEF OnEjecutar

\* on_cancelar.
LEMMA CancelarStep ==
    ASSUME WizardInv, NEW u \in Users, OnCancelar(u)
    PROVE  WizardInv'
<1>1. ASSUME NEW m \in DOMAIN screens[u],
             Press(u, m, "cancel", "confirming", "summary", {}, "state")
      PROVE  WizardInv'
  BY <1>1, PressStep DEF Buttons
<1>2. CASE SetState(u, "cancel", "none", "store")
  BY <1>2, SetStateStep DEF Moves
<1>3. CASE Store(u, "cancel", NoData, Screen("text"))
  <2>1. "cancel" \in Ops \ {"none", "backup"} /\ NoData \in Data /\ Screen("text") \in Screens
    BY ValuesTyped DEF Ops
  <2> QED BY <1>3, <2>1, StoreStep
<1> QED BY <1>1, <1>2, <1>3 DEF OnCancelar

\* A handler that has written nothing yet.
Unwritten(u) ==
    /\ ~(At(u, "full", "load") \/ At(u, "full", "store"))
    /\ ~(At(u, "custom", "load") \/ At(u, "custom", "store"))
    /\ ~At(u, "run", "state")

\* A handler begins with /backup, or ends with nothing written.
LEMMA BeginOrFailStep ==
    ASSUME WizardInv, NEW u \in Users,
           handler' \in [Users -> Handlers],
           \A v \in Users \ {u} : handler'[v] = handler[v],
           handler'[u] = NoHandler \/ At(u, "backup", "state")',
           Unwritten(u),
           active' \in [Users -> {"absent", "fresh", "old"}],
           UNCHANGED <<state, data, chat, timeout, history>>
    PROVE  WizardInv'
<1> USE DEF chat, timeout, history, Unwritten
<1>1. handler'[u] = NoHandler \/ (handler'[u].op = "backup" /\ handler'[u].step = "state")
  BY DEF At
<1>2. TypeOK'
  BY DEF WizardInv, TypeOK
<1>3. \A v \in Users \ {u} : Same(v)
  BY DEF WizardInv, TypeOK, Same
<1>4. HandlerTyped(u)' /\ Opened(u)' /\ Confirmable(u)'
  BY <1>1 DEF WizardInv, UserInv, HandlerTyped, Opened, Confirmable, Pressed, At, NoHandler
<1>5. TrustedInv(u)'
  <2> SUFFICES ASSUME trusted[u]
               PROVE  (OwnMessage(u) /\ DataAsRead(u) /\ CustomStored(u) /\ SummaryShown(u))'
    BY DEF TrustedInv
  <2>1. CustomStored(u) /\ SummaryShown(u)
    BY DEF WizardInv, UserInv, TrustedInv
  <2>2. Newest(u)' = Newest(u)
    BY DEF Newest
  <2>3. OwnMessage(u)' /\ DataAsRead(u)'
    BY <1>1 DEF OwnMessage, DataAsRead, Pressed, At, NoHandler
  <2>4. CustomStored(u)'
    BY <1>1, <2>1 DEF CustomStored, At, NoHandler
  <2>5. SummaryShown(u)'
    BY <1>1, <2>1, <2>2 DEF SummaryShown, At, NoHandler
  <2> QED BY <2>3, <2>4, <2>5
<1>6. UserInv(u)'
  BY <1>4, <1>5 DEF UserInv
<1> QED BY <1>2, <1>3, <1>6, OneUserMoves

\* A handler that fails before it has written anything leaves the wizard as it was.
LEMMA HandlerFailsStep ==
    ASSUME WizardInv, NEW u \in Users, HandlerFails(u)
    PROVE  WizardInv'
<1>1. Unwritten(u)
  BY DEF HandlerFails, Unwritten, At
<1>2. NoHandler \in Handlers
  BY ValuesTyped
<1>3. /\ handler' = [handler EXCEPT ![u] = NoHandler]
      /\ UNCHANGED <<state, data, active, chat, timeout, history>>
  BY DEF HandlerFails, End
<1>4. /\ handler' \in [Users -> Handlers] /\ handler'[u] = NoHandler
      /\ \A v \in Users \ {u} : handler'[v] = handler[v]
      /\ active' \in [Users -> {"absent", "fresh", "old"}]
  BY <1>2, <1>3 DEF WizardInv, TypeOK
<1> QED BY <1>1, <1>3, <1>4, BeginOrFailStep

\* /backup starts over with nothing stored.
LEMMA CmdBackupStep ==
    ASSUME WizardInv, NEW u \in Users, CmdBackup(u)
    PROVE  WizardInv'
<1>1. CASE /\ handler[u] = NoHandler
           /\ Touch(u)
           /\ handler' = [handler EXCEPT ![u] = [NoHandler EXCEPT !.op = "backup", !.step = "state"]]
           /\ UNCHANGED <<state, data, chat, timeout, history>>
  <2> DEFINE h == [NoHandler EXCEPT !.op = "backup", !.step = "state"]
  <2>1. h \in Handlers /\ h.op = "backup" /\ h.step = "state"
    <3>1. NoHandler \in Handlers
      BY ValuesTyped
    <3> QED BY <3>1 DEF Handlers, Ops
  <2> HIDE DEF h
  <2>2. Unwritten(u)
    BY <1>1 DEF NoHandler, Unwritten, At
  <2>3. handler' = [handler EXCEPT ![u] = h]
    BY <1>1 DEF h
  <2>4. /\ handler' \in [Users -> Handlers] /\ At(u, "backup", "state")'
        /\ \A v \in Users \ {u} : handler'[v] = handler[v]
    BY <2>1, <2>3 DEF WizardInv, TypeOK, At
  <2>5. active' \in [Users -> {"absent", "fresh", "old"}]
    BY <1>1 DEF Touch, WizardInv, TypeOK
  <2> QED BY <1>1, <2>2, <2>4, <2>5, BeginOrFailStep
<1>2. CASE SetState(u, "backup", "selecting_backup_type", "store")
  BY <1>2, SetStateStep DEF Moves
<1>3. CASE /\ At(u, "backup", "store")
           /\ data' = [data EXCEPT ![u] = NoData]
           /\ \/ screens' = [screens EXCEPT ![u] = Append(@, Screen("type"))]
              \/ "raise" \in Faults /\ UNCHANGED screens
           /\ trusted' = [trusted EXCEPT ![u] = TRUE]
           /\ End(u)
           /\ UNCHANGED <<state, active, accepted, timeout, fresh>>
  <2>1. NoData \in Data /\ NoHandler \in Handlers /\ Screen("type") \in Screens
    BY ValuesTyped
  <2>2. handler'[u] = NoHandler /\ state'[u] = state[u] /\ fresh'[u] = fresh[u]
    BY <1>3 DEF End, WizardInv, TypeOK
  <2>3. state[u] \in {"selecting_backup_type", "idle"}
    BY <1>3 DEF WizardInv, UserInv, Opened
  <2>4. TypeOK'
    <3>1. handler' \in [Users -> Handlers] /\ data' \in [Users -> Data]
      BY <1>3, <2>1 DEF End, WizardInv, TypeOK
    <3>2. screens' \in [Users -> Seq(Screens)]
      <4>1. screens[u] \in Seq(Screens)
        BY DEF WizardInv, TypeOK
      <4>2. Append(screens[u], Screen("type")) \in Seq(Screens)
        BY <2>1, <4>1, AppendProperties
      <4> QED BY <1>3, <4>2 DEF WizardInv, TypeOK
    <3>3. trusted' \in [Users -> BOOLEAN]
      BY <1>3 DEF WizardInv, TypeOK
    <3> QED BY <1>3, <3>1, <3>2, <3>3 DEF timeout, WizardInv, TypeOK
  <2>5. \A v \in Users \ {u} : Same(v)
    BY <1>3 DEF End, WizardInv, TypeOK, Same
  <2>6. HandlerTyped(u)' /\ Opened(u)' /\ Confirmable(u)'
    BY <2>2, <2>3 DEF HandlerTyped, Opened, Confirmable, Pressed, At, NoHandler
  <2>7. OwnMessage(u)' /\ DataAsRead(u)' /\ CustomStored(u)' /\ SummaryShown(u)'
    BY <2>2, <2>3 DEF OwnMessage, DataAsRead, CustomStored, SummaryShown, Pressed, At, NoHandler
  <2>8. UserInv(u)'
    BY <2>6, <2>7 DEF UserInv, TrustedInv
  <2> QED BY <2>4, <2>5, <2>8, OneUserMoves
<1> QED BY <1>1, <1>2, <1>3 DEF CmdBackup

-----------------------------------------------------------------------------
\* The monitor takes a wizard out of its user's hands: nothing is promised of it
\* until the next /backup.
LEMMA MonitorStep ==
    ASSUME WizardInv, Monitor
    PROVE  WizardInv'
<1> USE DEF chat, history, timeout
<1>1. CASE MonitorScan
  <2>1. TypeOK'
    BY <1>1 DEF MonitorScan, WizardInv, TypeOK
  <2> QED BY <1>1, <2>1, SameKeeps DEF MonitorScan, WizardInv, Same
<1>2. ASSUME NEW u \in Users, MonitorCheck(u) PROVE WizardInv'
  <2>1. TypeOK'
    BY <1>2 DEF MonitorCheck, WizardInv, TypeOK
  <2> QED BY <1>2, <2>1, SameKeeps DEF MonitorCheck, WizardInv, Same
<1>3. ASSUME NEW u \in Users, MonitorSetState(u) PROVE WizardInv'
  <2>1. TypeOK'
    BY <1>3 DEF MonitorSetState, WizardInv, TypeOK, WizardStates
  <2>2. \A v \in Users \ {u} : Same(v)
    BY <1>3 DEF MonitorSetState, WizardInv, TypeOK, Same
  <2>3. state'[u] = "idle" /\ ~trusted'[u]
    BY <1>3 DEF MonitorSetState, WizardInv, TypeOK
  <2>4. UserInv(u)'
    BY <1>3, <2>3 DEF MonitorSetState, WizardInv, UserInv, HandlerTyped, Confirmable, Opened,
                      TrustedInv, Pressed, At
  <2> QED BY <2>1, <2>2, <2>4, OneUserMoves
<1>4. ASSUME NEW u \in Users, MonitorSetData(u) PROVE WizardInv'
  <2>1. TypeOK'
    BY <1>4, ValuesTyped DEF MonitorSetData, WizardInv, TypeOK
  <2>2. \A v \in Users \ {u} : Same(v)
    BY <1>4 DEF MonitorSetData, WizardInv, TypeOK, Same
  <2>3. ~trusted'[u]
    BY <1>4 DEF MonitorSetData, WizardInv, TypeOK
  <2>4. UserInv(u)'
    BY <1>4, <2>3 DEF MonitorSetData, WizardInv, UserInv, HandlerTyped, Confirmable, Opened,
                      TrustedInv, Pressed, At
  <2> QED BY <2>1, <2>2, <2>4, OneUserMoves
<1>5. CASE MonitorForget
  <2>1. TypeOK'
    BY <1>5 DEF MonitorForget, WizardInv, TypeOK
  <2> QED BY <1>5, <2>1, SameKeeps DEF MonitorForget, WizardInv, Same
<1> QED BY <1>1, <1>2, <1>3, <1>4, <1>5 DEF Monitor

\* The invariant holds initially, when no wizard is open.
LEMMA WizardInvInit ==
    ASSUME Init
    PROVE  WizardInv
<1> USE DEF Init
<1>1. TypeOK
  <2>1. NoData \in Data /\ NoHandler \in Handlers
    BY DEF NoHandler, NoData, Handlers, Data, Types, Ops
  <2>2. <<>> \in Seq(Screens)
    BY EmptySeq
  <2> QED BY <2>1, <2>2 DEF TypeOK, WizardStates
<1>2. ASSUME NEW u \in Users PROVE UserInv(u)
  BY DEF UserInv, HandlerTyped, Confirmable, Opened, TrustedInv, Pressed, At, NoHandler
<1> QED BY <1>1, <1>2 DEF WizardInv

\* Every step keeps the invariant.
LEMMA WizardInvStep ==
    ASSUME WizardAssumption, WizardInv, [Next]_vars
    PROVE  WizardInv'
<1>1. CASE UNCHANGED vars
  <2>1. TypeOK'
    BY <1>1 DEF vars, chat, timeout, history, WizardInv, TypeOK
  <2> QED BY <1>1, <2>1, SameKeeps DEF vars, chat, timeout, history, WizardInv, Same
<1>2. CASE Monitor
  BY <1>2, MonitorStep
<1>3. ASSUME NEW u \in Users, Handle(u) PROVE WizardInv'
  BY <1>3, CmdBackupStep, FullTypeStep, CustomTypeStep, DbToggleStep, DbContinuarStep,
     CollToggleStep, PageNavStep, CollConfirmarStep, EjecutarStep, CancelarStep,
     HandlerFailsStep DEF Handle
<1>4. ASSUME NEW u \in Users, Age(u) PROVE WizardInv'
  <2>1. TypeOK'
    BY <1>4 DEF Age, chat, timeout, history, WizardInv, TypeOK
  <2> QED BY <1>4, <2>1, SameKeeps DEF Age, chat, timeout, history, WizardInv, Same
<1> QED BY <1>1, <1>2, <1>3, <1>4 DEF Next

\* The invariant of the wizard: types, what may be confirmed, and what a user who
\* keeps to the newest message sees of the stored selection.
THEOREM WizardInvariant == Spec => []WizardInv
<1>1. Init => WizardInv
  BY WizardInvInit
<1>2. WizardInv /\ [Next]_vars => WizardInv'
  BY WizardAssumption, WizardInvStep
<1> QED BY <1>1, <1>2, PTL DEF Spec

\* A backup is accepted only by the request step of the user's own handler.
LEMMA AcceptedByRequest ==
    ASSUME WizardInv, Next, NEW u \in Users, accepted'[u] # accepted[u]
    PROVE  At(u, "run", "request")
<1>1. PICK v \in Users : Handle(v)
  BY DEF Next, Monitor, MonitorScan, MonitorCheck, MonitorSetState, MonitorSetData, MonitorForget,
         Age, chat
<1>2. RequestBackup(v)
  BY <1>1 DEF Handle, CmdBackup, OnFullType, OnCustomType, OnDbToggle, OnDbContinuar, OnCollToggle,
              OnPageNav, OnCollConfirmar, OnEjecutar, OnCancelar, HandlerFails,
              Press, Read, SetState, Load, Store, chat
<1> QED BY <1>2 DEF RequestBackup, WizardInv, TypeOK

\* However often buttons are pressed, on whichever message, in any number of
\* wizards, one confirmation starts at most one backup (on_ejecutar).
THEOREM OneRequestEach == Spec => OneRequestPerConfirmation
<1> DEFINE Asked == \A u \in Users : accepted'[u] # accepted[u] => fresh[u]
<1>1. ASSUME WizardInv, [Next]_vars PROVE [Asked]_vars
  BY <1>1, AcceptedByRequest DEF WizardInv, UserInv, Confirmable
<1> QED BY <1>1, WizardInvariant, PTL DEF Spec, OneRequestPerConfirmation

\* Whoever answers in time and uses the newest message gets the backup of its
\* summary (on_ejecutar, and every handler that writes the selection).
THEOREM RequestIsTheSummary == Spec => RequestMatchesSummary
<1> DEFINE Matches == \A u \in Users :
               accepted'[u] # accepted[u] /\ trusted[u] =>
                  screens[u][handler[u].msg] = Requested(handler[u].seen)
<1>1. ASSUME WizardInv, [Next]_vars PROVE [Matches]_vars
  <2> SUFFICES ASSUME Next, NEW u \in Users, accepted'[u] # accepted[u], trusted[u]
               PROVE  screens[u][handler[u].msg] = Requested(handler[u].seen)
    BY <1>1
  <2>1. At(u, "run", "request")
    BY <1>1, AcceptedByRequest
  <2>2. OwnMessage(u) /\ DataAsRead(u) /\ SummaryShown(u)
    BY <1>1 DEF WizardInv, UserInv, TrustedInv
  <2> QED BY <2>1, <2>2 DEF OwnMessage, DataAsRead, SummaryShown, Newest, Pressed, At
<1> QED BY <1>1, WizardInvariant, PTL DEF Spec, RequestMatchesSummary
=============================================================================
