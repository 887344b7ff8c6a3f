------------------------------ MODULE Permissions ------------------------------
(***************************************************************************)
(* Roles and what they may do (app/domain/entities/user.py,                *)
(* PermissionService), the command of an update (extract_command) and the  *)
(* ring of roles of the user list (users_keyboards.py).                    *)
(***************************************************************************)
EXTENDS Naturals, FiniteSets

Roles  == {"ADMIN", "DBA", "OPERATOR", "READONLY"}
Topics == {"BACKUP_REQUESTS", "SIZE_ASK", "EXECUTION_ERRORS", "ADMIN"}

\* A row of the table users, and the principal built from it.
UserRow   == [role : Roles, active : BOOLEAN]
NoUserRow == [role |-> "NONE", active |-> FALSE]

\* What Telegram's administrators act as.
Administrator == [role |-> "ADMIN", active |-> TRUE]

IsAdmin(user) == user.role = "ADMIN"
Registered(user) == user # NoUserRow

CommandRoles ==
    [BACKUP       |-> {"ADMIN", "DBA", "OPERATOR"},
     SIZE_QUERY   |-> Roles,
     CANCEL_JOB   |-> {"ADMIN", "DBA", "OPERATOR"},
     LIST_JOBS    |-> Roles,
     MANAGE_USERS |-> {"ADMIN"}]

TopicRoles ==
    [BACKUP_REQUESTS  |-> {"ADMIN", "DBA", "OPERATOR"},
     SIZE_ASK         |-> Roles,
     EXECUTION_ERRORS |-> {"ADMIN", "DBA"},
     ADMIN            |-> {"ADMIN"}]

Commands == DOMAIN CommandRoles

\* User.can_execute: active, and allowed by both tables.
CanExecute(user, command, topic) ==
    /\ user.active
    /\ user.role \in CommandRoles[command] \cap TopicRoles[topic]

\* The kinds of updates the bot distinguishes here: messages with a command
\* (/backup, /cancel, /users, /auth, /jobs, /stats or /health, /size) and presses
\* of a button (a page or an entry of a list, the two columns of the user list,
\* the confirmation of a backup).
Kinds == {"backup", "cancel", "users", "auth", "jobs", "stats", "size",
          "userPage", "toggle", "role", "jobDetail", "sizePage", "confirm"}

\* extract_command: the command that the first word of a message maps to, and the
\* prefix "size" of the size buttons.  Everything else has no command.
CommandOf(kind) ==
    CASE kind = "backup"               -> "BACKUP"
      [] kind = "cancel"               -> "CANCEL_JOB"
      [] kind = "users"                -> "MANAGE_USERS"
      [] kind = "jobs"                 -> "LIST_JOBS"
      [] kind \in {"size", "sizePage"} -> "SIZE_QUERY"
      [] OTHER                         -> "GENERIC"

\* The rate limiter counts per user and command; GENERIC stands for no command.
Actions == Commands \cup {"GENERIC"}

\* next_role: the ring ADMIN, DBA, OPERATOR, READONLY.
NextRole ==
    [ADMIN |-> "DBA", DBA |-> "OPERATOR", OPERATOR |-> "READONLY", READONLY |-> "ADMIN"]
=============================================================================
