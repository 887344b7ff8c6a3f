--------------------------- MODULE RedisLockManager ---------------------------
(***************************************************************************)
(* The Redis locks of app/infrastructure/queue/redis_lock_manager.py.  A   *)
(* lock is one Redis key: it is absent (NoToken) or holds the token its    *)
(* owner wrote.  Both operators are one Redis command, so they are atomic. *)
(***************************************************************************)
CONSTANT NoToken      \* the key does not exist

\* Mutant of SetNX: SET without NX, the last caller wins.
SetAlways(held, token) == token

\* acquire(): SET resource token NX EX ttl.  The caller got the lock exactly
\* when the key holds its token afterwards.
SetNX(held, token) == IF held = NoToken THEN token ELSE held

\* Mutant of ReleaseScript: DEL without comparing the token.
DeleteAlways(held, token) == NoToken

\* release(): the Lua script that deletes the key only if it holds the token.
ReleaseScript(held, token) == IF held = token THEN NoToken ELSE held
=============================================================================
