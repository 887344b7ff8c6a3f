------------------------------- MODULE RateLimit -------------------------------
(***************************************************************************)
(* The two rate-limit stores.  The bot's middleware counts updates in a    *)
(* Redis sorted set (redis_rate_limit_repository.py); a backup request is  *)
(* counted again in the table rate_limits (sql_rate_limit_repository.py).  *)
(* Both take the maximum and the window from the same configuration.       *)
(***************************************************************************)
EXTENDS Naturals, FiniteSets

CONSTANTS
    MaxRequests,   \* rate_limit_max_requests
    Window         \* rate_limit_window_seconds

ASSUME RateLimitAssumption == MaxRequests \in Nat /\ Window \in Nat

\* A key of Redis: a sorted set of [key, at, serial] entries, scored by "at".
\* The serial stands for the random part that makes members unique.  EXPIRE
\* drops the key only when every entry of it is already out of the window, so
\* it changes no count.

\* Mutant of Trim: trims by half the window.
TrimEarly(entries, now) == {e \in entries : e.at + Window > now + 1}

\* ZREMRANGEBYSCORE key 0 (now - window): what is left is the window.
Trim(entries, now) == {e \in entries : e.at + Window > now}

\* check_limit: the trimmed set has room.
HasRoom(entries, now) == Cardinality(Trim(entries, now)) < MaxRequests

\* increment: trim and ZADD in one script.
Added(entries, now, entry) == Trim(entries, now) \cup {entry}

\* The table: rows [id, start, count] of one user.  A row counts from its first
\* request for one fixed window; WHERE window_start >= now - window.
LiveRows(rows, now) == {r \in rows : r.start + Window >= now}

\* increment, in two steps: the row the SELECT found (or none), and the INSERT
\* or UPDATE that follows it.  Rows out of the window are never read again.
Counted(found, now, serial) ==
    IF found = {} THEN [id |-> serial, start |-> now, count |-> 1]
    ELSE LET row == CHOOSE r \in found : TRUE IN [row EXCEPT !.count = @ + 1]

Written(rows, row, now) == {r \in LiveRows(rows, now) : r.id # row.id} \cup {row}
=============================================================================
