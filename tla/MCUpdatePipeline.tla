--------------------------- MODULE MCUpdatePipeline ---------------------------
(***************************************************************************)
(* Instance for TLC: alice administers the chat and is not in the table    *)
(* users; bob is an ADMIN of the table, and a list with him is in the      *)
(* chat.  Both can change the table at once, and each can lose their       *)
(* rights: alice is dismissed, bob demoted or switched off.                *)
(***************************************************************************)
EXTENDS UpdatePipeline, TLC

CONSTANTS alice, bob

Sent(u, kind, topic) ==
    [from |-> u, kind |-> kind, topic |-> topic, target |-> bob, role |-> "ADMIN"]

SwitchBob     == Sent(bob, "toggle", "ADMIN")
CycleBob      == Sent(alice, "role", "ADMIN")
RegisterAlice(u, role) == [Sent(u, "auth", "ADMIN") EXCEPT !.target = alice, !.role = role]
Request(u)    == Sent(u, "confirm", "BACKUP_REQUESTS")
SizePage(u)   == Sent(u, "sizePage", "SIZE_ASK")
Size(u)       == Sent(u, "size", "SIZE_ASK")

\* The first update and the second: a change meets a change of the other user or of
\* one's own, or is followed by a report; and requests of one user and size queries
\* of both meet each other.
Meetings ==
    <<{CycleBob, RegisterAlice(bob, "READONLY"), Request(alice), SizePage(alice)},
      {SwitchBob, RegisterAlice(alice, "OPERATOR"), Sent(alice, "userPage", "ADMIN"),
       Sent(alice, "jobs", "ADMIN"), Sent(alice, "jobDetail", "ADMIN"),
       Request(alice), Size(bob)}>>

OneAdministrator == {alice}
BobIsListed == alice :> NoUserRow @@ bob :> [role |-> "ADMIN", active |-> TRUE]
BobIsShown  == {<<bob, "ADMIN">>}
=============================================================================
