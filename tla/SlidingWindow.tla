----------------------------- MODULE SlidingWindow -----------------------------
(***************************************************************************)
(* What the rate limit promises, whatever counts the requests: of each key *)
(* (a user and an action) at most MaxRequests are admitted in any period   *)
(* of Window time units.  The admissions are kept for ever; a request that *)
(* is refused leaves no trace.                                             *)
(***************************************************************************)
EXTENDS Naturals, FiniteSets

CONSTANTS Keys, Serials, MaxRequests, Window

VARIABLES now, admitted   \* the clock; a set of [key, at, serial] records

vars == <<now, admitted>>

Admission == [key : Keys, at : Nat, serial : Serials]

\* The admissions of key k in the period of length Window that ends with x.
InWindow(k, x) == {e \in admitted : e.key = k /\ e.at <= x /\ e.at + Window > x}

Init == now = 0 /\ admitted = {}

Admit ==
    /\ \E k \in Keys, n \in Serials :
          /\ Cardinality(InWindow(k, now)) < MaxRequests
          /\ admitted' = admitted \cup {[key |-> k, at |-> now, serial |-> n]}
    /\ UNCHANGED now

Tick == now' = now + 1 /\ UNCHANGED admitted

Next == Admit \/ Tick

Spec == Init /\ [][Next]_vars
-----------------------------------------------------------------------------
\* No period of that length has more admissions of a key than the limit, the
\* periods that began in the past included.
LimitKept == \A k \in Keys : \A x \in 0..now : Cardinality(InWindow(k, x)) <= MaxRequests
=============================================================================
