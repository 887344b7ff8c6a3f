-------------------------- MODULE SlidingWindowProofs --------------------------
(***************************************************************************)
(* That at most MaxRequests of a key are admitted in any window, from the  *)
(* guard of Admit, which looks only at the window that ends now.           *)
(***************************************************************************)
EXTENDS SlidingWindow, FiniteSetTheorems, TLAPS

Parameters == MaxRequests \in Nat /\ Window \in Nat

WindowInv ==
    /\ now \in Nat
    /\ admitted \in SUBSET Admission /\ IsFiniteSet(admitted)
    /\ \A e \in admitted : e.at <= now
    /\ LimitKept

\* A window of a finite set of admissions has a size.
LEMMA WindowIsFinite ==
    ASSUME IsFiniteSet(admitted), NEW k, NEW x
    PROVE  IsFiniteSet(InWindow(k, x)) /\ Cardinality(InWindow(k, x)) \in Nat
BY FS_Subset, FS_CardinalityType DEF InWindow

\* One more element is one more at most.
LEMMA AddedSize ==
    ASSUME NEW S, IsFiniteSet(S), NEW x
    PROVE  /\ IsFiniteSet(S \cup {x})
           /\ Cardinality(S \cup {x}) \in Nat
           /\ Cardinality(S \cup {x}) <= Cardinality(S) + 1
<1>1. IsFiniteSet(S \cup {x}) BY FS_AddElement
<1>2. Cardinality(S \cup {x}) = Cardinality(S) \/ Cardinality(S \cup {x}) = Cardinality(S) + 1
  BY FS_AddElement
<1>3. Cardinality(S) \in Nat /\ Cardinality(S \cup {x}) \in Nat BY <1>1, FS_CardinalityType
<1> QED BY <1>1, <1>2, <1>3

\* An admission adds to the present window alone, which had room.
LEMMA AdmitKeepsLimit ==
    ASSUME Parameters, WindowInv, Admit
    PROVE  WindowInv'
<1>1. PICK k \in Keys, n \in Serials :
         /\ Cardinality(InWindow(k, now)) < MaxRequests
         /\ admitted' = admitted \cup {[key |-> k, at |-> now, serial |-> n]}
  BY DEF Admit
<1> DEFINE new == [key |-> k, at |-> now, serial |-> n]
<1>2. now' = now BY DEF Admit
<1>3. new \in Admission BY DEF WindowInv, Admission
<1>4. admitted' \in SUBSET Admission /\ IsFiniteSet(admitted')
  BY <1>1, <1>3, FS_AddElement DEF WindowInv
<1>5. \A e \in admitted' : e.at <= now' BY <1>1, <1>2 DEF WindowInv
<1>6. ASSUME NEW q \in Keys, NEW x \in 0..now'
      PROVE  Cardinality(InWindow(q, x)') <= MaxRequests
  <2>1. Cardinality(InWindow(q, x)) <= MaxRequests BY <1>2, <1>6 DEF WindowInv, LimitKept
  <2>2. CASE q = k /\ x = now
    <3>1. InWindow(q, x)' \subseteq InWindow(k, now) \cup {new}
      BY <1>1, <2>2 DEF InWindow
    <3>2. /\ IsFiniteSet(InWindow(k, now))
          /\ Cardinality(InWindow(k, now)) \in Nat
      BY WindowIsFinite DEF WindowInv
    <3>3. /\ IsFiniteSet(InWindow(k, now) \cup {new})
          /\ Cardinality(InWindow(k, now) \cup {new}) \in Nat
          /\ Cardinality(InWindow(k, now) \cup {new}) <= Cardinality(InWindow(k, now)) + 1
      BY <3>2, AddedSize
    <3>4. /\ Cardinality(InWindow(q, x)') <= Cardinality(InWindow(k, now) \cup {new})
          /\ Cardinality(InWindow(q, x)') \in Nat
      BY <3>1, <3>3, FS_Subset, FS_CardinalityType
    <3> QED BY <1>1, <3>2, <3>3, <3>4 DEF Parameters
  <2>3. CASE ~(q = k /\ x = now)
    <3>1. InWindow(q, x)' = InWindow(q, x)
      BY <1>1, <1>2, <1>6, <2>3 DEF InWindow, WindowInv
    <3> QED BY <2>1, <3>1
  <2> QED BY <2>2, <2>3
<1> QED BY <1>2, <1>4, <1>5, <1>6 DEF WindowInv, LimitKept

\* When time passes, the new present window is part of the one before.
LEMMA TickKeepsLimit ==
    ASSUME Parameters, WindowInv, Tick
    PROVE  WindowInv'
<1>1. now' = now + 1 /\ admitted' = admitted BY DEF Tick
<1>2. ASSUME NEW q \in Keys, NEW x \in 0..now'
      PROVE  Cardinality(InWindow(q, x)') <= MaxRequests
  <2>1. InWindow(q, x)' = InWindow(q, x) BY <1>1 DEF InWindow
  <2>2. CASE x \in 0..now BY <2>1, <2>2 DEF WindowInv, LimitKept
  <2>3. CASE x = now + 1
    <3>1. InWindow(q, x) \subseteq InWindow(q, now)
      BY <2>3 DEF InWindow, WindowInv, Admission, Parameters
    <3>2. /\ Cardinality(InWindow(q, now)) \in Nat
          /\ Cardinality(InWindow(q, x)) \in Nat
          /\ IsFiniteSet(InWindow(q, now))
      BY WindowIsFinite DEF WindowInv
    <3>3. Cardinality(InWindow(q, x)) <= Cardinality(InWindow(q, now))
      BY <3>1, <3>2, FS_Subset
    <3>4. Cardinality(InWindow(q, now)) <= MaxRequests BY DEF WindowInv, LimitKept
    <3> QED BY <2>1, <3>2, <3>3, <3>4 DEF Parameters
  <2> QED BY <1>1, <1>2, <2>2, <2>3 DEF WindowInv
<1>3. \A e \in admitted' : e.at <= now'
  BY <1>1 DEF WindowInv, Admission
<1>4. now' \in Nat BY <1>1 DEF WindowInv
<1> QED BY <1>1, <1>2, <1>3, <1>4 DEF WindowInv, LimitKept

\* What the sliding window promises: every period of that length, wherever it
\* ends, has at most MaxRequests admissions of a key (check_limit and increment of
\* RedisRateLimitRepository, by KeepsSlidingWindow).
THEOREM SlidingWindowLimits ==
    ASSUME Parameters
    PROVE  Spec => []LimitKept
<1>1. Init => WindowInv
  <2> SUFFICES ASSUME Init PROVE WindowInv OBVIOUS
  <2>1. \A k \in Keys, x \in 0..0 : InWindow(k, x) = {} BY DEF Init, InWindow
  <2> QED BY <2>1, FS_EmptySet DEF Init, WindowInv, LimitKept, Parameters
<1>2. WindowInv /\ [Next]_vars => WindowInv'
  <2> SUFFICES ASSUME WindowInv, [Next]_vars PROVE WindowInv' OBVIOUS
  <2>1. CASE Admit BY <2>1, AdmitKeepsLimit
  <2>2. CASE Tick BY <2>2, TickKeepsLimit
  <2>3. CASE UNCHANGED vars
    BY <2>3 DEF vars, WindowInv, LimitKept, InWindow
  <2> QED BY <2>1, <2>2, <2>3 DEF Next
<1>3. WindowInv => LimitKept BY DEF WindowInv
<1> QED BY <1>1, <1>2, <1>3, PTL DEF Spec
=============================================================================
