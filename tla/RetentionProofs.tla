---------------------------- MODULE RetentionProofs ----------------------------
(***************************************************************************)
(* The clean-ups never take the last backup of a type, and the pass by     *)
(* size selects what the policy asks for: theorems about Retention for     *)
(* every value of its constants.                                           *)
(***************************************************************************)
EXTENDS Retention, FiniteSetTheorems, NaturalsInduction,
        WellFoundedInduction, TLAPS

\* A set of numbers that is not empty has a least element.
LEMMA SmallestNumber ==
    ASSUME NEW S \in SUBSET Nat, S # {}
    PROVE  \E n \in S : \A m \in S : n <= m
<1>1. PICK n \in S : \A m \in S : <<m, n>> \notin OpToRel(<, Nat)
  BY NatLessThanWellFounded, WFMin
<1>2. ASSUME NEW m \in S PROVE n <= m
  <2>1. <<m, n>> \notin OpToRel(<, Nat)
    BY <1>1
  <2>2. ~(m < n)
    BY <2>1 DEF OpToRel
  <2> QED BY <2>2
<1> QED BY <1>2

\* Induction over the numbers, for a set that is given.
LEMMA Induction ==
    ASSUME NEW S, 0 \in S, \A n \in Nat : n \in S => n + 1 \in S
    PROVE  \A n \in Nat : n \in S
<1> SUFFICES ASSUME Nat \ S # {} PROVE FALSE
  OBVIOUS
<1>1. PICK n \in Nat \ S : \A m \in Nat \ S : n <= m
  BY SmallestNumber
<1>2. n # 0 /\ n - 1 \in Nat /\ ~(n <= n - 1)
  OBVIOUS
<1>3. n - 1 \in S
  BY <1>1, <1>2
<1>4. (n - 1) + 1 \in S
  BY <1>2, <1>3
<1> QED BY <1>4

-----------------------------------------------------------------------------
\* Cardinalities around one.
LEMMA TwoAreMoreThanOne ==
    ASSUME NEW S, IsFiniteSet(S), NEW a \in S, NEW b \in S, a # b
    PROVE  ~(Cardinality(S) <= 1)
<1>1. IsFiniteSet(S \ {a}) /\ Cardinality(S \ {a}) = Cardinality(S) - 1
  BY FS_RemoveElement
<1>2. Cardinality(S) \in Nat /\ Cardinality(S \ {a}) \in Nat
  BY <1>1, FS_CardinalityType
<1>3. S \ {a} # {}
  OBVIOUS
<1>4. Cardinality(S \ {a}) # 0
  BY <1>1, <1>3, FS_EmptySet
<1> QED BY <1>1, <1>2, <1>4

\* A set without two different elements counts at most one.
LEMMA AtMostOne ==
    ASSUME NEW S, \A a, b \in S : a = b
    PROVE  Cardinality(S) <= 1
<1>1. CASE S = {}
  BY <1>1, FS_EmptySet
<1>2. CASE S # {}
  <2>1. PICK a \in S : S = {a}
    BY <1>2
  <2>2. Cardinality({a}) = 1
    BY FS_Singleton
  <2> QED BY <2>1, <2>2
<1> QED BY <1>1, <1>2

-----------------------------------------------------------------------------
\* The archives that were ever written.
Written == {f \in Archives : mtime[f] > 0}

TypeOK ==
    /\ now \in Nat \ {0}
    /\ present \subseteq Written
    /\ mtime \in [Archives -> Nat]
    /\ pc \in [Jobs -> {"idle", "listByAge", "planByAge", "deleteByAge", "listBySize",
                        "planBySize", "deleteBySize", "done", "aborted"}]
    /\ listed \in [Jobs -> SUBSET Written]
    /\ plan \in [Jobs -> SUBSET Written]

\* No two archives have the same time, and none is of the future.
Times ==
    /\ \A f \in Archives : mtime[f] < now
    /\ \A f, g \in Written : mtime[f] = mtime[g] => f = g
    /\ IsFiniteSet(Written)

\* The newest of the files of its type.
NewestIn(files, f) == \A g \in files : TypeOf[g] = TypeOf[f] => mtime[g] <= mtime[f]

\* The newest archive of a known type is on disk, and no clean-up is about to
\* delete it.
NewestKept ==
    \A f \in Written :
        TypeOf[f] \in KnownTypes /\ NewestIn(Archives, f) =>
            f \in present /\ \A j \in Jobs : f \notin plan[j]

RetentionInv == TypeOK /\ Times /\ NewestKept

-----------------------------------------------------------------------------
\* The loop of _prune_by_size as a function: what it has selected of the files up
\* to each time.
Visit(files, selected, n) ==
    selected \cup {f \in files : /\ mtime[f] = n
                                /\ ~Fits(files \ selected)
                                /\ ~LastOne(f, files, selected)}

Passed(files) ==
    CHOOSE loop : loop = [n \in 0..now |->
        IF n = 0 THEN {} ELSE Visit(files, loop[n - 1], n)]

\* The selection is the value of that function at the present time, and the function
\* satisfies its recursive definition.
LEMMA PassedUnfolds ==
    ASSUME TypeOK, NEW files
    PROVE  /\ PruneBySize(files) = Passed(files)[now]
           /\ Passed(files) = [n \in 0..now |->
                  IF n = 0 THEN {} ELSE Visit(files, Passed(files)[n - 1], n)]
<1> DEFINE Def(v, n) == Visit(files, v, n)
<1>1. PruneBySize(files) = Passed(files)[now]
  BY DEF PruneBySize, Passed, Visit
<1>2. FiniteNatInductiveDefHypothesis(Passed(files), {}, Def, 0, now)
  BY DEF FiniteNatInductiveDefHypothesis, Passed
<1>3. FiniteNatInductiveDefConclusion(Passed(files), {}, Def, 0, now)
  BY <1>2, FiniteNatInductiveDef DEF TypeOK
<1> QED BY <1>1, <1>3 DEF FiniteNatInductiveDefConclusion

\* What the loop decides about f when it comes to f.
Chosen(files, f) ==
    /\ ~Fits(files \ Passed(files)[mtime[f] - 1])
    /\ ~LastOne(f, files, Passed(files)[mtime[f] - 1])

\* After the time n the loop has selected what it chose of the files up to n.
LEMMA PassedIsChosen ==
    ASSUME TypeOK, Times, NEW files \in SUBSET Written, NEW n \in 0..now
    PROVE  Passed(files)[n] = {f \in files : mtime[f] <= n /\ Chosen(files, f)}
<1> DEFINE P(k) == k \in 0..now =>
               Passed(files)[k] = {f \in files : mtime[f] <= k /\ Chosen(files, f)}
           Good == {k \in Nat : P(k)}
<1>1. 0 \in Good
  BY PassedUnfolds DEF Written, TypeOK
<1>2. ASSUME NEW k \in Nat, k \in Good PROVE k + 1 \in Good
  <2> SUFFICES ASSUME k + 1 \in 0..now PROVE P(k + 1)
    OBVIOUS
  <2>1. Passed(files)[k + 1] = Visit(files, Passed(files)[k], k + 1)
    <3>1. k + 1 # 0 /\ (k + 1) - 1 = k
      OBVIOUS
    <3> QED BY <3>1, PassedUnfolds
  <2>2. Passed(files)[k] = {f \in files : mtime[f] <= k /\ Chosen(files, f)}
    BY <1>2 DEF TypeOK
  <2>3. \A f \in files : mtime[f] \in Nat
    BY DEF TypeOK, Written
  <2>4. \A f \in files : mtime[f] = k + 1 => mtime[f] - 1 = k
    OBVIOUS
  <2>5. \A f \in files : mtime[f] <= k + 1 <=> mtime[f] <= k \/ mtime[f] = k + 1
    BY <2>3
  <2> QED BY <2>1, <2>2, <2>4, <2>5 DEF Visit, Chosen
<1> HIDE DEF Good
<1>3. \A k \in Nat : k \in Good
  BY <1>1, <1>2, Induction
<1> QED BY <1>3 DEF Good, TypeOK

\* Once the rest fits nothing more is selected.
LEMMA FitsEndsTheLoop ==
    ASSUME TypeOK, Times, NEW files \in SUBSET Written, NEW i \in 0..now,
           Fits(files \ Passed(files)[i]), NEW n \in i..now
    PROVE  Passed(files)[n] = Passed(files)[i]
<1> DEFINE Good == {k \in Nat : k \in i..now => Passed(files)[k] = Passed(files)[i]}
<1>1. 0 \in Good
  OBVIOUS
<1>2. ASSUME NEW k \in Nat, k \in Good PROVE k + 1 \in Good
  <2> SUFFICES ASSUME k + 1 \in i..now, k + 1 # i PROVE Passed(files)[k + 1] = Passed(files)[i]
    OBVIOUS
  <2>1. k \in i..now /\ k + 1 \in 0..now /\ k + 1 # 0 /\ (k + 1) - 1 = k
    BY DEF TypeOK
  <2>2. Passed(files)[k + 1] = Visit(files, Passed(files)[k], k + 1)
    BY <2>1, PassedUnfolds
  <2>3. Passed(files)[k] = Passed(files)[i]
    BY <1>2, <2>1
  <2> QED BY <2>2, <2>3 DEF Visit
<1> HIDE DEF Good
<1>3. \A k \in Nat : k \in Good
  BY <1>1, <1>2, Induction
<1> QED BY <1>3 DEF Good, TypeOK

\* A file with a newer one of its type is never taken for the last one.
LEMMA OlderIsNotLast ==
    ASSUME RetentionAssumption, TypeOK, Times, NEW files \in SUBSET Written,
           NEW f \in files, NEW g \in files, TypeOf[f] = TypeOf[g], Newer(g, f)
    PROVE  ~LastOne(f, files, Passed(files)[mtime[f] - 1])
<1> DEFINE left == OfType(files \ Passed(files)[mtime[f] - 1], TypeOf[f])
<1>1. mtime[f] \in Nat \ {0} /\ mtime[g] \in Nat /\ mtime[g] > mtime[f] /\ mtime[f] < now
  BY DEF TypeOK, Times, Written, Newer
<1>2. mtime[f] - 1 \in 0..now /\ ~(mtime[f] <= mtime[f] - 1) /\ ~(mtime[g] <= mtime[f] - 1)
  BY <1>1 DEF TypeOK
<1>3. f \in left /\ g \in left /\ f # g
  BY <1>1, <1>2, PassedIsChosen DEF OfType
<1>4. IsFiniteSet(left)
  BY FS_Subset DEF Times, OfType
<1>5. ~(Cardinality(left) <= 1)
  BY <1>3, <1>4, TwoAreMoreThanOne
<1> QED BY <1>5 DEF LastOne

\* A selected file found the rest too large, and so did every earlier one.
LEMMA ChosenFoundNoRoom ==
    ASSUME TypeOK, Times, NEW files \in SUBSET Written, NEW f \in PruneBySize(files),
           NEW i \in 0..(mtime[f] - 1)
    PROVE  ~Fits(files \ Passed(files)[i])
<1>1. now \in 0..now
  BY DEF TypeOK
<1>2. f \in files /\ mtime[f] <= now /\ f \in Passed(files)[now]
  BY <1>1, PassedUnfolds, PassedIsChosen
<1>3. mtime[f] \in Nat /\ now \in Nat
  BY <1>2 DEF TypeOK, Written
<1>4. i \in 0..now /\ now \in i..now /\ ~(mtime[f] <= i)
  BY <1>2, <1>3
<1>5. f \notin Passed(files)[i]
  BY <1>4, PassedIsChosen
<1> QED BY <1>2, <1>4, <1>5, FitsEndsTheLoop

\* The newest file of a known type stays.
LEMMA NewestNotSelected ==
    ASSUME RetentionAssumption, TypeOK, Times, NEW files \in SUBSET Written,
           NEW f \in files, TypeOf[f] \in KnownTypes, NewestIn(files, f)
    PROVE  f \notin PruneBySize(files)
<1> SUFFICES ASSUME f \in PruneBySize(files) PROVE FALSE
  OBVIOUS
<1> DEFINE i == mtime[f] - 1
           left == OfType(files \ Passed(files)[i], TypeOf[f])
<1>1. /\ now \in Nat /\ mtime[f] \in Nat \ {0} /\ i \in 0..now /\ now \in 0..now
      /\ \A g \in files : mtime[g] \in Nat \ {0} /\ mtime[g] < now
  BY DEF TypeOK, Times, Written
<1>2. Chosen(files, f)
  <2>1. f \in Passed(files)[now]
    BY PassedUnfolds
  <2> QED BY <1>1, <2>1, PassedIsChosen
<1>3. ASSUME NEW g \in left PROVE g = f
  <2>1. g \in files /\ TypeOf[g] = TypeOf[f] /\ g \notin Passed(files)[i]
    BY DEF OfType
  <2>2. CASE mtime[g] = mtime[f]
    BY <2>1, <2>2 DEF Times
  <2>3. CASE mtime[g] # mtime[f]
    <3>1. mtime[g] <= mtime[f]
      BY <2>1 DEF NewestIn
    <3>2. mtime[g] < mtime[f] /\ mtime[g] <= i /\ mtime[g] - 1 \in 0..i
      BY <1>1, <2>1, <2>3, <3>1
    <3>3. ~LastOne(g, files, Passed(files)[mtime[g] - 1])
      BY <2>1, <3>2, OlderIsNotLast DEF Newer
    <3>4. ~Fits(files \ Passed(files)[mtime[g] - 1])
      BY <3>2, ChosenFoundNoRoom
    <3>5. g \in Passed(files)[i]
      BY <1>1, <2>1, <3>2, <3>3, <3>4, PassedIsChosen DEF Chosen
    <3> QED BY <2>1, <3>5
  <2> QED BY <2>2, <2>3
<1>4. Cardinality(left) <= 1
  BY <1>3, AtMostOne
<1>5. LastOne(f, files, Passed(files)[i])
  BY <1>4 DEF LastOne
<1> QED BY <1>2, <1>5 DEF Chosen

\* Files of a type have a newest one.
LEMMA NewestExists ==
    ASSUME TypeOK, Times, NEW files \in SUBSET Written, NEW t, OfType(files, t) # {}
    PROVE  \E f \in OfType(files, t) : NewestIn(files, f)
<1> DEFINE bounds == {n \in Nat : \A f \in OfType(files, t) : mtime[f] <= n}
<1>1. now \in bounds /\ \A f \in OfType(files, t) : mtime[f] \in Nat
  BY DEF TypeOK, Times, Written, OfType
<1>2. PICK n \in bounds : \A m \in bounds : n <= m
  <2> HIDE DEF bounds
  <2>1. bounds \in SUBSET Nat
    BY DEF bounds
  <2> QED BY <1>1, <2>1, SmallestNumber
<1>3. PICK f \in OfType(files, t) : mtime[f] = n
  <2> SUFFICES ASSUME \A f \in OfType(files, t) : mtime[f] # n PROVE FALSE
    OBVIOUS
  <2>1. PICK g \in OfType(files, t) : TRUE
    OBVIOUS
  <2>2. n # 0
    BY <1>1, <2>1
  <2>3. n - 1 \in bounds
    BY <1>1, <2>2
  <2> QED BY <1>2, <2>3
<1> QED BY <1>3 DEF NewestIn, OfType

\* The selection by size is what SizeSelection describes.
LEMMA SelectionFollowsPolicy ==
    ASSUME RetentionAssumption, TypeOK, Times, NEW files \in SUBSET Written
    PROVE  SizeSelection(files, PruneBySize(files))
<1> DEFINE selected == PruneBySize(files)
           rest == files \ selected
<1>1. /\ now \in Nat /\ now \in 0..now
      /\ \A f \in files : mtime[f] \in Nat \ {0} /\ mtime[f] < now /\ mtime[f] - 1 \in 0..now
  BY DEF TypeOK, Times, Written
<1>2. selected = Passed(files)[now]
  BY PassedUnfolds
<1>3. selected = {f \in files : Chosen(files, f)}
  BY <1>1, <1>2, PassedIsChosen
<1>4. ASSUME ~Fits(rest)
      PROVE  /\ OfType(rest, "unknown") = {}
             /\ \A t \in KnownTypes : Cardinality(OfType(rest, t)) <= 1
  <2>1. ASSUME NEW f \in rest PROVE LastOne(f, files, Passed(files)[mtime[f] - 1])
    <3>1. now \in (mtime[f] - 1)..now
      BY <1>1
    <3>2. ~Fits(files \ Passed(files)[mtime[f] - 1])
      BY <1>1, <1>2, <1>4, <3>1, FitsEndsTheLoop
    <3> QED BY <1>3, <3>2 DEF Chosen
  <2>2. OfType(rest, "unknown") = {}
    BY <2>1 DEF LastOne, OfType, KnownTypes
  <2>3. ASSUME NEW t \in KnownTypes PROVE Cardinality(OfType(rest, t)) <= 1
    <3>1. ASSUME NEW f \in OfType(rest, t), NEW g \in OfType(rest, t) PROVE f = g
      <4>1. f \in rest /\ g \in rest /\ TypeOf[f] = TypeOf[g]
        BY DEF OfType
      <4>2. ~Newer(f, g) /\ ~Newer(g, f)
        BY <2>1, <4>1, OlderIsNotLast
      <4>3. mtime[f] = mtime[g]
        BY <1>1, <4>1, <4>2 DEF Newer
      <4> QED BY <4>1, <4>3 DEF Times
    <3> QED BY <3>1, AtMostOne
  <2> QED BY <2>2, <2>3
<1>5. ASSUME NEW t \in KnownTypes, OfType(files, t) # {} PROVE OfType(rest, t) # {}
  <2>1. PICK f \in OfType(files, t) : NewestIn(files, f)
    BY <1>5, NewestExists
  <2>2. f \in rest
    BY <2>1, NewestNotSelected DEF OfType
  <2> QED BY <2>1, <2>2 DEF OfType
<1>6. ASSUME NEW f \in selected, NEW g \in rest, TypeOf[f] = TypeOf[g], ~Newer(g, f)
      PROVE  FALSE
  <2>1. f \in files /\ g \in files /\ f # g
    BY <1>3
  <2>2. mtime[f] # mtime[g]
    BY <2>1 DEF Times
  <2>3. mtime[g] < mtime[f] /\ mtime[g] - 1 \in 0..(mtime[f] - 1)
    BY <1>1, <1>6, <2>1, <2>2 DEF Newer
  <2>4. ~LastOne(g, files, Passed(files)[mtime[g] - 1])
    BY <1>6, <2>1, <2>3, OlderIsNotLast DEF Newer
  <2>5. ~Fits(files \ Passed(files)[mtime[g] - 1])
    BY <2>3, ChosenFoundNoRoom
  <2> QED BY <1>3, <2>4, <2>5 DEF Chosen
<1>7. ASSUME NEW f \in selected, \A g \in selected \ {f} : Newer(f, g)
      PROVE  ~Fits(rest \cup {f})
  <2> DEFINE i == mtime[f] - 1
  <2>1. Passed(files)[i] = {g \in files : mtime[g] <= i /\ Chosen(files, g)}
    BY <1>1, <1>3, PassedIsChosen
  <2>2. \A g \in files : mtime[g] <= i <=> mtime[g] < mtime[f]
    BY <1>1, <1>3
  <2>3. Passed(files)[i] = selected \ {f}
    BY <1>1, <1>3, <1>7, <2>1, <2>2 DEF Newer
  <2>4. files \ Passed(files)[i] = rest \cup {f}
    BY <1>3, <2>3
  <2> QED BY <1>3, <2>4 DEF Chosen
<1> QED BY <1>4, <1>5, <1>6, <1>7 DEF SizeSelection

-----------------------------------------------------------------------------
\* Every selection is made of listed files, and spares the newest archive of a
\* known type.
LEMMA SelectionSparesNewest ==
    ASSUME RetentionAssumption, TypeOK, Times, NEW j \in Jobs, PlanByAge(j) \/ PlanBySize(j),
           NEW f \in Written, TypeOf[f] \in KnownTypes, NewestIn(Archives, f)
    PROVE  f \notin plan'[j]
<1>1. listed[j] \in SUBSET Written
  BY DEF TypeOK
<1>2. CASE PlanByAge(j)
  <2>1. ASSUME NEW t \in KnownTypes PROVE f \notin PruneByAge(listed[j], t)
    BY <1>1 DEF PruneByAge, OfType, Newer, NewestIn, Written, TypeOK
  <2> QED BY <1>2, <2>1 DEF PlanByAge, Select, TypeOK
<1>3. CASE PlanBySize(j)
  <2>1. plan'[j] = PruneBySize(listed[j])
    BY <1>3 DEF PlanBySize, Select, TypeOK
  <2>2. CASE f \in listed[j]
    <3>1. NewestIn(listed[j], f)
      BY <1>1 DEF NewestIn, Written
    <3> QED BY <1>1, <2>1, <2>2, <3>1, NewestNotSelected
  <2>3. CASE f \notin listed[j]
    <3>1. now \in 0..now
      BY DEF TypeOK
    <3> QED BY <1>1, <2>1, <2>3, <3>1, PassedUnfolds, PassedIsChosen
  <2> QED BY <2>2, <2>3
<1> QED BY <1>2, <1>3

\* A selection is made of files that were listed.
LEMMA SelectionIsListed ==
    ASSUME RetentionAssumption, TypeOK, Times, NEW j \in Jobs, PlanByAge(j) \/ PlanBySize(j)
    PROVE  plan' \in [Jobs -> SUBSET Written]
<1>1. listed[j] \in SUBSET Written /\ plan \in [Jobs -> SUBSET Written]
  BY DEF TypeOK
<1>2. CASE PlanByAge(j)
  <2>1. UNION {PruneByAge(listed[j], t) : t \in KnownTypes} \in SUBSET Written
    BY <1>1 DEF PruneByAge, OfType
  <2> QED BY <1>1, <1>2, <2>1 DEF PlanByAge, Select
<1>3. CASE PlanBySize(j)
  <2>1. now \in 0..now
    BY DEF TypeOK
  <2>2. PruneBySize(listed[j]) \in SUBSET Written
    BY <1>1, <2>1, PassedUnfolds, PassedIsChosen
  <2> QED BY <1>1, <1>3, <2>2 DEF PlanBySize, Select
<1> QED BY <1>2, <1>3

\* The invariant holds initially, and every step keeps it.
LEMMA RetentionInvInit ==
    ASSUME RetentionAssumption, Init
    PROVE  RetentionInv
<1>1. Written = {}
  BY DEF Init, Written
<1>2. IsFiniteSet(Written)
  BY <1>1, FS_EmptySet
<1> QED BY <1>1, <1>2 DEF Init, RetentionInv, TypeOK, Times, NewestKept, Written

\* An archive that arrives becomes the newest of its type.
LEMMA ArriveStep ==
    ASSUME RetentionAssumption, RetentionInv, NEW f \in Archives, Arrive(f)
    PROVE  RetentionInv'
<1> USE DEF RetentionInv
<1>1. /\ now' = now + 1 /\ now \in Nat \ {0}
      /\ mtime' \in [Archives -> Nat] /\ mtime'[f] = now
      /\ \A g \in Archives \ {f} : mtime'[g] = mtime[g]
      /\ mtime[f] = 0 /\ f \notin Written
  BY DEF Arrive, TypeOK, Written
<1>2. Written' = Written \cup {f}
  BY <1>1 DEF Written
<1>3. TypeOK'
  BY <1>1, <1>2 DEF Arrive, TypeOK
<1>4. Times'
  <2>1. IsFiniteSet(Written')
    BY <1>2, FS_AddElement DEF Times
  <2>2. \A g \in Archives : mtime'[g] < now'
    BY <1>1 DEF Times, TypeOK
  <2>3. \A g, h \in Written' : mtime'[g] = mtime'[h] => g = h
    <3>1. \A g \in Written : mtime'[g] = mtime[g] /\ mtime[g] # now
      BY <1>1 DEF Times, TypeOK, Written
    <3> QED BY <1>1, <1>2, <3>1 DEF Times
  <2> QED BY <2>1, <2>2, <2>3 DEF Times
<1>5. NewestKept'
  <2> SUFFICES ASSUME NEW g \in Written', TypeOf[g] \in KnownTypes, NewestIn(Archives, g)'
               PROVE  g \in present' /\ \A j \in Jobs : g \notin plan'[j]
    BY DEF NewestKept
  <2>1. CASE g = f
    BY <1>1, <2>1 DEF Arrive, TypeOK
  <2>2. CASE g # f
    <3>1. g \in Written /\ mtime'[g] = mtime[g]
      <4>1. g \in Written
        BY <1>2, <2>2
      <4> QED BY <1>1, <2>2, <4>1 DEF Written
    <3>2. NewestIn(Archives, g)
      <4>1. ASSUME NEW h \in Archives, TypeOf[h] = TypeOf[g] PROVE mtime[h] <= mtime[g]
        <5>1. mtime'[h] <= mtime'[g]
          BY <4>1 DEF NewestIn
        <5>2. CASE h = f
          BY <1>1, <3>1, <5>2 DEF Written, TypeOK
        <5> QED BY <1>1, <3>1, <5>1, <5>2
      <4> QED BY <4>1 DEF NewestIn
    <3> QED BY <3>1, <3>2 DEF NewestKept, Arrive
  <2> QED BY <2>1, <2>2
<1> QED BY <1>3, <1>4, <1>5

\* Every step keeps the invariant.
LEMMA RetentionInvStep ==
    ASSUME RetentionAssumption, RetentionInv, [Next]_vars
    PROVE  RetentionInv'
<1> USE DEF RetentionInv
<1>1. CASE UNCHANGED vars
  BY <1>1 DEF vars, TypeOK, Times, NewestKept, NewestIn, Written
<1>2. CASE Tick
  <2>1. now' \in Nat \ {0} /\ now < now' /\ now \in Nat
    BY <1>2 DEF Tick, TypeOK
  <2>2. TypeOK'
    BY <1>2, <2>1 DEF Tick, TypeOK, Written
  <2>3. Times'
    BY <1>2, <2>1 DEF Tick, Times, Written, TypeOK
  <2> QED BY <1>2, <2>2, <2>3 DEF Tick, NewestKept, NewestIn, Written
<1>3. CASE \E f \in Archives : Arrive(f)
  BY <1>3, ArriveStep
<1>4. ASSUME NEW j \in Jobs, Finish(j) PROVE RetentionInv'
  BY <1>4 DEF Finish, disk, TypeOK, Times, NewestKept, NewestIn, Written
<1>5. ASSUME NEW j \in Jobs, CleanUp(j) PROVE RetentionInv'
  <2>1. Times' /\ Written' = Written
    BY <1>5 DEF CleanUp, ListByAge, ListBySize, List, PlanByAge, PlanBySize, Select, Vanished,
                Delete, EndPass, disk, Times, Written
  <2>2. CASE ListByAge(j) \/ ListBySize(j)
    BY <2>1, <2>2 DEF ListByAge, ListBySize, List, disk, TypeOK, NewestKept, NewestIn
  <2>3. CASE PlanByAge(j) \/ PlanBySize(j)
    <3>1. TypeOK'
      <4>1. plan' \in [Jobs -> SUBSET Written]
        BY <2>3, SelectionIsListed
      <4> QED BY <2>1, <2>3, <4>1 DEF PlanByAge, PlanBySize, Select, disk, TypeOK
    <3>2. NewestKept'
      <4>1. \A f \in Written : TypeOf[f] \in KnownTypes /\ NewestIn(Archives, f) => f \notin plan'[j]
        BY <2>3, SelectionSparesNewest
      <4>2. \A k \in Jobs \ {j} : plan'[k] = plan[k]
        BY <2>3 DEF PlanByAge, PlanBySize, Select, TypeOK
      <4>3. \A f : NewestIn(Archives, f)' = NewestIn(Archives, f)
        BY <2>3 DEF PlanByAge, PlanBySize, Select, disk, NewestIn
      <4>4. present' = present
        BY <2>3 DEF PlanByAge, PlanBySize, Select, disk
      <4> QED BY <2>1, <4>1, <4>2, <4>3, <4>4 DEF NewestKept
    <3> QED BY <2>1, <3>1, <3>2
  <2>4. CASE Vanished(j)
    BY <2>1, <2>4 DEF Vanished, disk, TypeOK, NewestKept, NewestIn
  <2>5. CASE Delete(j)
    <3>1. PICK f \in plan[j] :
             /\ plan' = [plan EXCEPT ![j] = @ \ {f}]
             /\ present' = present \ {f} \/ present' = present
      BY <2>5 DEF Delete
    <3>2. UNCHANGED <<now, mtime, pc, listed>>
      BY <2>5 DEF Delete
    <3>3. TypeOK'
      BY <2>1, <3>1, <3>2 DEF TypeOK
    <3>4. NewestKept'
      BY <2>1, <3>1, <3>2 DEF TypeOK, NewestKept, NewestIn
    <3> QED BY <2>1, <3>3, <3>4
  <2>6. CASE EndPass(j)
    BY <2>1, <2>6 DEF EndPass, disk, TypeOK, NewestKept, NewestIn
  <2> QED BY <1>5, <2>2, <2>3, <2>4, <2>5, <2>6 DEF CleanUp
<1> QED BY <1>1, <1>2, <1>3, <1>4, <1>5 DEF Next

\* The invariant of every state of a retention run: the types, the clock, and the
\* newest archive of each known type, which no clean-up is about to delete
\* (_prune_by_age, _prune_by_size).
THEOREM RetentionInvariant == Spec => []RetentionInv
<1>1. Init => RetentionInv
  BY RetentionAssumption, RetentionInvInit
<1>2. RetentionInv /\ [Next]_vars => RetentionInv'
  BY RetentionAssumption, RetentionInvStep
<1> QED BY <1>1, <1>2, PTL DEF Spec

\* However many clean-ups run at once, each on a listing of its own that others
\* are deleting from, a type that ever had an archive keeps one
\* (cleanup_old_backups, enforce_max_storage).
THEOREM EveryTypeSurvives == Spec => []OneOfEachTypeSurvives
<1>1. RetentionInv => OneOfEachTypeSurvives
  <2> SUFFICES ASSUME RetentionInv, NEW t \in KnownTypes,
                      \E f \in OfType(Archives, t) : mtime[f] > 0
               PROVE  OfType(present, t) # {}
    BY DEF OneOfEachTypeSurvives
  <2>1. OfType(Written, t) # {}
    BY DEF OfType, Written
  <2>2. PICK f \in OfType(Written, t) : NewestIn(Written, f)
    BY <2>1, NewestExists DEF RetentionInv
  <2>3. f \in Written /\ TypeOf[f] = t
    BY DEF OfType
  <2>4. NewestIn(Archives, f)
    BY <2>2, <2>3 DEF NewestIn, Written, RetentionInv, TypeOK
  <2>5. f \in present
    BY <2>3, <2>4 DEF NewestKept, RetentionInv
  <2> QED BY <2>3, <2>5 DEF OfType
<1> QED BY <1>1, RetentionInvariant, PTL

\* What a pass by size selects is what the policy asks for: enough, in the order
\* of age, and no more than needed (enforce_max_storage, _prune_by_size).
THEOREM SizePassSelectsByPolicy == Spec => SizePassFollowsPolicy
<1> DEFINE Step == \A j \in Jobs : pc[j] = "planBySize" /\ pc'[j] = "deleteBySize"
                       => SizeSelection(listed[j], plan'[j])
<1>1. ASSUME RetentionInv, [Next]_vars PROVE [Step]_vars
  <2> SUFFICES ASSUME Next, NEW j \in Jobs, pc[j] = "planBySize", pc'[j] = "deleteBySize"
               PROVE  SizeSelection(listed[j], plan'[j])
    BY <1>1
  <2>1. PlanBySize(j)
    <3>1. PICK k \in Jobs : Finish(k) \/ CleanUp(k)
      BY DEF Next, Tick, Arrive
    <3>2. k = j
      BY <1>1, <3>1 DEF Finish, CleanUp, ListByAge, ListBySize, List, PlanByAge, PlanBySize,
                        Select, Vanished, Delete, EndPass, RetentionInv, TypeOK
    <3> QED BY <1>1, <3>1, <3>2 DEF Finish, CleanUp, ListByAge, ListBySize, List, PlanByAge,
                        Select, Vanished, Delete, EndPass, RetentionInv, TypeOK
  <2>2. plan'[j] = PruneBySize(listed[j]) /\ listed[j] \in SUBSET Written
    BY <1>1, <2>1 DEF PlanBySize, Select, RetentionInv, TypeOK
  <2> QED BY <1>1, <2>2, RetentionAssumption, SelectionFollowsPolicy DEF RetentionInv
<1> QED BY <1>1, RetentionInvariant, PTL DEF Spec, SizePassFollowsPolicy
=============================================================================
