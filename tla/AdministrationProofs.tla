------------------------- MODULE AdministrationProofs -------------------------
(***************************************************************************)
(* Proofs about the department tree and the dictionaries.                  *)
(*                                                                         *)
(* Their recursive queries are functions on the levels of a tree.  What    *)
(* such a function gives at every level is proved by induction; the        *)
(* induction is over sets of naturals (a set of naturals that is not empty *)
(* has a least element), so that no step needs a schema.                   *)
(***************************************************************************)
EXTENDS Departments, Dictionaries, Integers, FiniteSetTheorems, SequenceTheorems,
        WellFoundedInduction, TLAPS

-----------------------------------------------------------------------------
(* Induction and recursion up to a bound.                                  *)

Smaller == {ss \in Nat \X Nat : ss[1] < ss[2]}

\* The order of the naturals is well founded.
LEMMA SmallerWellFounded == IsWellFoundedOn(Smaller, Nat)
  BY NatLessThanWellFounded DEF OpToRel, Smaller

\* A set that holds 0 and, with every number under the bound, the next one,
\* holds all numbers up to the bound.
LEMMA UpTo ==
    ASSUME NEW n \in Nat, NEW G, 0 \in G, \A k \in 0..(n - 1) : k \in G => k + 1 \in G
    PROVE  \A k \in 0..n : k \in G
<1>1. SUFFICES ASSUME {k \in 0..n : k \notin G} # {}
               PROVE  FALSE
  OBVIOUS
<1>2. {k \in 0..n : k \notin G} \subseteq Nat
  OBVIOUS
<1>3. PICK m \in {k \in 0..n : k \notin G} : \A j \in {k \in 0..n : k \notin G} : <<j, m>> \notin Smaller
  BY <1>1, <1>2, SmallerWellFounded, WFMin
<1>4. m \in 0..n /\ m \notin G /\ m # 0
  BY <1>3
<1>5. m - 1 \in 0..(n - 1) /\ m - 1 < m /\ m - 1 \in 0..n
  BY <1>4
<1>6. m - 1 \in G
  <2>1. m - 1 \in Nat /\ m \in Nat
    BY <1>4, <1>5
  <2>2. <<m - 1, m>> \in Smaller
    BY <1>5, <2>1 DEF Smaller
  <2>3. QED
    BY <1>3, <1>5, <2>2
<1>7. (m - 1) + 1 \in G
  BY <1>5, <1>6
<1>8. (m - 1) + 1 = m
  BY <1>4
<1>9. QED
  BY <1>4, <1>7, <1>8

\* The function that starts with x and goes on with F.
IsIterate(g, D, F, x, n) ==
    /\ g \in [0..n -> D]
    /\ g[0] = x
    /\ \A k \in 1..n : g[k] = F[g[k - 1]]

\* There is one for every bound.
LEMMA Iterates ==
    ASSUME NEW D, NEW F \in [D -> D], NEW x \in D, NEW n \in Nat
    PROVE  \E g : IsIterate(g, D, F, x, n)
<1> DEFINE G == {k \in Nat : \E g : IsIterate(g, D, F, x, k)}
<1>1. 0 \in G
  <2>1. IsIterate([k \in 0..0 |-> x], D, F, x, 0)
    BY DEF IsIterate
  <2>2. QED
    BY <2>1
<1>2. ASSUME NEW k \in 0..(n - 1), k \in G
      PROVE  k + 1 \in G
  <2>1. PICK g : IsIterate(g, D, F, x, k)
    BY <1>2
  <2>2. k \in Nat
    OBVIOUS
  <2> DEFINE h == [j \in 0..(k + 1) |-> IF j = k + 1 THEN F[g[k]] ELSE g[j]]
  <2>3. g[k] \in D
    BY <2>1, <2>2 DEF IsIterate
  <2>4. h \in [0..(k + 1) -> D]
    BY <2>1, <2>2, <2>3 DEF IsIterate
  <2>5. h[0] = x
    BY <2>1, <2>2 DEF IsIterate
  <2>6. ASSUME NEW j \in 1..(k + 1)
        PROVE  h[j] = F[h[j - 1]]
    <3>1. CASE j = k + 1
      BY <2>2, <3>1
    <3>2. CASE j # k + 1
      <4>1. j \in 1..k /\ j - 1 \in 0..k
        BY <2>2, <3>2
      <4>2. h[j] = g[j] /\ h[j - 1] = g[j - 1]
        BY <2>2, <4>1
      <4>3. QED
        BY <2>1, <4>1, <4>2 DEF IsIterate
    <3>3. QED
      BY <3>1, <3>2
  <2>7. IsIterate(h, D, F, x, k + 1)
    BY <2>4, <2>5, <2>6 DEF IsIterate
  <2>8. QED
    BY <2>2, <2>7
<1>3. \A k \in 0..n : k \in G
  <2> HIDE DEF G
  <2>1. QED
    BY <1>1, <1>2, UpTo
<1>4. n \in G
  BY <1>3
<1>5. QED
  BY <1>4

-----------------------------------------------------------------------------
(* The department tree.                                                    *)

DeptRows == DOMAIN depts
DeptCount == Cardinality(Depts)

LEMMA DeptCountIsNat == DeptCount \in Nat
  BY DeptConstants, FS_CardinalityType DEF DeptCount

\* Going up from p: one parent after the other.
GoesUp(g, p) ==
    /\ g \in [0..DeptCount -> Depts \cup {NoDept}]
    /\ g[0] = p
    /\ \A k \in 1..DeptCount : g[k] = ParentOf(g[k - 1])

\* The query for ancestors answers what one meets going up.
LEMMA AncestorsMet ==
    ASSUME DeptTypeOK, NEW p \in Depts \cup {NoDept}
    PROVE  \E g : GoesUp(g, p) /\ AtAndAbove(p) = {g[k] : k \in 0..DeptCount} \ {NoDept}
<1> DEFINE D == Depts \cup {NoDept}
           F == [x \in D |-> ParentOf(x)]
           Step(up) == [k \in 0..DeptCount |-> IF k = 0 THEN p ELSE ParentOf(up[k - 1])]
           up == CHOOSE h : h = Step(h)
<1>1. F \in [D -> D]
  BY DEF DeptTypeOK, ParentOf
<1>2. PICK g : IsIterate(g, D, F, p, DeptCount)
  BY <1>1, DeptCountIsNat, Iterates
<1>3. GoesUp(g, p)
  <2>1. ASSUME NEW k \in 1..DeptCount
        PROVE  g[k] = ParentOf(g[k - 1])
    <3>1. k - 1 \in 0..DeptCount
      BY DeptCountIsNat
    <3>2. g[k] = F[g[k - 1]]
      BY <1>2 DEF IsIterate
    <3>3. g[k - 1] \in D
      BY <1>2, <3>1 DEF IsIterate
    <3>4. QED
      BY <3>2, <3>3
  <2>2. QED
    BY <1>2, <2>1 DEF IsIterate, GoesUp
<1>4. g = Step(g)
  <2>1. ASSUME NEW k \in 0..DeptCount
        PROVE  g[k] = IF k = 0 THEN p ELSE ParentOf(g[k - 1])
    <3>1. CASE k = 0
      BY <1>3, <3>1 DEF GoesUp
    <3>2. CASE k # 0
      <4>1. k \in 1..DeptCount
        BY <3>2, DeptCountIsNat
      <4>2. QED
        BY <1>3, <3>2, <4>1 DEF GoesUp
    <3>3. QED
      BY <3>1, <3>2
  <2>2. QED
    BY <1>3, <2>1 DEF GoesUp
<1>5. up = Step(up)
  <2> HIDE DEF Step
  <2>1. QED
    BY <1>4
<1>6. GoesUp(up, p)
  <2> HIDE DEF up
  <2>1. up = [k \in 0..DeptCount |-> IF k = 0 THEN p ELSE ParentOf(up[k - 1])]
    BY <1>5
  <2>2. \A x : ParentOf(x) \in D
    BY DEF DeptTypeOK, ParentOf
  <2>3. up \in [0..DeptCount -> D]
    <3> HIDE DEF D
    <3>1. \A k \in 0..DeptCount : (IF k = 0 THEN p ELSE ParentOf(up[k - 1])) \in D
      BY <2>2 DEF D
    <3>2. QED
      BY <2>1, <3>1
  <2>4. up[0] = p
    BY <2>1, DeptCountIsNat
  <2>5. ASSUME NEW k \in 1..DeptCount
        PROVE  up[k] = ParentOf(up[k - 1])
    <3>1. k \in 0..DeptCount /\ k # 0
      BY DeptCountIsNat
    <3>2. QED
      BY <2>1, <3>1
  <2>6. QED
    BY <2>3, <2>4, <2>5 DEF GoesUp
<1>7. AtAndAbove(p) = {up[k] : k \in 0..DeptCount} \ {NoDept}
  BY DEF AtAndAbove, DeptCount
<1>8. QED
  BY <1>6, <1>7

\* Nothing is above what has no row.
LEMMA NothingAboveNothing == DeptTypeOK => ParentOf(NoDept) = NoDept
  BY DeptConstants DEF ParentOf, DeptTypeOK

\* As many steps as there are departments meet everything above: whatever is
\* above something that was met has been met.
LEMMA EverythingAboveMet ==
    ASSUME DeptTypeOK, NEW p \in Depts \cup {NoDept}
    PROVE  /\ \A x \in AtAndAbove(p) : ParentOf(x) \in AtAndAbove(p) \cup {NoDept}
           /\ p # NoDept => p \in AtAndAbove(p)
           /\ AtAndAbove(p) \subseteq Depts
<1>1. PICK g : GoesUp(g, p) /\ AtAndAbove(p) = {g[k] : k \in 0..DeptCount} \ {NoDept}
  BY AncestorsMet
<1> DEFINE Met(k) == {g[j] : j \in 0..k}
           Closed(k) == \A x \in Met(k) : ParentOf(x) \in Met(k) \cup {NoDept}
           Fresh(k) == NoDept \notin Met(k) /\ IsFiniteSet(Met(k)) /\ Cardinality(Met(k)) = k + 1
           G == {k \in 0..DeptCount : Closed(k) \/ Fresh(k)}
<1>2. \A k \in 0..(DeptCount - 1) : ParentOf(g[k]) = g[k + 1]
  <2> SUFFICES ASSUME NEW k \in 0..(DeptCount - 1)
               PROVE  ParentOf(g[k]) = g[k + 1]
    OBVIOUS
  <2>1. k + 1 \in 1..DeptCount /\ (k + 1) - 1 = k
    BY DeptCountIsNat
  <2>2. QED
    BY <1>1, <2>1 DEF GoesUp
<1>3. 0 \in G
  <2>1. Met(0) = {p}
    BY <1>1, DeptCountIsNat DEF GoesUp
  <2>2. CASE p = NoDept
    <3>1. Closed(0)
      <4> HIDE DEF Met
      <4>1. QED
        BY <2>1, <2>2, NothingAboveNothing
    <3>2. QED
      BY <3>1, DeptCountIsNat
  <2>3. CASE p # NoDept
    <3>1. IsFiniteSet({p}) /\ Cardinality({p}) = 1
      BY FS_Singleton
    <3>2. Fresh(0)
      <4> HIDE DEF Met
      <4>1. QED
        BY <2>1, <2>3, <3>1
    <3>3. QED
      BY <3>2, DeptCountIsNat
  <2>4. QED
    BY <2>2, <2>3
<1>4. ASSUME NEW k \in 0..(DeptCount - 1), k \in G
      PROVE  k + 1 \in G
  <2>1. k \in Nat /\ k + 1 \in 0..DeptCount /\ 0..(k + 1) = (0..k) \cup {k + 1}
    BY DeptCountIsNat
  <2>2. Met(k + 1) = Met(k) \cup {g[k + 1]}
    BY <2>1
  <2>3. \A x \in Met(k) : ParentOf(x) \in Met(k) \cup {g[k + 1]}
    <3> SUFFICES ASSUME NEW j \in 0..k
                 PROVE  ParentOf(g[j]) \in Met(k) \cup {g[k + 1]}
      OBVIOUS
    <3>1. j \in 0..(DeptCount - 1)
      BY <2>1, DeptCountIsNat
    <3>2. ParentOf(g[j]) = g[j + 1]
      BY <1>2, <3>1
    <3>3. j + 1 \in 0..(k + 1)
      BY <2>1
    <3>4. QED
      BY <2>2, <3>2, <3>3
  <2>4. g[k + 1] \in Met(k) \cup {NoDept} => Closed(k + 1)
    <3> HIDE DEF Met
    <3>1. QED
      BY <2>2, <2>3, NothingAboveNothing
  <2>5. Closed(k) => g[k + 1] \in Met(k) \cup {NoDept}
    <3>1. k \in 0..k /\ ParentOf(g[k]) = g[k + 1]
      BY <1>2, <2>1
    <3>2. g[k] \in Met(k)
      BY <3>1
    <3>3. QED
      BY <3>1, <3>2
  <2>6. ASSUME Fresh(k), g[k + 1] \notin Met(k) \cup {NoDept}
        PROVE  Fresh(k + 1)
    <3> HIDE DEF Met
    <3>1. IsFiniteSet(Met(k) \cup {g[k + 1]}) /\ Cardinality(Met(k) \cup {g[k + 1]}) = Cardinality(Met(k)) + 1
      BY <2>6, FS_AddElement
    <3>2. Cardinality(Met(k + 1)) = (k + 1) + 1
      BY <2>2, <2>6, <3>1
    <3>3. QED
      BY <2>2, <2>6, <3>1, <3>2
  <2>7. Closed(k) \/ Fresh(k)
    BY <1>4
  <2>8. Closed(k + 1) \/ Fresh(k + 1)
    <3> HIDE DEF Closed, Fresh, Met
    <3>1. QED
      BY <2>4, <2>5, <2>6, <2>7
  <2>9. QED
    <3> HIDE DEF Closed, Fresh
    <3>1. QED
      BY <2>1, <2>8
<1>5. DeptCount \in G
  <2>1. \A k \in 0..DeptCount : k \in G
    <3> HIDE DEF G
    <3>1. QED
      BY <1>3, <1>4, DeptCountIsNat, UpTo
  <2>2. DeptCount \in 0..DeptCount
    BY DeptCountIsNat
  <2>3. QED
    <3> HIDE DEF G
    <3>1. QED
      BY <2>1, <2>2
<1>6. ~Fresh(DeptCount)
  <2>1. SUFFICES ASSUME Fresh(DeptCount)
                 PROVE  FALSE
    OBVIOUS
  <2>2. Met(DeptCount) \subseteq Depts
    <3>1. Met(DeptCount) \subseteq Depts \cup {NoDept}
      BY <1>1 DEF GoesUp
    <3>2. QED
      <4> HIDE DEF Met
      <4>1. QED
        BY <2>1, <3>1
  <2>3. Cardinality(Met(DeptCount)) <= DeptCount
    <3> HIDE DEF Met
    <3>1. QED
      BY <2>2, DeptConstants, FS_Subset DEF DeptCount
  <2>4. Cardinality(Met(DeptCount)) = DeptCount + 1
    BY <2>1
  <2>5. QED
    <3> HIDE DEF Met
    <3>1. QED
      BY <2>3, <2>4, DeptCountIsNat
<1>7. Closed(DeptCount)
  <2> HIDE DEF Closed, Fresh
  <2>1. QED
    BY <1>5, <1>6
<1>8. AtAndAbove(p) = Met(DeptCount) \ {NoDept}
  BY <1>1
<1>9. p \in Met(DeptCount)
  <2>1. 0 \in 0..DeptCount /\ g[0] = p
    BY <1>1, DeptCountIsNat DEF GoesUp
  <2>2. QED
    BY <2>1
<1>10. Met(DeptCount) \subseteq Depts \cup {NoDept}
  BY <1>1 DEF GoesUp
<1>11. QED
  <2> HIDE DEF Met
  <2>1. QED
    BY <1>7, <1>8, <1>9, <1>10

\* The rows right below the given ones.
RowsUnder(R) == {d \in DOMAIN depts : depts[d] \in R}

\* Going down from the given rows, level by level.
GoesDown(g, roots) ==
    /\ g \in [0..DeptCount -> SUBSET Depts]
    /\ g[0] = roots
    /\ \A k \in 1..DeptCount : g[k] = RowsUnder(g[k - 1])

\* The tree of the answers holds what one meets going down.
LEMMA LevelsMet ==
    ASSUME DeptTypeOK, NEW roots \in SUBSET Depts
    PROVE  \E g : GoesDown(g, roots) /\ BelowDepts(roots) = UNION {g[k] : k \in 0..DeptCount}
<1> DEFINE D == SUBSET Depts
           F == [R \in D |-> RowsUnder(R)]
           Step(level) == [k \in 0..DeptCount |->
               IF k = 0 THEN roots ELSE {d \in DOMAIN depts : depts[d] \in level[k - 1]}]
           level == CHOOSE h : h = Step(h)
<1>1. \A R : RowsUnder(R) \in D
  BY DEF DeptTypeOK, RowsUnder
<1>2. F \in [D -> D]
  BY <1>1
<1>3. PICK g : IsIterate(g, D, F, roots, DeptCount)
  <2> HIDE DEF F
  <2>1. QED
    BY <1>2, DeptCountIsNat, Iterates
<1>4. g = Step(g)
  <2>1. ASSUME NEW k \in 0..DeptCount
        PROVE  g[k] = IF k = 0 THEN roots ELSE {d \in DOMAIN depts : depts[d] \in g[k - 1]}
    <3>1. CASE k = 0
      BY <1>3, <3>1 DEF IsIterate
    <3>2. CASE k # 0
      <4>1. k \in 1..DeptCount /\ k - 1 \in 0..DeptCount
        BY <3>2, DeptCountIsNat
      <4>2. g[k] = F[g[k - 1]] /\ g[k - 1] \in D
        <5> HIDE DEF F, D
        <5>1. QED
          BY <1>3, <4>1 DEF IsIterate
      <4>3. g[k] = RowsUnder(g[k - 1])
        BY <4>2
      <4>4. QED
        BY <3>2, <4>3 DEF RowsUnder
    <3>3. QED
      BY <3>1, <3>2
  <2>2. g = [k \in 0..DeptCount |-> g[k]]
    <3> HIDE DEF F, D
    <3>1. QED
      BY <1>3 DEF IsIterate
  <2>3. QED
    BY <2>1, <2>2
<1>5. level = Step(level)
  <2> HIDE DEF Step
  <2>1. QED
    BY <1>4
<1>6. GoesDown(level, roots)
  <2> HIDE DEF level
  <2>1. level = [k \in 0..DeptCount |-> IF k = 0 THEN roots ELSE RowsUnder(level[k - 1])]
    BY <1>5 DEF RowsUnder
  <2>2. level \in [0..DeptCount -> D]
    <3>1. \A k \in 0..DeptCount : (IF k = 0 THEN roots ELSE RowsUnder(level[k - 1])) \in D
      BY <1>1
    <3>2. QED
      <4> HIDE DEF D
      <4>1. QED
        BY <2>1, <3>1
  <2>3. level[0] = roots
    BY <2>1, DeptCountIsNat
  <2>4. ASSUME NEW k \in 1..DeptCount
        PROVE  level[k] = RowsUnder(level[k - 1])
    <3>1. k \in 0..DeptCount /\ k # 0
      BY DeptCountIsNat
    <3>2. QED
      BY <2>1, <3>1
  <2>5. QED
    BY <2>2, <2>3, <2>4 DEF GoesDown
<1>7. BelowDepts(roots) = UNION {level[k] : k \in 0..DeptCount}
  BY DEF BelowDepts, DeptCount
<1>8. QED
  BY <1>6, <1>7

\* As many levels as there are departments hold everything below.
LEMMA EverythingBelowMet ==
    ASSUME DeptTypeOK, NEW roots \in SUBSET Depts
    PROVE  /\ RowsUnder(BelowDepts(roots)) \subseteq BelowDepts(roots)
           /\ roots \subseteq BelowDepts(roots)
           /\ BelowDepts(roots) \subseteq roots \cup DOMAIN depts
<1>1. PICK g : GoesDown(g, roots) /\ BelowDepts(roots) = UNION {g[k] : k \in 0..DeptCount}
  BY LevelsMet
<1> DEFINE Met(k) == UNION {g[j] : j \in 0..k}
           Closed(k) == RowsUnder(Met(k)) \subseteq Met(k)
           Full(k) == Cardinality(Met(k)) >= k + 1
           G == {k \in 0..DeptCount : Closed(k) \/ Full(k)}
<1>2. \A k \in 0..(DeptCount - 1) : RowsUnder(g[k]) = g[k + 1]
  <2> SUFFICES ASSUME NEW k \in 0..(DeptCount - 1)
               PROVE  RowsUnder(g[k]) = g[k + 1]
    OBVIOUS
  <2>1. k + 1 \in 1..DeptCount /\ (k + 1) - 1 = k
    BY DeptCountIsNat
  <2>2. QED
    BY <1>1, <2>1 DEF GoesDown
<1>3. \A k \in 0..DeptCount : Met(k) \subseteq Depts
  <2> SUFFICES ASSUME NEW k \in 0..DeptCount, NEW j \in 0..k
               PROVE  g[j] \subseteq Depts
    OBVIOUS
  <2>1. j \in 0..DeptCount
    BY DeptCountIsNat
  <2>2. QED
    BY <1>1, <2>1 DEF GoesDown
<1>4. \A k \in 0..DeptCount : /\ IsFiniteSet(Met(k)) /\ Cardinality(Met(k)) \in Nat
                              /\ Cardinality(Met(k)) <= DeptCount
  <2> HIDE DEF Met
  <2>1. QED
    BY <1>3, DeptConstants, FS_Subset, FS_CardinalityType DEF DeptCount
<1>5. 0 \in G
  <2>1. CASE Met(0) = {}
    <3>1. Closed(0)
      <4> HIDE DEF Met
      <4>1. QED
        BY <2>1 DEF RowsUnder
    <3>2. QED
      BY <3>1, DeptCountIsNat
  <2>2. CASE Met(0) # {}
    <3>1. Cardinality(Met(0)) # 0 /\ Cardinality(Met(0)) \in Nat
      <4> HIDE DEF Met
      <4>1. QED
        BY <1>4, <2>2, DeptCountIsNat, FS_EmptySet
    <3>2. Full(0)
      <4> HIDE DEF Met
      <4>1. QED
        BY <3>1
    <3>3. QED
      <4> HIDE DEF Closed, Full
      <4>1. QED
        BY <3>2, DeptCountIsNat
  <2>3. QED
    BY <2>1, <2>2
<1>6. ASSUME NEW k \in 0..(DeptCount - 1), k \in G
      PROVE  k + 1 \in G
  <2>1. k \in Nat /\ k \in 0..DeptCount /\ k + 1 \in 0..DeptCount /\ 0..(k + 1) = (0..k) \cup {k + 1}
    BY DeptCountIsNat
  <2>2. Met(k + 1) = Met(k) \cup g[k + 1]
    BY <2>1
  <2>3. RowsUnder(Met(k)) \subseteq Met(k) \cup g[k + 1]
    <3> SUFFICES ASSUME NEW j \in 0..k
                 PROVE  RowsUnder(g[j]) \subseteq Met(k) \cup g[k + 1]
      BY DEF RowsUnder
    <3>1. j \in 0..(DeptCount - 1)
      BY <2>1, DeptCountIsNat
    <3>2. RowsUnder(g[j]) = g[j + 1]
      BY <1>2, <3>1
    <3>3. j + 1 \in 0..(k + 1)
      BY <2>1
    <3>4. g[j + 1] \subseteq Met(k + 1)
      BY <3>3
    <3>5. QED
      <4> HIDE DEF Met
      <4>1. QED
        BY <2>2, <3>2, <3>4
  <2>4. g[k + 1] = RowsUnder(g[k]) /\ g[k] \subseteq Met(k)
    BY <1>2, <2>1
  <2>5. Closed(k) => Closed(k + 1)
    <3> HIDE DEF Met
    <3>1. QED
      BY <2>2, <2>3, <2>4 DEF RowsUnder
  <2>6. CASE g[k + 1] \subseteq Met(k)
    <3>1. Closed(k + 1)
      <4> HIDE DEF Met
      <4>1. QED
        BY <2>2, <2>3, <2>6 DEF RowsUnder
    <3>2. QED
      <4> HIDE DEF Closed, Full
      <4>1. QED
        BY <2>1, <3>1
  <2>7. CASE Full(k) /\ ~(g[k + 1] \subseteq Met(k))
    <3>1. PICK x \in g[k + 1] : x \notin Met(k)
      BY <2>7
    <3> HIDE DEF Met
    <3>2. IsFiniteSet(Met(k) \cup {x}) /\ Cardinality(Met(k) \cup {x}) = Cardinality(Met(k)) + 1
      BY <1>4, <2>1, <3>1, FS_AddElement
    <3>3. Cardinality(Met(k) \cup {x}) <= Cardinality(Met(k + 1))
      <4>1. Met(k) \cup {x} \subseteq Met(k + 1) /\ IsFiniteSet(Met(k + 1))
        BY <1>4, <2>1, <2>2, <3>1
      <4>2. QED
        BY <4>1, FS_Subset
    <3>4. Cardinality(Met(k)) \in Nat /\ Cardinality(Met(k + 1)) \in Nat
      BY <1>4, <2>1
    <3>5. Full(k + 1)
      BY <2>1, <2>7, <3>2, <3>3, <3>4
    <3>6. QED
      <4> HIDE DEF Closed, Full
      <4>1. QED
        BY <2>1, <3>5
  <2>8. Closed(k) \/ Full(k)
    BY <1>6
  <2>9. QED
    <3> HIDE DEF Closed, Full, Met
    <3>1. QED
      BY <2>1, <2>5, <2>6, <2>7, <2>8
<1>7. DeptCount \in G
  <2> HIDE DEF G
  <2>1. \A k \in 0..DeptCount : k \in G
    BY <1>5, <1>6, DeptCountIsNat, UpTo
  <2>2. DeptCount \in 0..DeptCount
    BY DeptCountIsNat
  <2>3. QED
    BY <2>1, <2>2
<1>8. ~Full(DeptCount)
  <2>1. DeptCount \in 0..DeptCount
    BY DeptCountIsNat
  <2> HIDE DEF Met
  <2>2. QED
    BY <1>4, <2>1, DeptCountIsNat
<1>9. Closed(DeptCount)
  <2> HIDE DEF Closed, Full
  <2>1. QED
    BY <1>7, <1>8
<1>10. BelowDepts(roots) = Met(DeptCount)
  BY <1>1
<1>11. roots \subseteq Met(DeptCount)
  <2>1. 0 \in 0..DeptCount /\ g[0] = roots
    BY <1>1, DeptCountIsNat DEF GoesDown
  <2>2. QED
    BY <2>1
<1>12. Met(DeptCount) \subseteq roots \cup DOMAIN depts
  <2> SUFFICES ASSUME NEW j \in 0..DeptCount
               PROVE  g[j] \subseteq roots \cup DOMAIN depts
    OBVIOUS
  <2>1. CASE j = 0
    BY <1>1, <2>1 DEF GoesDown
  <2>2. CASE j # 0
    <3>1. j \in 1..DeptCount
      BY <2>2, DeptCountIsNat
    <3>2. QED
      BY <1>1, <3>1 DEF GoesDown, RowsUnder
  <2>3. QED
    BY <2>1, <2>2
<1>13. QED
  <2> HIDE DEF Met
  <2>1. QED
    BY <1>9, <1>10, <1>11, <1>12

\* There is no ring: every set of departments has one whose parent is outside.
Rooted ==
    \A S \in SUBSET DOMAIN depts : S # {} => \E d \in S : depts[d] \notin S

\* Without a ring the tree of the answers shows every department there is.
LEMMA RootedTreeShown ==
    ASSUME DeptTypeOK, Rooted
    PROVE  ShownDepts = DOMAIN depts
<1> DEFINE roots == {d \in DOMAIN depts : depts[d] \notin DOMAIN depts}
           S == DOMAIN depts \ BelowDepts(roots)
<1>1. roots \in SUBSET Depts
  BY DEF DeptTypeOK
<1>2. /\ RowsUnder(BelowDepts(roots)) \subseteq BelowDepts(roots)
      /\ roots \subseteq BelowDepts(roots)
      /\ BelowDepts(roots) \subseteq roots \cup DOMAIN depts
  <2> HIDE DEF roots
  <2>1. QED
    BY <1>1, EverythingBelowMet
<1>3. S = {}
  <2>1. SUFFICES ASSUME S # {}
                 PROVE  FALSE
    OBVIOUS
  <2>2. PICK d \in S : depts[d] \notin S
    BY <2>1 DEF Rooted
  <2>3. depts[d] \in BelowDepts(roots) => d \in BelowDepts(roots)
    BY <1>2, <2>2 DEF RowsUnder
  <2>4. depts[d] \notin DOMAIN depts => d \in BelowDepts(roots)
    BY <1>2, <2>2
  <2>5. QED
    BY <2>2, <2>3, <2>4
<1>4. ShownDepts = BelowDepts(roots)
  BY DEF ShownDepts
<1>5. QED
  BY <1>2, <1>3, <1>4

-----------------------------------------------------------------------------
(* The inductive invariant of the departments.                             *)

\* A request locks at most its own department, given out by then; a move is not
\* to go below itself.
RequestsNameDepts ==
    \A r \in DeptRequests :
        /\ deptReqs[r].locks \subseteq {deptReqs[r].dept} \ freshDepts
        /\ deptReqs[r].pc # "idle" => deptReqs[r].dept \in Depts
        /\ deptReqs[r].pc = "checked" => deptReqs[r].dept # deptReqs[r].parent

\* What a deletion has counted still holds: nothing is below a row that it locks.
CountsHold ==
    \A r \in DeptRequests : deptReqs[r].pc = "counted" /\ deptReqs[r].locks # {} =>
        \A c \in DOMAIN depts : depts[c] # deptReqs[r].dept

\* Going up from p never meets d.
Apart(d, p) ==
    \E U \in SUBSET (Depts \ freshDepts) :
        /\ p \in U /\ d \notin U
        /\ \A x \in U \cap DOMAIN depts : depts[x] \in U \cup {NoDept}

\* Unless a ring was risked, what a move has checked still holds, from when its
\* parent is there.
ChecksHold ==
    ~deptRingRisk =>
        /\ Rooted
        /\ \A r, o \in DeptRequests : deptReqs[r].pc = "checked" /\ deptReqs[o].pc = "checked" => r = o
        /\ \A r \in DeptRequests :
               deptReqs[r].pc = "checked" /\ deptReqs[r].parent \notin freshDepts \cup {NoDept} =>
                   Apart(deptReqs[r].dept, deptReqs[r].parent)

DeptInv == DeptTypeOK /\ RequestsNameDepts /\ CountsHold /\ ChecksHold

\* In the beginning there is no department and no request.
LEMMA DeptInitInv == DeptInit => DeptInv
<1> SUFFICES ASSUME DeptInit PROVE DeptInv
  OBVIOUS
<1> USE DeptConstants DEF DeptInit, NoDeptRequest
<1>1. DOMAIN depts = {}
  OBVIOUS
<1>2. \A r \in DeptRequests : deptReqs[r] = NoDeptRequest /\ deptReqs[r].pc = "idle"
  OBVIOUS
<1>3. DeptTypeOK
  BY <1>1 DEF DeptTypeOK
<1>4. QED
  BY <1>1, <1>2, <1>3 DEF DeptInv, RequestsNameDepts, CountsHold, ChecksHold, Rooted

\* A new department below an old one, or a root of its own, closes no ring; and
\* what is to go below the new one was not met going up from its parent.
LEMMA CreateDeptInv ==
    ASSUME DeptInv, NEW d \in Depts, CreateDept(d)
    PROVE  DeptInv'
<1> USE DeptConstants
<1>1. PICK p \in DOMAIN depts \cup {d, NoDept} :
          /\ d \in freshDepts
          /\ p = d \/ MayReference(p, DeptRequests)
          /\ depts' = [x \in DOMAIN depts \cup {d} |-> IF x = d THEN p ELSE depts[x]]
          /\ freshDepts' = freshDepts \ {d}
          /\ deptRingRisk' = (\/ deptRingRisk \/ p = d
                              \/ \E r \in DeptRequests :
                                    /\ deptReqs[r].pc = "checked" /\ deptReqs[r].parent = d
                                    /\ deptReqs[r].dept \in AtAndAbove(p))
          /\ deptReqs' = deptReqs
  BY DEF CreateDept
<1>2. /\ DOMAIN depts' = DOMAIN depts \cup {d} /\ d \notin DOMAIN depts
      /\ depts'[d] = p /\ \A x \in DOMAIN depts : depts'[x] = depts[x]
  BY <1>1 DEF DeptInv, DeptTypeOK
<1>3. DeptTypeOK'
  <2>1. deptRingRisk' \in BOOLEAN
    BY <1>1
  <2>2. QED
    BY <1>1, <1>2, <2>1 DEF DeptInv, DeptTypeOK
<1>4. RequestsNameDepts'
  BY <1>1 DEF DeptInv, RequestsNameDepts
<1>5. CountsHold'
  <2> SUFFICES ASSUME NEW r \in DeptRequests, deptReqs[r].pc = "counted", deptReqs[r].locks # {},
                      NEW c \in DOMAIN depts'
               PROVE  depts'[c] # deptReqs[r].dept
    BY <1>1 DEF CountsHold
  <2>1. deptReqs[r].dept \in deptReqs[r].locks \ freshDepts /\ deptReqs[r].dept \in Depts
    BY DEF DeptInv, RequestsNameDepts
  <2>2. CASE c = d
    BY <1>1, <1>2, <2>1, <2>2 DEF MayReference, LockedForUpdate
  <2>3. CASE c # d
    BY <1>2, <2>3 DEF DeptInv, CountsHold
  <2>4. QED
    BY <2>2, <2>3
<1>6. ASSUME Rooted, p # d
      PROVE  Rooted'
  <2> SUFFICES ASSUME NEW S \in SUBSET (DOMAIN depts \cup {d}), S # {}
               PROVE  \E e \in S : depts'[e] \notin S
    BY <1>2 DEF Rooted
  <2>1. CASE S \ {d} = {}
    BY <1>2, <1>6, <2>1
  <2>2. CASE S \ {d} # {}
    <3>1. PICK e \in S \ {d} : depts[e] \notin S \ {d}
      BY <1>6, <2>2 DEF Rooted
    <3>2. depts'[e] = depts[e] /\ depts[e] # d
      BY <1>1, <1>2, <3>1 DEF DeptInv, DeptTypeOK
    <3>3. QED
      BY <3>1, <3>2
  <2>3. QED
    BY <2>1, <2>2
<1>7. ASSUME NEW a, NEW b, Apart(a, b)
      PROVE  Apart(a, b)'
  <2>1. PICK U \in SUBSET (Depts \ freshDepts) :
            /\ b \in U /\ a \notin U
            /\ \A x \in U \cap DOMAIN depts : depts[x] \in U \cup {NoDept}
    BY <1>7 DEF Apart
  <2>2. U \in SUBSET (Depts \ freshDepts') /\ d \notin U
    BY <1>1, <2>1
  <2>3. \A x \in U \cap DOMAIN depts' : depts'[x] \in U \cup {NoDept}
    BY <1>2, <2>1, <2>2
  <2>4. QED
    BY <2>1, <2>2, <2>3 DEF Apart
<1>8. ASSUME NEW a, a # d, a \notin AtAndAbove(p), p # d
      PROVE  Apart(a, d)'
  <2> DEFINE U == (AtAndAbove(p) \ freshDepts) \cup {d}
  <2>1. p \in DOMAIN depts \cup {NoDept} /\ DOMAIN depts \subseteq Depts \ freshDepts
    BY <1>1, <1>8 DEF DeptInv, DeptTypeOK
  <2>2. /\ \A x \in AtAndAbove(p) : ParentOf(x) \in AtAndAbove(p) \cup {NoDept}
        /\ p # NoDept => p \in AtAndAbove(p)
        /\ AtAndAbove(p) \subseteq Depts
    BY <2>1, EverythingAboveMet DEF DeptInv
  <2>3. d \in U /\ a \notin U /\ U \in SUBSET (Depts \ freshDepts')
    BY <1>1, <1>8, <2>2
  <2>4. depts'[d] \in U \cup {NoDept}
    BY <1>2, <2>1, <2>2
  <2>5. ASSUME NEW x \in U \cap DOMAIN depts', x # d
        PROVE  depts'[x] \in U \cup {NoDept}
    <3>1. x \in DOMAIN depts /\ x \in AtAndAbove(p) /\ depts'[x] = depts[x]
      BY <1>2, <2>5
    <3>2. depts[x] \in AtAndAbove(p) \cup {NoDept} /\ depts[x] \in DOMAIN depts \cup {NoDept}
      BY <2>2, <3>1 DEF ParentOf, DeptInv, DeptTypeOK
    <3>3. QED
      BY <2>1, <3>1, <3>2
  <2>6. \A x \in U \cap DOMAIN depts' : depts'[x] \in U \cup {NoDept}
    BY <2>4, <2>5
  <2>7. QED
    BY <2>3, <2>6 DEF Apart
<1>9. ASSUME ~deptRingRisk', NEW r \in DeptRequests, deptReqs[r].pc = "checked",
             deptReqs[r].parent \notin freshDepts' \cup {NoDept}
      PROVE  Apart(deptReqs[r].dept, deptReqs[r].parent)'
  <2>1. CASE deptReqs[r].parent = d
    <3>1. deptReqs[r].dept # d /\ deptReqs[r].dept \notin AtAndAbove(p) /\ p # d
      BY <1>1, <1>9, <2>1 DEF DeptInv, RequestsNameDepts
    <3>2. Apart(deptReqs[r].dept, d)'
      <4>1. \A a : a # d /\ a \notin AtAndAbove(p) => Apart(a, d)'
        BY <1>8, <3>1
      <4>2. \A a : a = deptReqs[r].dept => Apart(a, d)'
        BY <3>1, <4>1
      <4>3. QED
        BY <1>1, <4>2
    <3>3. QED
      BY <1>1, <2>1, <3>2
  <2>2. CASE deptReqs[r].parent # d
    <3>1. Apart(deptReqs[r].dept, deptReqs[r].parent)
      BY <1>1, <1>9, <2>2 DEF DeptInv, ChecksHold
    <3>2. \A a, b : Apart(a, b) => Apart(a, b)'
      BY <1>7
    <3>3. QED
      BY <1>1, <3>1, <3>2
  <2>3. QED
    BY <2>1, <2>2
<1>10. ChecksHold'
  BY <1>1, <1>6, <1>9 DEF DeptInv, ChecksHold
<1>11. QED
  BY <1>3, <1>4, <1>5, <1>10 DEF DeptInv

\* Both operands of a rewritten request are where they belong.
LEMMA RequestRewritten ==
    ASSUME DeptTypeOK, NEW r \in DeptRequests, NEW q, deptReqs' = [deptReqs EXCEPT ![r] = q]
    PROVE  deptReqs'[r] = q /\ \A o \in DeptRequests \ {r} : deptReqs'[o] = deptReqs[o]
  BY DEF DeptTypeOK

\* What a request has counted and checked holds while it has no other effect.
Sound(r, pc, d, p, k) ==
    /\ UNCHANGED <<depts, freshDepts>>
    /\ deptRingRisk' \in BOOLEAN /\ (~deptRingRisk' => ~deptRingRisk)
    /\ pc \in {"idle", "checked", "locked", "counted"}
    /\ d \in Depts \cup {NoDept} /\ p \in Depts \cup {NoDept}
    /\ k \subseteq {d} \ freshDepts /\ k \subseteq Depts
    /\ pc # "idle" => d \in Depts
    /\ pc = "counted" /\ k # {} => \A c \in DOMAIN depts : depts[c] # d
    /\ pc = "checked" => d # p
    /\ pc = "checked" /\ ~deptRingRisk' =>
           /\ \A o \in DeptRequests \ {r} : deptReqs[o].pc # "checked"
           /\ p \notin freshDepts \cup {NoDept} => Apart(d, p)

\* The rows being the same, such a request keeps the invariant.
LEMMA OnlyRequestChanges ==
    ASSUME DeptInv, NEW r \in DeptRequests, NEW pc, NEW d, NEW p, NEW k,
           deptReqs' = [deptReqs EXCEPT ![r] = [pc |-> pc, dept |-> d, parent |-> p, locks |-> k]],
           Sound(r, pc, d, p, k)
    PROVE  DeptInv'
<1> USE DEF Sound
<1> DEFINE q == [pc |-> pc, dept |-> d, parent |-> p, locks |-> k]
<1>1. q.pc = pc /\ q.dept = d /\ q.parent = p /\ q.locks = k
  OBVIOUS
<1>2. q \in [pc : {"idle", "checked", "locked", "counted"},
             dept : Depts \cup {NoDept}, parent : Depts \cup {NoDept}, locks : SUBSET Depts]
  OBVIOUS
<1> HIDE DEF q
<1>3. deptReqs' = [deptReqs EXCEPT ![r] = q]
  BY DEF q
<1>4. deptReqs'[r] = q /\ \A o \in DeptRequests \ {r} : deptReqs'[o] = deptReqs[o]
  BY <1>3, RequestRewritten DEF DeptInv
<1>5. DeptTypeOK'
  BY <1>2, <1>3 DEF DeptInv, DeptTypeOK
<1>6. RequestsNameDepts'
  BY <1>1, <1>4 DEF DeptInv, RequestsNameDepts
<1>7. CountsHold'
  BY <1>1, <1>4 DEF DeptInv, CountsHold
<1>8. Rooted => Rooted'
  BY DEF Rooted
<1>9. \A a, b : Apart(a, b) => Apart(a, b)'
  BY DEF Apart
<1>10. ASSUME ~deptRingRisk'
       PROVE  /\ Rooted'
              /\ \A s, o \in DeptRequests :
                     deptReqs'[s].pc = "checked" /\ deptReqs'[o].pc = "checked" => s = o
              /\ \A s \in DeptRequests :
                     deptReqs'[s].pc = "checked" /\ deptReqs'[s].parent \notin freshDepts' \cup {NoDept} =>
                     Apart(deptReqs[s].dept, deptReqs[s].parent)'
  <2>1. Rooted /\ Rooted'
    BY <1>8, <1>10 DEF DeptInv, ChecksHold
  <2>2. \A s, o \in DeptRequests : deptReqs'[s].pc = "checked" /\ deptReqs'[o].pc = "checked" => s = o
    BY <1>1, <1>4, <1>10 DEF DeptInv, ChecksHold
  <2>3. ASSUME NEW s \in DeptRequests, deptReqs'[s].pc = "checked",
               deptReqs'[s].parent \notin freshDepts' \cup {NoDept}
        PROVE  Apart(deptReqs[s].dept, deptReqs[s].parent)'
    <3>1. CASE s = r
      <4>1. Apart(d, p)
        BY <1>1, <1>4, <1>10, <2>1, <2>3, <3>1
      <4>2. Apart(d, p)'
        BY <1>9, <4>1
      <4>3. QED
        BY <1>1, <1>4, <3>1, <4>2
    <3>2. CASE s # r
      <4>1. deptReqs'[s] = deptReqs[s]
        BY <1>4, <3>2
      <4>2. Apart(deptReqs[s].dept, deptReqs[s].parent)
        BY <1>10, <2>3, <4>1 DEF DeptInv, ChecksHold
      <4>3. QED
        BY <1>9, <4>1, <4>2
    <3>3. QED
      BY <3>1, <3>2
  <2>4. QED
    BY <2>1, <2>2, <2>3
<1>11. ChecksHold'
  BY <1>10 DEF ChecksHold
<1>12. QED
  BY <1>5, <1>6, <1>7, <1>11 DEF DeptInv

\* The check of a move: the departments that the query meets going up from the
\* new parent keep the two apart.
LEMMA CheckMoveInv ==
    ASSUME DeptInv, NEW r \in DeptRequests, CheckMove(r)
    PROVE  DeptInv'
<1>1. PICK d \in Depts, p \in Depts \cup {NoDept} :
          /\ MayMove(d, p)
          /\ deptReqs' = [deptReqs EXCEPT ![r] = [pc |-> "checked", dept |-> d, parent |-> p, locks |-> {}]]
          /\ deptRingRisk' = (deptRingRisk \/ \E o \in DeptRequests : deptReqs[o].pc = "checked")
          /\ UNCHANGED <<depts, freshDepts>>
  BY DEF CheckMove
<1>2. deptRingRisk' \in BOOLEAN /\ (~deptRingRisk' => ~deptRingRisk)
      /\ (~deptRingRisk' => \A o \in DeptRequests \ {r} : deptReqs[o].pc # "checked")
  BY <1>1 DEF DeptInv, DeptTypeOK
<1>3. ASSUME p \notin freshDepts \cup {NoDept}
      PROVE  Apart(d, p)
  <2> DEFINE U == AtAndAbove(p) \ freshDepts
  <2>1. /\ \A x \in AtAndAbove(p) : ParentOf(x) \in AtAndAbove(p) \cup {NoDept}
        /\ p \in AtAndAbove(p) /\ AtAndAbove(p) \subseteq Depts
    BY <1>3, EverythingAboveMet DEF DeptInv
  <2>2. d \notin AtAndAbove(p)
    BY <1>1, <1>3 DEF MayMove
  <2>3. \A x \in U \cap DOMAIN depts : depts[x] \in U \cup {NoDept}
    BY <2>1 DEF ParentOf, DeptInv, DeptTypeOK
  <2>4. U \in SUBSET (Depts \ freshDepts) /\ p \in U /\ d \notin U
    BY <1>3, <2>1, <2>2
  <2>5. QED
    BY <2>3, <2>4 DEF Apart
<1>4. Sound(r, "checked", d, p, {})
  BY <1>1, <1>2, <1>3 DEF Sound, MayMove
<1>5. QED
  BY <1>1, <1>4, OnlyRequestChanges

\* The steps of a deletion before it writes, and the end of a request.
LEMMA LockDeptInv ==
    ASSUME DeptInv, NEW r \in DeptRequests, LockDept(r)
    PROVE  DeptInv'
<1>1. PICK d \in Depts :
          /\ deptReqs' = [deptReqs EXCEPT ![r] = [pc |-> "locked", dept |-> d, parent |-> NoDept,
                                                  locks |-> {d} \cap DOMAIN depts]]
          /\ UNCHANGED <<depts, freshDepts, deptRingRisk>>
  BY DEF LockDept
<1>2. Sound(r, "locked", d, NoDept, {d} \cap DOMAIN depts)
  BY <1>1 DEF Sound, DeptInv, DeptTypeOK
<1>3. QED
  BY <1>1, <1>2, OnlyRequestChanges

LEMMA CountBelowInv ==
    ASSUME DeptInv, NEW r \in DeptRequests, CountBelow(r)
    PROVE  DeptInv'
<1> DEFINE q == deptReqs[r]
<1>1. /\ q.pc = "locked"
      /\ \A c \in DOMAIN depts : depts[c] # q.dept
      /\ deptReqs' = [deptReqs EXCEPT ![r].pc = "counted"]
      /\ UNCHANGED <<depts, freshDepts, deptRingRisk>>
  BY DEF CountBelow, GotoDept
<1>2. q \in [pc : {"idle", "checked", "locked", "counted"},
             dept : Depts \cup {NoDept}, parent : Depts \cup {NoDept}, locks : SUBSET Depts]
  BY DEF DeptInv, DeptTypeOK
<1>3. [q EXCEPT !.pc = "counted"] = [pc |-> "counted", dept |-> q.dept, parent |-> q.parent, locks |-> q.locks]
  BY <1>2
<1>4. deptReqs' = [deptReqs EXCEPT ![r] = [pc |-> "counted", dept |-> q.dept, parent |-> q.parent, locks |-> q.locks]]
  BY <1>1, <1>3
<1>5. /\ q.dept \in Depts /\ q.parent \in Depts \cup {NoDept}
      /\ q.locks \subseteq {q.dept} \ freshDepts /\ q.locks \subseteq Depts
      /\ deptRingRisk' \in BOOLEAN /\ deptRingRisk' = deptRingRisk
  BY <1>1 DEF DeptInv, DeptTypeOK, RequestsNameDepts
<1> HIDE DEF q
<1>6. Sound(r, "counted", q.dept, q.parent, q.locks)
  BY <1>1, <1>5 DEF Sound
<1>7. QED
  BY <1>4, <1>6, OnlyRequestChanges

LEMMA AbortDeptInv ==
    ASSUME DeptInv, NEW r \in DeptRequests, AbortDept(r)
    PROVE  DeptInv'
<1>1. /\ deptReqs' = [deptReqs EXCEPT ![r] = [pc |-> "idle", dept |-> NoDept, parent |-> NoDept, locks |-> {}]]
      /\ UNCHANGED <<depts, freshDepts, deptRingRisk>>
  BY DEF AbortDept, EndDept, NoDeptRequest
<1>2. Sound(r, "idle", NoDept, NoDept, {})
  BY <1>1 DEF Sound, DeptInv, DeptTypeOK
<1>3. QED
  BY <1>1, <1>2, OnlyRequestChanges

\* What the rows keep apart stays apart when parents are only set to null.
LEMMA ApartStays ==
    ASSUME NEW d, NEW p, Apart(d, p), freshDepts' = freshDepts, DOMAIN depts' \subseteq DOMAIN depts,
           \A x \in DOMAIN depts' : depts'[x] \in {depts[x], NoDept}
    PROVE  Apart(d, p)'
<1>1. PICK U \in SUBSET (Depts \ freshDepts) :
          /\ p \in U /\ d \notin U
          /\ \A x \in U \cap DOMAIN depts : depts[x] \in U \cup {NoDept}
  BY DEF Apart
<1>2. \A x \in U \cap DOMAIN depts' : depts'[x] \in U \cup {NoDept}
  BY <1>1
<1>3. QED
  BY <1>1, <1>2 DEF Apart

\* The write of a move: what was apart when it was checked is still apart, so
\* the department does not come below itself.
LEMMA WriteMoveInv ==
    ASSUME DeptInv, NEW r \in DeptRequests, WriteMove(r)
    PROVE  DeptInv'
<1> DEFINE d == deptReqs[r].dept
           p == deptReqs[r].parent
<1>1. /\ deptReqs[r].pc = "checked"
      /\ d \in DOMAIN depts /\ depts[d] # p => MayReference(p, OtherDepts(r))
      /\ depts' = [x \in DOMAIN depts |-> IF x = d THEN p ELSE depts[x]]
      /\ deptReqs' = [deptReqs EXCEPT ![r] = NoDeptRequest]
      /\ freshDepts' = freshDepts /\ deptRingRisk' = deptRingRisk
  BY DEF WriteMove, EndDept
<1>2. d \in Depts /\ p \in Depts \cup {NoDept}
  BY <1>1 DEF DeptInv, DeptTypeOK, RequestsNameDepts
<1> HIDE DEF d, p
<1>3. deptReqs'[r] = NoDeptRequest /\ \A o \in DeptRequests \ {r} : deptReqs'[o] = deptReqs[o]
  BY <1>1, RequestRewritten DEF DeptInv
<1>4. NoDeptRequest.pc = "idle" /\ NoDeptRequest.locks = {} /\ NoDeptRequest \in [pc : {"idle", "checked", "locked", "counted"},
                                    dept : Depts \cup {NoDept}, parent : Depts \cup {NoDept}, locks : SUBSET Depts]
  BY DEF NoDeptRequest
<1>5. d \in DOMAIN depts => p \in DOMAIN depts \cup {NoDept}
  BY <1>1 DEF MayReference, DeptInv, DeptTypeOK
<1>6. DOMAIN depts' = DOMAIN depts
  BY <1>1
<1>7. \A x \in DOMAIN depts : depts'[x] = IF x = d THEN p ELSE depts[x]
  BY <1>1
<1>8. DeptTypeOK'
  <2>1. \A x \in DOMAIN depts' : depts'[x] \in DOMAIN depts' \cup {NoDept}
    BY <1>5, <1>6, <1>7 DEF DeptInv, DeptTypeOK
  <2>2. deptReqs' \in [DeptRequests -> [pc : {"idle", "checked", "locked", "counted"},
                                        dept : Depts \cup {NoDept}, parent : Depts \cup {NoDept}, locks : SUBSET Depts]]
    BY <1>1, <1>4 DEF DeptInv, DeptTypeOK
  <2>3. QED
    BY <1>1, <1>6, <2>1, <2>2 DEF DeptInv, DeptTypeOK
<1>9. RequestsNameDepts'
  BY <1>1, <1>3, <1>4 DEF DeptInv, RequestsNameDepts
<1>10. CountsHold'
  <2> SUFFICES ASSUME NEW o \in DeptRequests, deptReqs'[o].pc = "counted", deptReqs'[o].locks # {}, NEW c \in DOMAIN depts
               PROVE  depts'[c] # deptReqs'[o].dept
    BY <1>6 DEF CountsHold
  <2>1. o # r /\ deptReqs'[o] = deptReqs[o]
    BY <1>3, <1>4
  <2>2. depts[c] # deptReqs[o].dept /\ deptReqs[o].dept \in Depts /\ deptReqs[o].dept \in deptReqs[o].locks
    BY <2>1 DEF DeptInv, CountsHold, RequestsNameDepts
  <2>3. CASE c = d /\ depts[d] # p
    <3>1. p = NoDept \/ ~LockedForUpdate(p, OtherDepts(r))
      BY <1>1, <2>3 DEF MayReference
    <3>2. p # deptReqs[o].dept
      BY <2>1, <2>2, <3>1, DeptConstants DEF LockedForUpdate, OtherDepts
    <3>3. QED
      BY <1>7, <2>1, <2>3, <3>2
  <2>4. CASE c # d \/ depts[d] = p
    BY <1>7, <2>1, <2>2, <2>4
  <2>5. QED
    BY <2>3, <2>4
<1>11. ASSUME ~deptRingRisk
       PROVE  Rooted'
  <2>1. Rooted /\ (p \notin freshDepts \cup {NoDept} => Apart(d, p))
    BY <1>1, <1>11 DEF DeptInv, ChecksHold, d, p
  <2> SUFFICES ASSUME NEW S \in SUBSET DOMAIN depts, S # {}
               PROVE  \E e \in S : depts'[e] \notin S
    BY <1>6 DEF Rooted
  <2>2. PICK e \in S : depts[e] \notin S
    BY <2>1 DEF Rooted
  <2>3. CASE p = NoDept \/ d \notin S
    <3>1. p = NoDept => p \notin S
      BY DeptConstants DEF DeptInv, DeptTypeOK
    <3>2. QED
      BY <1>7, <2>2, <2>3, <3>1
  <2>4. CASE p # NoDept /\ d \in S
    <3>0. Apart(d, p)
      BY <1>5, <2>1, <2>4 DEF DeptInv, DeptTypeOK
    <3>1. PICK U \in SUBSET (Depts \ freshDepts) :
              /\ p \in U /\ d \notin U
              /\ \A x \in U \cap DOMAIN depts : depts[x] \in U \cup {NoDept}
      BY <3>0 DEF Apart
    <3>2. CASE S \cap U = {}
      BY <1>7, <2>4, <3>1, <3>2
    <3>3. CASE S \cap U # {}
      <4>1. PICK f \in S \cap U : depts[f] \notin S \cap U
        BY <2>1, <3>3 DEF Rooted
      <4>2. depts[f] \in U \cup {NoDept} /\ NoDept \notin S /\ f # d
        BY <3>1, <4>1, DeptConstants DEF DeptInv, DeptTypeOK
      <4>3. depts'[f] = depts[f] /\ depts[f] \notin S
        BY <1>7, <4>1, <4>2
      <4>4. QED
        BY <4>1, <4>3
    <3>4. QED
      BY <3>2, <3>3
  <2>5. QED
    BY <2>3, <2>4
<1>12. ChecksHold'
  <2>1. ASSUME ~deptRingRisk'
        PROVE  \A o \in DeptRequests : deptReqs'[o].pc # "checked"
    BY <1>1, <1>3, <1>4, <2>1 DEF DeptInv, ChecksHold
  <2>2. QED
    BY <1>1, <1>11, <2>1 DEF ChecksHold
<1>13. QED
  BY <1>8, <1>9, <1>10, <1>12 DEF DeptInv

\* The last step of a deletion.
LEMMA DeleteDeptInv ==
    ASSUME DeptInv, NEW r \in DeptRequests, DeleteDept(r)
    PROVE  DeptInv'
<1> DEFINE d == deptReqs[r].dept
<1>1. /\ depts' = [x \in DOMAIN depts \ {d} |-> IF depts[x] = d THEN NoDept ELSE depts[x]]
      /\ deptReqs' = [deptReqs EXCEPT ![r] = NoDeptRequest]
      /\ freshDepts' = freshDepts /\ deptRingRisk' = deptRingRisk
  BY DEF DeleteDept, EndDept
<1> HIDE DEF d
<1>2. deptReqs'[r] = NoDeptRequest /\ \A o \in DeptRequests \ {r} : deptReqs'[o] = deptReqs[o]
  BY <1>1, RequestRewritten DEF DeptInv
<1>3. NoDeptRequest.pc = "idle" /\ NoDeptRequest.locks = {} /\ NoDeptRequest \in [pc : {"idle", "checked", "locked", "counted"},
                                    dept : Depts \cup {NoDept}, parent : Depts \cup {NoDept}, locks : SUBSET Depts]
  BY DEF NoDeptRequest
<1>4. DOMAIN depts' = DOMAIN depts \ {d}
  BY <1>1
<1>5. \A x \in DOMAIN depts' : depts'[x] = IF depts[x] = d THEN NoDept ELSE depts[x]
  BY <1>1
<1>6. DeptTypeOK'
  <2>1. \A x \in DOMAIN depts' : depts'[x] \in DOMAIN depts' \cup {NoDept}
    BY <1>4, <1>5 DEF DeptInv, DeptTypeOK
  <2>2. deptReqs' \in [DeptRequests -> [pc : {"idle", "checked", "locked", "counted"},
                                        dept : Depts \cup {NoDept}, parent : Depts \cup {NoDept}, locks : SUBSET Depts]]
    BY <1>1, <1>3 DEF DeptInv, DeptTypeOK
  <2>3. QED
    BY <1>1, <1>4, <2>1, <2>2 DEF DeptInv, DeptTypeOK
<1>7. RequestsNameDepts'
  BY <1>1, <1>2, <1>3 DEF DeptInv, RequestsNameDepts
<1>8. CountsHold'
  <2> SUFFICES ASSUME NEW o \in DeptRequests, deptReqs'[o].pc = "counted", deptReqs'[o].locks # {}, NEW c \in DOMAIN depts'
               PROVE  depts'[c] # deptReqs'[o].dept
    BY DEF CountsHold
  <2>1. o # r /\ deptReqs'[o] = deptReqs[o]
    BY <1>2, <1>3
  <2>2. depts[c] # deptReqs[o].dept /\ deptReqs[o].dept \in Depts
    BY <1>4, <2>1 DEF DeptInv, CountsHold, RequestsNameDepts
  <2>3. QED
    BY <1>5, <2>1, <2>2, DeptConstants
<1>9. ASSUME Rooted
      PROVE  Rooted'
  <2> SUFFICES ASSUME NEW S \in SUBSET DOMAIN depts', S # {}
               PROVE  \E e \in S : depts'[e] \notin S
    BY DEF Rooted
  <2>1. PICK e \in S : depts[e] \notin S
    BY <1>4, <1>9 DEF Rooted
  <2>2. NoDept \notin S
    BY <1>4, DeptConstants DEF DeptInv, DeptTypeOK
  <2>3. QED
    BY <1>5, <2>1, <2>2
<1>10. ChecksHold'
  <2>1. SUFFICES ASSUME ~deptRingRisk
                 PROVE  /\ Rooted'
                        /\ \A s, o \in DeptRequests :
                               deptReqs'[s].pc = "checked" /\ deptReqs'[o].pc = "checked" => s = o
                        /\ \A s \in DeptRequests :
                               deptReqs'[s].pc = "checked" /\ deptReqs'[s].parent \notin freshDepts' \cup {NoDept} =>
                                   Apart(deptReqs[s].dept, deptReqs[s].parent)'
    BY <1>1 DEF ChecksHold
  <2>2. Rooted'
    BY <1>9, <2>1 DEF DeptInv, ChecksHold
  <2>3. \A s, o \in DeptRequests : deptReqs'[s].pc = "checked" /\ deptReqs'[o].pc = "checked" => s = o
    BY <1>2, <1>3, <2>1 DEF DeptInv, ChecksHold
  <2>4. ASSUME NEW s \in DeptRequests, deptReqs'[s].pc = "checked",
               deptReqs'[s].parent \notin freshDepts' \cup {NoDept}
        PROVE  Apart(deptReqs[s].dept, deptReqs[s].parent)'
    <3>1. deptReqs'[s] = deptReqs[s]
      BY <1>2, <1>3, <2>4
    <3>2. Apart(deptReqs[s].dept, deptReqs[s].parent)
      BY <1>1, <2>1, <2>4, <3>1 DEF DeptInv, ChecksHold
    <3>3. \A x \in DOMAIN depts' : depts'[x] \in {depts[x], NoDept}
      BY <1>5
    <3>4. \A a, b : Apart(a, b) => Apart(a, b)'
      BY <1>1, <1>4, <3>3, ApartStays
    <3>5. QED
      BY <3>1, <3>2, <3>4
  <2>5. QED
    BY <2>2, <2>3, <2>4
<1>11. QED
  BY <1>6, <1>7, <1>8, <1>10 DEF DeptInv

LEMMA DeptNextInv == DeptInv /\ [DeptNext]_deptVars => DeptInv'
<1> SUFFICES ASSUME DeptInv, [DeptNext]_deptVars
             PROVE  DeptInv'
  OBVIOUS
<1>1. ASSUME NEW d \in Depts, CreateDept(d)
      PROVE  DeptInv'
  BY <1>1, CreateDeptInv
<1>2. ASSUME NEW r \in DeptRequests,
             \/ CheckMove(r) \/ WriteMove(r) \/ LockDept(r)
             \/ CountBelow(r) \/ DeleteDept(r) \/ AbortDept(r)
      PROVE  DeptInv'
  BY <1>2, CheckMoveInv, WriteMoveInv, LockDeptInv, CountBelowInv, DeleteDeptInv, AbortDeptInv
<1>3. ASSUME UNCHANGED deptVars
      PROVE  DeptInv'
  BY <1>3 DEF deptVars, DeptInv, DeptTypeOK, RequestsNameDepts, CountsHold, ChecksHold, Rooted, Apart
<1>4. QED
  BY <1>1, <1>2, <1>3 DEF DeptNext

\* The inductive invariant: what a move has checked and a deletion has counted
\* still holds when it is written, and no set of departments is a ring, unless
\* the step was taken that can close one (create, update, delete).
THEOREM DepartmentsInvariance == DeptSpec => []DeptInv
<1>1. QED
  BY DeptInitInv, DeptNextInv, PTL DEF DeptSpec

\* The tree of the answers shows every department there is, for any number of
\* departments and of moves and deletions in progress and whatever ids they are
\* given, unless two moves have overlapped, a department was created below
\* itself, or one below what a move in progress was to put below it (list, tree,
\* create, update).
THEOREM EveryDepartmentIsShown == DeptSpec => []DepartmentTreeHolds
<1>1. DeptInv => DepartmentTreeHolds
  BY RootedTreeShown DEF DeptInv, ChecksHold, DepartmentTreeHolds, EveryDepartmentShown
<1>2. QED
  BY <1>1, DepartmentsInvariance, PTL

\* A deletion that finds a department below it had no row to lock.
CutOffBy(d, r) == deptReqs[r].dept = depts[d] /\ deptReqs[r].locks = {} /\ deptReqs'[r] # deptReqs[r]

\* What a step of the departments deletes has nothing below it, unless it was
\* not locked.
LEMMA StepCutsNothingOff ==
    ASSUME DeptInv, [DeptNext]_deptVars
    PROVE  [\A d \in DOMAIN depts :
               depts[d] # NoDept /\ depts[d] \notin DOMAIN depts' =>
                   \/ d \notin DOMAIN depts'
                   \/ \E r \in DeptRequests : /\ deptReqs[r].dept = depts[d] /\ deptReqs[r].locks = {}
                                             /\ deptReqs'[r] # deptReqs[r]]_deptVars
<1> DEFINE Kept == \A d \in DOMAIN depts : depts[d] \in DOMAIN depts' \cup {NoDept}
           Cut == \A d \in DOMAIN depts : depts[d] \notin DOMAIN depts' \cup {NoDept} =>
                      \E r \in DeptRequests : CutOffBy(d, r)
<1>1. \A d \in DOMAIN depts : depts[d] \in DOMAIN depts \cup {NoDept}
  BY DEF DeptInv, DeptTypeOK
<1>2. ASSUME NEW d \in Depts, CreateDept(d)
      PROVE  Kept
  BY <1>1, <1>2 DEF CreateDept
<1>3. ASSUME NEW r \in DeptRequests, CheckMove(r) \/ LockDept(r) \/ CountBelow(r) \/ AbortDept(r)
      PROVE  Kept
  BY <1>1, <1>3 DEF CheckMove, LockDept, CountBelow, AbortDept
<1>4. ASSUME NEW r \in DeptRequests, WriteMove(r)
      PROVE  Kept
  BY <1>1, <1>4 DEF WriteMove
<1>5. ASSUME NEW r \in DeptRequests, DeleteDept(r)
      PROVE  Cut
  <2>1. /\ DOMAIN depts' = DOMAIN depts \ {deptReqs[r].dept} /\ deptReqs[r].pc = "counted"
        /\ deptReqs' = [deptReqs EXCEPT ![r] = NoDeptRequest]
    BY <1>5 DEF DeleteDept, EndDept
  <2>2. NoDeptRequest.pc = "idle"
    BY DEF NoDeptRequest
  <2>3. deptReqs'[r] # deptReqs[r]
    BY <2>1, <2>2, RequestRewritten DEF DeptInv
  <2> SUFFICES ASSUME NEW d \in DOMAIN depts, depts[d] \notin DOMAIN depts' \cup {NoDept}
               PROVE  CutOffBy(d, r)
    OBVIOUS
  <2>4. depts[d] = deptReqs[r].dept
    BY <1>1, <2>1
  <2>5. deptReqs[r].locks = {}
    BY <2>1, <2>4 DEF DeptInv, CountsHold
  <2>6. QED
    BY <2>3, <2>4, <2>5 DEF CutOffBy
<1>6. DeptNext => Kept \/ Cut
  BY <1>2, <1>3, <1>4, <1>5 DEF DeptNext
<1> HIDE DEF Cut, Kept
<1>7. QED
  BY <1>6 DEF Cut, Kept, CutOffBy

\* No deletion cuts off a department below: the row that is locked for update
\* keeps everybody from going below it between the count and the deletion.  Only
\* one that found no row to lock can (delete).
THEOREM DeletionsCutNothingOff == DeptSpec => NoDepartmentCutOff
<1>1. QED
  BY DepartmentsInvariance, StepCutsNothingOff, PTL DEF DeptSpec, NoDepartmentCutOff

-----------------------------------------------------------------------------
(* Dictionaries: the rows of details and the queries on them.              *)

DetailCount == Cardinality(Details)

Places == Nat \X Seq(Details)
DetailRows == [dict : Dicts, parent : Details \cup {NoDetail}, place : Places]

\* The rows are rows of details.
RowsTyped(rows) == DOMAIN rows \subseteq Details /\ \A d \in DOMAIN rows : rows[d] \in DetailRows

\* No row is below one of another dictionary.
OneFamily(rows) ==
    \A d \in DOMAIN rows : rows[d].parent \in DOMAIN rows => rows[rows[d].parent].dict = rows[d].dict

\* There is no ring: every set of rows has one whose parent is outside.
Ringless(rows) ==
    \A S \in SUBSET DOMAIN rows : S # {} => \E d \in S : rows[d].parent \notin S

LEMMA DetailCountIsNat == DetailCount \in Nat
  BY DictConstants, FS_CardinalityType DEF DetailCount

\* The rows of a dictionary right below the given ones.
ChildRows(rows, dict, R) == {d \in OfDict(rows, dict) : rows[d].parent \in R}

\* Going down from a row of a dictionary, level by level.
Descends(g, rows, dict, detail) ==
    /\ g \in [0..DetailCount -> SUBSET Details]
    /\ g[0] = {detail} \cap OfDict(rows, dict)
    /\ \A k \in 1..DetailCount : g[k] = ChildRows(rows, dict, g[k - 1])

\* The recursive queries go down level by level.
LEMMA QueryDescends ==
    ASSUME NEW rows, DOMAIN rows \subseteq Details, NEW dict, NEW detail
    PROVE  Descends(SubtreeLevels(rows, dict, detail), rows, dict, detail)
<1> DEFINE D == SUBSET Details
           F == [R \in D |-> ChildRows(rows, dict, R)]
           roots == {detail} \cap OfDict(rows, dict)
           Step(level) == [k \in 0..DetailCount |->
               IF k = 0 THEN roots ELSE {d \in OfDict(rows, dict) : rows[d].parent \in level[k - 1]}]
           level == CHOOSE h : h = Step(h)
<1>1. OfDict(rows, dict) \subseteq Details
  BY DEF OfDict
<1>2. \A R : ChildRows(rows, dict, R) \in D
  BY <1>1 DEF ChildRows
<1>3. F \in [D -> D] /\ roots \in D
  BY <1>1, <1>2
<1>4. PICK g : IsIterate(g, D, F, roots, DetailCount)
  <2> HIDE DEF F, D, roots
  <2>1. QED
    BY <1>3, DetailCountIsNat, Iterates
<1>5. g = Step(g)
  <2>1. ASSUME NEW k \in 0..DetailCount
        PROVE  g[k] = IF k = 0 THEN roots ELSE {d \in OfDict(rows, dict) : rows[d].parent \in g[k - 1]}
    <3>1. CASE k = 0
      <4> HIDE DEF F, D, roots
      <4>1. QED
        BY <1>4, <3>1 DEF IsIterate
    <3>2. CASE k # 0
      <4>1. k \in 1..DetailCount /\ k - 1 \in 0..DetailCount
        BY <3>2, DetailCountIsNat
      <4>2. g[k] = F[g[k - 1]] /\ g[k - 1] \in D
        <5> HIDE DEF F, D, roots
        <5>1. QED
          BY <1>4, <4>1 DEF IsIterate
      <4>3. g[k] = ChildRows(rows, dict, g[k - 1])
        BY <4>2
      <4>4. QED
        BY <3>2, <4>3 DEF ChildRows
    <3>3. QED
      BY <3>1, <3>2
  <2>2. g = [k \in 0..DetailCount |-> g[k]]
    <3> HIDE DEF F, D, roots
    <3>1. QED
      BY <1>4 DEF IsIterate
  <2>3. QED
    <3> HIDE DEF roots
    <3>1. QED
      BY <2>1, <2>2
<1>6. level = Step(level)
  <2> HIDE DEF Step
  <2>1. QED
    BY <1>5
<1>7. Descends(level, rows, dict, detail)
  <2> HIDE DEF level
  <2>1. level = [k \in 0..DetailCount |-> IF k = 0 THEN roots ELSE ChildRows(rows, dict, level[k - 1])]
    BY <1>6 DEF ChildRows
  <2>2. level \in [0..DetailCount -> D]
    <3>1. \A k \in 0..DetailCount : (IF k = 0 THEN roots ELSE ChildRows(rows, dict, level[k - 1])) \in D
      BY <1>2, <1>3
    <3>2. QED
      <4> HIDE DEF D, roots
      <4>1. QED
        BY <2>1, <3>1
  <2>3. level[0] = roots
    BY <2>1, DetailCountIsNat
  <2>4. ASSUME NEW k \in 1..DetailCount
        PROVE  level[k] = ChildRows(rows, dict, level[k - 1])
    <3>1. k \in 0..DetailCount /\ k # 0
      BY DetailCountIsNat
    <3>2. QED
      <4> HIDE DEF roots
      <4>1. QED
        BY <2>1, <3>1
  <2>5. QED
    BY <2>2, <2>3, <2>4 DEF Descends
<1>8. SubtreeLevels(rows, dict, detail) = level
  BY DEF SubtreeLevels, DetailCount
<1>9. QED
  <2> HIDE DEF level
  <2>1. QED
    BY <1>7, <1>8

\* Without a ring no row is met at two levels.
LEMMA LevelsDiffer ==
    ASSUME NEW rows, NEW dict, NEW detail, NEW g,
           Descends(g, rows, dict, detail), Ringless(rows)
    PROVE  \A a, b \in 0..DetailCount : a < b => g[a] \cap g[b] = {}
<1>1. \A k \in 0..DetailCount : g[k] \subseteq OfDict(rows, dict)
  <2> SUFFICES ASSUME NEW k \in 0..DetailCount PROVE g[k] \subseteq OfDict(rows, dict)
    OBVIOUS
  <2>1. CASE k = 0
    BY <2>1 DEF Descends
  <2>2. CASE k # 0
    <3>1. k \in 1..DetailCount
      BY <2>2, DetailCountIsNat
    <3>2. QED
      BY <3>1 DEF Descends, ChildRows
  <2>3. QED
    BY <2>1, <2>2
<1>2. ASSUME NEW j \in 1..DetailCount
      PROVE  detail \notin g[j]
  <2> DEFINE S == UNION {g[i] : i \in 0..j}
  <2>1. SUFFICES ASSUME detail \in g[j]
                 PROVE  FALSE
    OBVIOUS
  <2>2. \A i \in 0..j : i \in 0..DetailCount
    BY DetailCountIsNat
  <2>3. S \in SUBSET DOMAIN rows
    BY <1>1, <2>2 DEF OfDict
  <2>4. j \in 0..j /\ S # {}
    BY <2>1, DetailCountIsNat
  <2>5. PICK x \in S : rows[x].parent \notin S
    <3> HIDE DEF S
    <3>1. QED
      BY <2>3, <2>4 DEF Ringless
  <2>6. \A i \in 1..j : x \notin g[i]
    <3> SUFFICES ASSUME NEW i \in 1..j, x \in g[i]
                 PROVE  FALSE
      OBVIOUS
    <3>1. i \in 1..DetailCount /\ i - 1 \in 0..j
      BY DetailCountIsNat
    <3>2. rows[x].parent \in g[i - 1]
      BY <3>1 DEF Descends, ChildRows
    <3>3. QED
      BY <2>5, <3>1, <3>2
  <2>7. x \in g[0]
    <3>1. PICK i \in 0..j : x \in g[i]
      BY <2>5
    <3>2. i = 0 \/ i \in 1..j
      BY DetailCountIsNat
    <3>3. QED
      BY <2>6, <3>1, <3>2
  <2>8. x = detail
    BY <2>7 DEF Descends
  <2>9. QED
    BY <2>1, <2>6, <2>8, DetailCountIsNat
<1> DEFINE G == {a \in 0..DetailCount : \A b \in 0..DetailCount : a < b => g[a] \cap g[b] = {}}
<1>3. 0 \in G
  <2>1. \A b \in 0..DetailCount : 0 < b => b \in 1..DetailCount
    BY DetailCountIsNat
  <2>2. g[0] \subseteq {detail} /\ 0 \in 0..DetailCount
    BY DetailCountIsNat DEF Descends
  <2>3. QED
    BY <1>2, <2>1, <2>2
<1>4. ASSUME NEW a \in 0..(DetailCount - 1), a \in G
      PROVE  a + 1 \in G
  <2>1. a + 1 \in 1..DetailCount /\ a + 1 \in 0..DetailCount /\ (a + 1) - 1 = a
    BY DetailCountIsNat
  <2>2. ASSUME NEW b \in 0..DetailCount, a + 1 < b, NEW x \in g[a + 1] \cap g[b]
        PROVE  FALSE
    <3>1. b \in 1..DetailCount /\ b - 1 \in 0..DetailCount /\ a < b - 1
      BY <2>1, <2>2, DetailCountIsNat
    <3>2. rows[x].parent \in g[a] /\ rows[x].parent \in g[b - 1]
      BY <2>1, <2>2, <3>1 DEF Descends, ChildRows
    <3>3. QED
      BY <1>4, <3>1, <3>2
  <2>3. QED
    BY <2>1, <2>2
<1>5. \A a \in 0..DetailCount : a \in G
  <2> HIDE DEF G
  <2>1. QED
    BY <1>3, <1>4, DetailCountIsNat, UpTo
<1>6. QED
  BY <1>5

\* Without a ring the recursive queries end.
LEMMA QueriesEnd ==
    ASSUME NEW rows, DOMAIN rows \subseteq Details, Ringless(rows), NEW dict, NEW detail
    PROVE  QueryEnds(rows, dict, detail)
<1> DEFINE g == SubtreeLevels(rows, dict, detail)
           Met(k) == UNION {g[j] : j \in 0..k}
           Full(k) == Cardinality(Met(k)) >= k + 1
           G == {k \in 0..DetailCount : g[k] = {} \/ Full(k)}
<1>1. Descends(g, rows, dict, detail)
  BY QueryDescends
<1>2. \A a, b \in 0..DetailCount : a < b => g[a] \cap g[b] = {}
  <2> HIDE DEF g
  <2>1. QED
    BY <1>1, LevelsDiffer
<1> HIDE DEF g
<1>3. \A k \in 0..DetailCount : Met(k) \subseteq Details
  <2> SUFFICES ASSUME NEW k \in 0..DetailCount, NEW j \in 0..k
               PROVE  g[j] \subseteq Details
    OBVIOUS
  <2>1. j \in 0..DetailCount
    BY DetailCountIsNat
  <2>2. QED
    BY <1>1, <2>1 DEF Descends
<1>4. \A k \in 0..DetailCount : /\ IsFiniteSet(Met(k)) /\ Cardinality(Met(k)) \in Nat
                                /\ Cardinality(Met(k)) <= DetailCount
  <2> HIDE DEF Met
  <2>1. QED
    BY <1>3, DictConstants, FS_Subset, FS_CardinalityType DEF DetailCount
<1>5. 0 \in G
  <2>1. CASE g[0] = {}
    BY <2>1, DetailCountIsNat
  <2>2. CASE g[0] # {}
    <3>1. Met(0) # {} /\ 0 \in 0..DetailCount
      BY <2>2, DetailCountIsNat
    <3>2. Full(0)
      <4> HIDE DEF Met
      <4>1. Cardinality(Met(0)) \in Nat /\ Cardinality(Met(0)) # 0
        BY <1>4, <3>1, FS_EmptySet
      <4>2. QED
        BY <4>1
    <3>3. QED
      <4> HIDE DEF Full
      <4>1. QED
        BY <3>1, <3>2
  <2>3. QED
    BY <2>1, <2>2
<1>6. ASSUME NEW k \in 0..(DetailCount - 1), k \in G
      PROVE  k + 1 \in G
  <2>1. /\ k \in Nat /\ k \in 0..DetailCount /\ k + 1 \in 0..DetailCount /\ k + 1 \in 1..DetailCount
        /\ (k + 1) - 1 = k /\ \A j \in 0..k : j \in 0..DetailCount /\ j < k + 1 /\ j \in 0..(k + 1)
    BY DetailCountIsNat
  <2>2. CASE g[k] = {}
    <3>1. g[k + 1] = ChildRows(rows, dict, g[k])
      BY <1>1, <2>1 DEF Descends
    <3>2. g[k + 1] = {}
      BY <2>2, <3>1 DEF ChildRows
    <3>3. QED
      BY <2>1, <3>2
  <2>3. CASE g[k + 1] # {} /\ Full(k)
    <3>1. PICK x \in g[k + 1] : TRUE
      BY <2>3
    <3>2. x \notin Met(k)
      BY <1>2, <2>1, <3>1
    <3>3. Met(k) \cup {x} \subseteq Met(k + 1)
      <4>1. Met(k) \subseteq Met(k + 1)
        BY <2>1
      <4>2. k + 1 \in 0..(k + 1)
        BY <2>1
      <4>3. x \in Met(k + 1)
        BY <3>1, <4>2
      <4>4. QED
        BY <4>1, <4>3
    <3> HIDE DEF Met
    <3>4. IsFiniteSet(Met(k) \cup {x}) /\ Cardinality(Met(k) \cup {x}) = Cardinality(Met(k)) + 1
      BY <1>4, <2>1, <3>2, FS_AddElement
    <3>5. Cardinality(Met(k) \cup {x}) <= Cardinality(Met(k + 1))
      BY <1>4, <2>1, <3>3, FS_Subset
    <3>6. Cardinality(Met(k)) \in Nat /\ Cardinality(Met(k + 1)) \in Nat
      BY <1>4, <2>1
    <3>7. Full(k + 1)
      BY <2>1, <2>3, <3>4, <3>5, <3>6
    <3>8. QED
      <4> HIDE DEF Full
      <4>1. QED
        BY <2>1, <3>7
  <2>4. g[k] = {} \/ Full(k)
    BY <1>6
  <2>5. QED
    <3> HIDE DEF Full
    <3>1. QED
      BY <2>1, <2>2, <2>3, <2>4
<1>7. DetailCount \in G
  <2> HIDE DEF G
  <2>1. \A k \in 0..DetailCount : k \in G
    BY <1>5, <1>6, DetailCountIsNat, UpTo
  <2>2. DetailCount \in 0..DetailCount
    BY DetailCountIsNat
  <2>3. QED
    BY <2>1, <2>2
<1>8. ~Full(DetailCount)
  <2>1. DetailCount \in 0..DetailCount
    BY DetailCountIsNat
  <2> HIDE DEF Met
  <2>2. QED
    BY <1>4, <2>1, DetailCountIsNat
<1>9. g[DetailCount] = {}
  <2> HIDE DEF Full
  <2>1. QED
    BY <1>7, <1>8
<1>10. QED
  BY <1>9 DEF QueryEnds, DetailCount, g

\* What the recursive queries that end find: the row, and with any row those
\* right below it; every row but the first is below another of them.
LEMMA SubtreeFound ==
    ASSUME NEW rows, DOMAIN rows \subseteq Details, NEW dict, NEW detail, QueryEnds(rows, dict, detail)
    PROVE  /\ Subtree(rows, dict, detail) \subseteq OfDict(rows, dict)
           /\ detail \in OfDict(rows, dict) => detail \in Subtree(rows, dict, detail)
           /\ \A x \in OfDict(rows, dict) :
                  rows[x].parent \in Subtree(rows, dict, detail) => x \in Subtree(rows, dict, detail)
           /\ \A x \in Subtree(rows, dict, detail) \ {detail} :
                  rows[x].parent \in Subtree(rows, dict, detail)
<1> DEFINE g == SubtreeLevels(rows, dict, detail)
           T == UNION {g[k] : k \in 0..DetailCount}
<1>1. Descends(g, rows, dict, detail)
  BY QueryDescends
<1>2. g[DetailCount] = {}
  BY DEF QueryEnds, DetailCount
<1>3. Subtree(rows, dict, detail) = T
  BY DEF Subtree, DetailCount
<1> HIDE DEF g
<1>4. \A k \in 0..DetailCount : k = 0 \/ (k \in 1..DetailCount /\ k - 1 \in 0..DetailCount)
  BY DetailCountIsNat
<1>5. T \subseteq OfDict(rows, dict)
  <2> SUFFICES ASSUME NEW k \in 0..DetailCount, NEW x \in g[k]
               PROVE  x \in OfDict(rows, dict)
    OBVIOUS
  <2>1. QED
    BY <1>1, <1>4 DEF Descends, ChildRows
<1>6. detail \in OfDict(rows, dict) => detail \in T
  <2>1. 0 \in 0..DetailCount
    BY DetailCountIsNat
  <2>2. QED
    BY <1>1, <2>1 DEF Descends
<1>7. ASSUME NEW x \in OfDict(rows, dict), rows[x].parent \in T
      PROVE  x \in T
  <2>1. PICK k \in 0..DetailCount : rows[x].parent \in g[k]
    BY <1>7
  <2>2. k # DetailCount
    BY <1>2, <2>1
  <2>3. k + 1 \in 1..DetailCount /\ k + 1 \in 0..DetailCount /\ (k + 1) - 1 = k
    BY <2>2, DetailCountIsNat
  <2>4. x \in g[k + 1]
    BY <1>1, <2>1, <2>3 DEF Descends, ChildRows
  <2>5. QED
    BY <2>3, <2>4
<1>8. ASSUME NEW x \in T \ {detail}
      PROVE  rows[x].parent \in T
  <2>1. PICK k \in 0..DetailCount : x \in g[k]
    BY <1>8
  <2>2. k # 0
    BY <1>1, <1>8, <2>1 DEF Descends
  <2>3. k \in 1..DetailCount /\ k - 1 \in 0..DetailCount
    BY <1>4, <2>2
  <2>4. rows[x].parent \in g[k - 1]
    BY <1>1, <2>1, <2>3 DEF Descends, ChildRows
  <2>5. QED
    BY <2>3, <2>4
<1>9. QED
  <2> HIDE DEF T
  <2>1. QED
    BY <1>3, <1>5, <1>6, <1>7, <1>8

\* Below a place is a place.
LEMMA UnderIsPlace ==
    ASSUME NEW p \in Details, NEW place \in Places
    PROVE  Under(p, place) \in Places
<1> DEFINE path == Append(place[2], p)
           depth == place[1] + 1
<1>1. place[1] \in Nat /\ place[2] \in Seq(Details)
  BY DEF Places
<1>2. path \in Seq(Details)
  BY <1>1, AppendProperties
<1>3. depth \in Nat
  BY <1>1
<1>4. Under(p, place) = <<depth, path>>
  BY DEF Under
<1>5. QED
  <2> HIDE DEF path, depth
  <2>1. QED
    BY <1>2, <1>3, <1>4 DEF Places

\* The places of a subtree, level by level.
PlacedLevel(L, rows, k, above) ==
    IF k = 0 THEN [d \in L[0] |-> rows[d].place]
    ELSE [d \in L[k] |-> Under(rows[d].parent, above[rows[d].parent])]

PlacesLevels(g, L, rows, n) ==
    g = [k \in 0..n |-> PlacedLevel(L, rows, k, g[k - 1])]

LEMMA LevelsCanBePlaced ==
    ASSUME NEW L, NEW rows, NEW n \in Nat
    PROVE  \E g : PlacesLevels(g, L, rows, n)
<1> DEFINE G == {k \in Nat : \E g : PlacesLevels(g, L, rows, k)}
<1>1. 0 \in G
  <2> DEFINE g == [k \in 0..0 |-> PlacedLevel(L, rows, 0, <<>>)]
  <2>1. PlacesLevels(g, L, rows, 0)
    <3>1. \A k \in 0..0 : PlacedLevel(L, rows, k, g[k - 1]) = PlacedLevel(L, rows, 0, <<>>)
      BY DEF PlacedLevel
    <3>2. QED
      BY <3>1 DEF PlacesLevels
  <2>2. QED
    BY <2>1
<1>2. ASSUME NEW k \in 0..(n - 1), k \in G
      PROVE  k + 1 \in G
  <2>1. PICK g : PlacesLevels(g, L, rows, k)
    BY <1>2
  <2>2. k \in Nat /\ k + 1 \in Nat /\ k \in 0..k
    OBVIOUS
  <2> DEFINE h == [j \in 0..(k + 1) |-> IF j = k + 1 THEN PlacedLevel(L, rows, k + 1, g[k]) ELSE g[j]]
  <2>3. ASSUME NEW j \in 0..(k + 1)
        PROVE  h[j] = PlacedLevel(L, rows, j, h[j - 1])
    <3>1. CASE j = k + 1
      <4>1. h[j] = PlacedLevel(L, rows, k + 1, g[k]) /\ h[k] = g[k] /\ j - 1 = k
        BY <2>2, <3>1
      <4>2. QED
        BY <3>1, <4>1
    <3>2. CASE j # k + 1
      <4>1. j \in 0..k
        BY <2>2, <3>2
      <4>2. h[j] = g[j] /\ g[j] = PlacedLevel(L, rows, j, g[j - 1])
        BY <2>1, <2>2, <4>1 DEF PlacesLevels
      <4>3. CASE j = 0
        BY <4>2, <4>3 DEF PlacedLevel
      <4>4. CASE j # 0
        <5>1. j - 1 \in 0..(k + 1) /\ j - 1 # k + 1
          BY <2>2, <4>1, <4>4
        <5>2. h[j - 1] = g[j - 1]
          BY <5>1
        <5>3. QED
          BY <4>2, <5>2
      <4>5. QED
        BY <4>3, <4>4
    <3>3. QED
      BY <3>1, <3>2
  <2>4. h = [j \in 0..(k + 1) |-> h[j]]
    OBVIOUS
  <2>5. PlacesLevels(h, L, rows, k + 1)
    <3> HIDE DEF h
    <3>1. QED
      BY <2>3, <2>4 DEF PlacesLevels
  <2>6. QED
    BY <2>2, <2>5
<1>3. \A k \in 0..n : k \in G
  <2> HIDE DEF G
  <2>1. QED
    BY <1>1, <1>2, UpTo
<1>4. n \in G
  BY <1>3
<1>5. QED
  BY <1>4

\* The plan takes the place of a row from the level where the row is found.
PlannedBy(g, rows, q) ==
    /\ PlacesLevels(g, SubtreeLevels(rows, q.dict, q.detail), rows, DetailCount)
    /\ BelowPlaced(rows, q) =
           [d \in Subtree(rows, q.dict, q.detail) \ {q.detail} |->
               g[CHOOSE k \in 1..DetailCount : d \in SubtreeLevels(rows, q.dict, q.detail)[k]][d]]

LEMMA PlanTaken ==
    ASSUME NEW rows, NEW q
    PROVE  \E g : PlannedBy(g, rows, q)
<1> DEFINE levels == SubtreeLevels(rows, q.dict, q.detail)
           Step(place) == [k \in 0..DetailCount |->
               IF k = 0 THEN [d \in levels[0] |-> rows[d].place]
               ELSE [d \in levels[k] |-> Under(rows[d].parent, place[k - 1][rows[d].parent])]]
           place == CHOOSE h : h = Step(h)
<1>1. PICK g : PlacesLevels(g, levels, rows, DetailCount)
  BY LevelsCanBePlaced, DetailCountIsNat
<1>2. \A h : PlacesLevels(h, levels, rows, DetailCount) <=> h = Step(h)
  BY DEF PlacesLevels, PlacedLevel
<1>3. place = Step(place)
  <2> HIDE DEF Step
  <2>1. QED
    BY <1>1, <1>2
<1>4. PlacesLevels(place, levels, rows, DetailCount)
  <2> HIDE DEF Step, place
  <2>1. QED
    BY <1>2, <1>3
<1>5. BelowPlaced(rows, q) =
          [d \in Subtree(rows, q.dict, q.detail) \ {q.detail} |->
              place[CHOOSE k \in 1..DetailCount : d \in levels[k]][d]]
  BY DEF BelowPlaced, DetailCount
<1>6. PlannedBy(place, rows, q)
  <2> HIDE DEF place
  <2>1. QED
    BY <1>4, <1>5 DEF PlannedBy
<1>7. QED
  BY <1>6

\* A row below the first is found at a level below the first.
LEMMA FoundBelow ==
    ASSUME NEW rows, DOMAIN rows \subseteq Details, NEW dict, NEW detail,
           NEW d \in Subtree(rows, dict, detail) \ {detail}
    PROVE  \E k \in 1..DetailCount : d \in SubtreeLevels(rows, dict, detail)[k]
<1> DEFINE g == SubtreeLevels(rows, dict, detail)
<1>1. Descends(g, rows, dict, detail)
  BY QueryDescends
<1>2. PICK k \in 0..DetailCount : d \in g[k]
  BY DEF Subtree, DetailCount
<1> HIDE DEF g
<1>3. k # 0
  BY <1>1, <1>2 DEF Descends
<1>4. k \in 1..DetailCount
  BY <1>3, DetailCountIsNat
<1>5. QED
  BY <1>2, <1>4 DEF g

\* The rows are rows, so the places are places.
LEMMA PlannedPlaces ==
    ASSUME NEW rows, RowsTyped(rows), NEW q
    PROVE  /\ DOMAIN BelowPlaced(rows, q) = Subtree(rows, q.dict, q.detail) \ {q.detail}
           /\ \A d \in DOMAIN BelowPlaced(rows, q) : BelowPlaced(rows, q)[d] \in Places
<1> DEFINE L == SubtreeLevels(rows, q.dict, q.detail)
           below == Subtree(rows, q.dict, q.detail) \ {q.detail}
<1>1. Descends(L, rows, q.dict, q.detail)
  BY QueryDescends DEF RowsTyped
<1>0. PICK g : PlannedBy(g, rows, q)
  BY PlanTaken
<1>2. /\ PlacesLevels(g, L, rows, DetailCount)
      /\ BelowPlaced(rows, q) = [d \in below |-> g[CHOOSE k \in 1..DetailCount : d \in L[k]][d]]
  BY <1>0 DEF PlannedBy
<1>3. \A d \in below : \E k \in 1..DetailCount : d \in L[k]
  BY FoundBelow DEF RowsTyped
<1> HIDE DEF L, below
<1> DEFINE G == {k \in 0..DetailCount : \A d \in L[k] : g[k][d] \in Places}
<1>4. \A k \in 0..DetailCount : g[k] = PlacedLevel(L, rows, k, g[k - 1])
  BY <1>2 DEF PlacesLevels
<1>5. 0 \in G
  <2>1. 0 \in 0..DetailCount
    BY DetailCountIsNat
  <2>2. \A d \in L[0] : d \in DOMAIN rows /\ g[0][d] = rows[d].place
    BY <1>1, <1>4, <2>1 DEF PlacedLevel, Descends, OfDict
  <2>3. \A d \in DOMAIN rows : rows[d].place \in Places
    BY DEF RowsTyped, DetailRows
  <2>4. QED
    BY <2>1, <2>2, <2>3
<1>6. ASSUME NEW k \in 0..(DetailCount - 1), k \in G
      PROVE  k + 1 \in G
  <2>1. k + 1 \in 0..DetailCount /\ k + 1 \in 1..DetailCount /\ (k + 1) - 1 = k /\ k + 1 # 0
        /\ k \in 0..DetailCount
    BY DetailCountIsNat
  <2>2. ASSUME NEW d \in L[k + 1]
        PROVE  g[k + 1][d] \in Places
    <3>1. rows[d].parent \in L[k]
      BY <1>1, <2>1, <2>2 DEF Descends, ChildRows
    <3>2. rows[d].parent \in Details
      BY <1>1, <2>1, <3>1 DEF Descends
    <3>3. g[k][rows[d].parent] \in Places
      BY <1>6, <3>1
    <3>4. g[k + 1][d] = Under(rows[d].parent, g[k][rows[d].parent])
      <4>1. g[k + 1] = PlacedLevel(L, rows, k + 1, g[k])
        BY <1>4, <2>1
      <4>2. QED
        BY <2>1, <2>2, <4>1 DEF PlacedLevel
    <3>5. QED
      BY <3>2, <3>3, <3>4, UnderIsPlace
  <2>3. QED
    BY <2>1, <2>2
<1>7. \A k \in 0..DetailCount : k \in G
  <2> HIDE DEF G
  <2>1. QED
    BY <1>5, <1>6, DetailCountIsNat, UpTo
<1>8. ASSUME NEW d \in below
      PROVE  BelowPlaced(rows, q)[d] \in Places
  <2> DEFINE k == CHOOSE k \in 1..DetailCount : d \in L[k]
  <2>1. k \in 1..DetailCount /\ d \in L[k]
    BY <1>3, <1>8
  <2>2. BelowPlaced(rows, q)[d] = g[k][d]
    BY <1>2, <1>8
  <2> HIDE DEF k
  <2>3. k \in 0..DetailCount
    BY <2>1, DetailCountIsNat
  <2>4. QED
    BY <1>7, <2>1, <2>2, <2>3
<1>9. DOMAIN BelowPlaced(rows, q) = below
  BY <1>2
<1>10. QED
  BY <1>8, <1>9 DEF below

\* Where there is no ring, every planned place is right below the one of the
\* row's parent.
LEMMA PlansFollow ==
    ASSUME NEW rows, RowsTyped(rows), Ringless(rows), NEW q,
           NEW d \in Subtree(rows, q.dict, q.detail) \ {q.detail}
    PROVE  BelowPlaced(rows, q)[d] =
               Under(rows[d].parent,
                     IF rows[d].parent = q.detail THEN rows[q.detail].place
                     ELSE BelowPlaced(rows, q)[rows[d].parent])
<1> DEFINE L == SubtreeLevels(rows, q.dict, q.detail)
           below == Subtree(rows, q.dict, q.detail) \ {q.detail}
           p == rows[d].parent
<1>1. Descends(L, rows, q.dict, q.detail)
  BY QueryDescends DEF RowsTyped
<1>0. PICK g : PlannedBy(g, rows, q)
  BY PlanTaken
<1>2. /\ PlacesLevels(g, L, rows, DetailCount)
      /\ BelowPlaced(rows, q) = [e \in below |-> g[CHOOSE k \in 1..DetailCount : e \in L[k]][e]]
  BY <1>0 DEF PlannedBy
<1>3. \A e \in below : \E k \in 1..DetailCount : e \in L[k]
  BY FoundBelow DEF RowsTyped
<1>4. \A a, b \in 0..DetailCount : a < b => L[a] \cap L[b] = {}
  <2> HIDE DEF L
  <2>1. QED
    BY <1>1, LevelsDiffer
<1>5. p \in Subtree(rows, q.dict, q.detail)
  BY SubtreeFound, QueriesEnd DEF RowsTyped
<1>6. d \in below /\ (p # q.detail => p \in below)
  BY <1>5
<1> HIDE DEF L, below, p
<1>7. ASSUME NEW e \in below, NEW k \in 1..DetailCount, e \in L[k]
      PROVE  BelowPlaced(rows, q)[e] = g[k][e]
  <2> DEFINE j == CHOOSE j \in 1..DetailCount : e \in L[j]
  <2>1. j \in 1..DetailCount /\ e \in L[j]
    BY <1>7
  <2>2. BelowPlaced(rows, q)[e] = g[j][e]
    BY <1>2, <1>7
  <2> HIDE DEF j
  <2>3. j \in 0..DetailCount /\ k \in 0..DetailCount /\ ~(j < k) /\ ~(k < j)
    BY <1>4, <1>7, <2>1, DetailCountIsNat
  <2>4. j = k
    BY <2>3, DetailCountIsNat
  <2>5. QED
    BY <2>2, <2>4
<1>8. PICK k \in 1..DetailCount : d \in L[k]
  BY <1>3, <1>6
<1>9. k \in 0..DetailCount /\ k # 0 /\ k - 1 \in 0..DetailCount
  BY DetailCountIsNat
<1>10. p \in L[k - 1]
  BY <1>1, <1>8, <1>9 DEF Descends, ChildRows, p
<1>11. g[k][d] = Under(p, g[k - 1][p])
  BY <1>2, <1>8, <1>9 DEF PlacesLevels, PlacedLevel, p
<1>12. CASE p = q.detail
  <2>1. 0 \in 0..DetailCount /\ p \in L[0]
    <3>1. q.detail \in OfDict(rows, q.dict)
      BY <1>5, <1>12, SubtreeFound, QueriesEnd DEF RowsTyped
    <3>2. QED
      BY <1>1, <1>12, <3>1, DetailCountIsNat DEF Descends
  <2>2. k - 1 = 0
    BY <1>4, <1>9, <1>10, <2>1, DetailCountIsNat
  <2>3. g[k - 1][p] = rows[p].place
    BY <1>2, <2>1, <2>2 DEF PlacesLevels, PlacedLevel
  <2>4. QED
    BY <1>6, <1>7, <1>8, <1>11, <1>12, <2>3 DEF p
<1>13. CASE p # q.detail
  <2>1. k - 1 # 0
    <3>1. p \notin L[0]
      BY <1>1, <1>13 DEF Descends
    <3>2. QED
      BY <1>10, <3>1
  <2>2. k - 1 \in 1..DetailCount
    BY <1>9, <2>1, DetailCountIsNat
  <2>3. BelowPlaced(rows, q)[p] = g[k - 1][p]
    BY <1>6, <1>7, <1>10, <1>13, <2>2
  <2>4. QED
    BY <1>6, <1>7, <1>8, <1>11, <1>13, <2>3 DEF p
<1>14. QED
  BY <1>12, <1>13

-----------------------------------------------------------------------------
(* The tree of a dictionary and the columns of its rows.                   *)

Top == <<0, <<>>>>

\* Every row is a root or right below one of its dictionary, and its place says so.
Placed(rows) ==
    \A d \in DOMAIN rows :
        IF rows[d].parent = NoDetail THEN rows[d].place = Top
        ELSE /\ rows[d].parent \in OfDict(rows, rows[d].dict)
             /\ rows[d].place = Under(rows[d].parent, rows[rows[d].parent].place)

Depth(rows, d) == rows[d].place[1]
Path(rows, d) == rows[d].place[2]

LEMMA PlaceParts ==
    ASSUME NEW rows, RowsTyped(rows), Placed(rows), NEW d \in DOMAIN rows
    PROVE  /\ d \in Details /\ rows[d] \in DetailRows
           /\ Depth(rows, d) \in Nat /\ Path(rows, d) \in Seq(Details)
           /\ rows[d].place = <<Depth(rows, d), Path(rows, d)>>
           /\ rows[d].parent = NoDetail => Depth(rows, d) = 0 /\ Path(rows, d) = <<>>
           /\ rows[d].parent # NoDetail =>
                  /\ rows[d].parent \in OfDict(rows, rows[d].dict) /\ rows[d].parent \in DOMAIN rows
                  /\ Depth(rows, d) = Depth(rows, rows[d].parent) + 1
                  /\ Path(rows, d) = Append(Path(rows, rows[d].parent), rows[d].parent)
<1>1. d \in Details /\ rows[d] \in DetailRows
  BY DEF RowsTyped
<1>2. rows[d].place \in Places
  BY <1>1 DEF DetailRows
<1>3. Depth(rows, d) \in Nat /\ Path(rows, d) \in Seq(Details)
      /\ rows[d].place = <<Depth(rows, d), Path(rows, d)>>
  BY <1>2 DEF Places, Depth, Path
<1>4. ASSUME rows[d].parent = NoDetail
      PROVE  Depth(rows, d) = 0 /\ Path(rows, d) = <<>>
  BY <1>4 DEF Placed, Top, Depth, Path
<1>5. ASSUME rows[d].parent # NoDetail
      PROVE  /\ rows[d].parent \in OfDict(rows, rows[d].dict) /\ rows[d].parent \in DOMAIN rows
             /\ rows[d].place = <<Depth(rows, rows[d].parent) + 1,
                                  Append(Path(rows, rows[d].parent), rows[d].parent)>>
  BY <1>5 DEF Placed, Under, Depth, Path, OfDict
<1>6. QED
  BY <1>1, <1>3, <1>4, <1>5 DEF Depth, Path

\* The depth is the length of the path, and the path names rows of the dictionary.
LEMMA PathsAreBranches ==
    ASSUME NEW rows, RowsTyped(rows), Placed(rows), NEW d \in DOMAIN rows
    PROVE  /\ Depth(rows, d) = Len(Path(rows, d))
           /\ \A n \in DOMAIN Path(rows, d) : Path(rows, d)[n] \in OfDict(rows, rows[d].dict)
<1> DEFINE Branch(e) == /\ Depth(rows, e) = Len(Path(rows, e))
                        /\ \A n \in DOMAIN Path(rows, e) : Path(rows, e)[n] \in OfDict(rows, rows[e].dict)
           G == {k \in Nat : \A e \in DOMAIN rows : Depth(rows, e) = k => Branch(e)}
<1>1. 0 \in G
  <2> SUFFICES ASSUME NEW e \in DOMAIN rows, Depth(rows, e) = 0
               PROVE  Branch(e)
    OBVIOUS
  <2>1. rows[e].parent = NoDetail
    <3>1. SUFFICES ASSUME rows[e].parent # NoDetail
                   PROVE  FALSE
      OBVIOUS
    <3>2. rows[e].parent \in DOMAIN rows /\ Depth(rows, e) = Depth(rows, rows[e].parent) + 1
      BY <3>1, PlaceParts
    <3>3. Depth(rows, rows[e].parent) \in Nat
      BY <3>2, PlaceParts
    <3>4. QED
      BY <3>2, <3>3
  <2>2. Path(rows, e) = <<>>
    BY <2>1, PlaceParts
  <2>3. QED
    BY <2>2
<1>2. ASSUME NEW k \in 0..(Depth(rows, d) - 1), k \in G
      PROVE  k + 1 \in G
  <2>1. k \in Nat /\ k + 1 \in Nat /\ k + 1 # 0
    BY PlaceParts
  <2> SUFFICES ASSUME NEW e \in DOMAIN rows, Depth(rows, e) = k + 1
               PROVE  Branch(e)
    BY <2>1
  <2> DEFINE p == rows[e].parent
  <2>2. p # NoDetail
    BY <2>1, PlaceParts
  <2>3. /\ p \in OfDict(rows, rows[e].dict) /\ p \in DOMAIN rows
        /\ Depth(rows, e) = Depth(rows, p) + 1 /\ Path(rows, e) = Append(Path(rows, p), p)
    BY <2>2, PlaceParts
  <2>4. Depth(rows, p) \in Nat /\ Path(rows, p) \in Seq(Details) /\ p \in Details
    BY <2>3, PlaceParts
  <2>5. rows[p].dict = rows[e].dict
    BY <2>3 DEF OfDict
  <2> HIDE DEF p
  <2>6. Depth(rows, p) = k
    BY <2>1, <2>3, <2>4
  <2>7. Branch(p)
    BY <1>2, <2>3, <2>6
  <2>8. /\ Len(Path(rows, e)) = Len(Path(rows, p)) + 1
        /\ Path(rows, e)[Len(Path(rows, p)) + 1] = p
        /\ \A n \in 1..Len(Path(rows, p)) : Path(rows, e)[n] = Path(rows, p)[n]
        /\ Path(rows, e) \in Seq(Details)
    BY <2>3, <2>4, AppendProperties
  <2>9. ASSUME NEW n \in DOMAIN Path(rows, e)
        PROVE  Path(rows, e)[n] \in OfDict(rows, rows[e].dict)
    <3>1. n \in 1..(Len(Path(rows, p)) + 1) /\ Len(Path(rows, p)) \in Nat
      BY <2>4, <2>8
    <3>2. CASE n = Len(Path(rows, p)) + 1
      BY <2>3, <2>8, <3>2
    <3>3. CASE n # Len(Path(rows, p)) + 1
      <4>1. n \in 1..Len(Path(rows, p)) /\ n \in DOMAIN Path(rows, p)
        BY <2>4, <3>1, <3>3
      <4>2. QED
        BY <2>5, <2>7, <2>8, <4>1
    <3>4. QED
      BY <3>2, <3>3
  <2>10. Depth(rows, e) = Len(Path(rows, e))
    BY <2>3, <2>7, <2>8
  <2>11. QED
    BY <2>9, <2>10
<1>3. Depth(rows, d) \in Nat
  BY PlaceParts
<1>4. Depth(rows, d) \in G
  <2> HIDE DEF G
  <2>1. \A k \in 0..Depth(rows, d) : k \in G
    BY <1>1, <1>2, <1>3, UpTo
  <2>2. QED
    BY <1>3, <2>1
<1>5. QED
  <2>1. Branch(d)
    BY <1>4
  <2>2. QED
    BY <2>1

\* No row is deeper than there are details.
LEMMA DepthsAreBounded ==
    ASSUME NEW rows, RowsTyped(rows), Placed(rows), NEW d \in DOMAIN rows
    PROVE  Depth(rows, d) \in 0..DetailCount
<1> DEFINE m == Depth(rows, d)
           Low(k) == {x \in DOMAIN rows : Depth(rows, x) <= k}
           G == {j \in Nat : \E x \in DOMAIN rows : Depth(rows, x) = m - j}
           H == {k \in Nat : Cardinality(Low(k)) >= k + 1}
<1>1. m \in Nat
  BY PlaceParts
<1>2. 0 \in G
  <2>1. Depth(rows, d) = m - 0
    BY <1>1
  <2>2. QED
    BY <2>1
<1>3. ASSUME NEW j \in 0..(m - 1), j \in G
      PROVE  j + 1 \in G
  <2>1. PICK x \in DOMAIN rows : Depth(rows, x) = m - j
    BY <1>3
  <2> HIDE DEF m
  <2>2. rows[x].parent # NoDetail
    BY <1>1, <2>1, PlaceParts
  <2>3. rows[x].parent \in DOMAIN rows /\ Depth(rows, x) = Depth(rows, rows[x].parent) + 1
    BY <2>2, PlaceParts
  <2>4. Depth(rows, rows[x].parent) \in Nat
    BY <2>3, PlaceParts
  <2>5. Depth(rows, rows[x].parent) = m - (j + 1)
    BY <1>1, <2>1, <2>3, <2>4
  <2>6. QED
    BY <2>3, <2>5
<1>4. \A j \in 0..m : j \in G
  <2> HIDE DEF G, m
  <2>1. QED
    BY <1>1, <1>2, <1>3, UpTo
<1>5. \A k \in 0..m : \E x \in DOMAIN rows : Depth(rows, x) = k
  <2> SUFFICES ASSUME NEW k \in 0..m
               PROVE  \E x \in DOMAIN rows : Depth(rows, x) = k
    OBVIOUS
  <2>1. m - k \in 0..m /\ m - (m - k) = k
    BY <1>1
  <2>2. m - k \in G
    <3> HIDE DEF G
    <3>1. QED
      BY <1>4, <2>1
  <2>3. QED
    BY <2>1, <2>2
<1> HIDE DEF m
<1>6. \A k : /\ IsFiniteSet(Low(k)) /\ Cardinality(Low(k)) \in Nat
             /\ Cardinality(Low(k)) <= DetailCount
  <2>1. \A k : Low(k) \subseteq Details
    BY DEF RowsTyped
  <2> HIDE DEF Low
  <2>2. QED
    BY <2>1, DictConstants, FS_Subset, FS_CardinalityType DEF DetailCount
<1>7. 0 \in H
  <2>1. PICK x \in DOMAIN rows : Depth(rows, x) = 0
    BY <1>1, <1>5
  <2>2. Low(0) # {}
    BY <2>1
  <2>3. Cardinality(Low(0)) \in Nat /\ Cardinality(Low(0)) # 0
    <3> HIDE DEF Low
    <3>1. QED
      BY <1>6, <2>2, FS_EmptySet
  <2>4. QED
    <3> HIDE DEF Low
    <3>1. QED
      BY <2>3
<1>8. ASSUME NEW k \in 0..(m - 1), k \in H
      PROVE  k + 1 \in H
  <2>1. k \in Nat /\ k + 1 \in 0..m
    BY <1>1
  <2>2. PICK x \in DOMAIN rows : Depth(rows, x) = k + 1
    BY <1>5, <2>1
  <2>3. x \notin Low(k)
    BY <2>1, <2>2
  <2>4. \A y \in DOMAIN rows : Depth(rows, y) \in Nat
    BY PlaceParts
  <2>5. Low(k) \cup {x} \subseteq Low(k + 1)
    BY <2>1, <2>2, <2>4
  <2>6. Cardinality(Low(k)) >= k + 1
    BY <1>8
  <2> HIDE DEF Low
  <2>7. IsFiniteSet(Low(k) \cup {x}) /\ Cardinality(Low(k) \cup {x}) = Cardinality(Low(k)) + 1
    BY <1>6, <2>3, FS_AddElement
  <2>8. Cardinality(Low(k) \cup {x}) <= Cardinality(Low(k + 1))
    BY <1>6, <2>5, FS_Subset
  <2>9. Cardinality(Low(k)) \in Nat /\ Cardinality(Low(k + 1)) \in Nat
    BY <1>6
  <2>10. QED
    BY <2>1, <2>6, <2>7, <2>8, <2>9
<1>9. Cardinality(Low(m)) >= m + 1
  <2> HIDE DEF Low
  <2>1. \A k \in 0..m : k \in H
    <3> HIDE DEF H
    <3>1. QED
      BY <1>1, <1>7, <1>8, UpTo
  <2>2. QED
    BY <1>1, <2>1
<1>10. m <= DetailCount
  <2> HIDE DEF Low
  <2>1. QED
    BY <1>1, <1>6, <1>9, DetailCountIsNat
<1>11. QED
  BY <1>1, <1>10, DetailCountIsNat DEF m

\* The level of the tree of the answers below the given one.
NextLevel(rows, dict, X) ==
    UNION {{<<d, Append(x[2], x[1])>> : d \in ChildrenOf(rows, dict, x[1])} : x \in X}

FirstLevel(rows, dict) == {<<d, <<>>>> : d \in ChildrenOf(rows, dict, NoDetail)}

ShownBy(g, rows, dict) ==
    /\ g[0] = FirstLevel(rows, dict)
    /\ \A k \in 1..DetailCount : g[k] = NextLevel(rows, dict, g[k - 1])
    /\ Shown(rows, dict) = UNION {g[k] : k \in 0..DetailCount}

\* The tree of the answers is built level by level.
LEMMA TreeBuilt ==
    ASSUME NEW rows, DOMAIN rows \subseteq Details, NEW dict
    PROVE  \E g : ShownBy(g, rows, dict)
<1> DEFINE D == SUBSET (Details \X Seq(Details))
           F == [X \in D |-> NextLevel(rows, dict, X)]
           first == FirstLevel(rows, dict)
           Step(level) == [k \in 0..DetailCount |->
               IF k = 0 THEN {<<d, <<>>>> : d \in ChildrenOf(rows, dict, NoDetail)}
               ELSE UNION {{<<d, Append(x[2], x[1])>> : d \in ChildrenOf(rows, dict, x[1])}
                              : x \in level[k - 1]}]
           level == CHOOSE h : h = Step(h)
<1>1. \A p : ChildrenOf(rows, dict, p) \subseteq Details
  BY DEF ChildrenOf, OfDict
<1>2. ASSUME NEW X \in D
      PROVE  NextLevel(rows, dict, X) \in D
  <2> SUFFICES ASSUME NEW x \in X, NEW d \in ChildrenOf(rows, dict, x[1])
               PROVE  <<d, Append(x[2], x[1])>> \in Details \X Seq(Details)
    BY DEF NextLevel
  <2>1. x[1] \in Details /\ x[2] \in Seq(Details)
    OBVIOUS
  <2>2. Append(x[2], x[1]) \in Seq(Details)
    BY <2>1, AppendProperties
  <2>3. QED
    BY <1>1, <2>2
<1>3. F \in [D -> D]
  <2> HIDE DEF D
  <2>1. QED
    BY <1>2
<1>4. first \in D
  <2>1. <<>> \in Seq(Details)
    OBVIOUS
  <2> DEFINE none == <<>>
  <2>2. none \in Seq(Details) /\ FirstLevel(rows, dict) = {<<d, none>> : d \in ChildrenOf(rows, dict, NoDetail)}
    BY <2>1 DEF FirstLevel
  <2> HIDE DEF none
  <2>3. QED
    BY <1>1, <2>2
<1>5. PICK g : IsIterate(g, D, F, first, DetailCount)
  <2> HIDE DEF F, D, first
  <2>1. QED
    BY <1>3, <1>4, DetailCountIsNat, Iterates
<1>6. \A h, k : k \in 0..DetailCount =>
          Step(h)[k] = IF k = 0 THEN first ELSE NextLevel(rows, dict, h[k - 1])
  BY DEF NextLevel, FirstLevel
<1>7. g = Step(g)
  <2>1. ASSUME NEW k \in 0..DetailCount
        PROVE  g[k] = IF k = 0 THEN first ELSE NextLevel(rows, dict, g[k - 1])
    <3>1. CASE k = 0
      <4> HIDE DEF F, D, first
      <4>1. QED
        BY <1>5, <3>1 DEF IsIterate
    <3>2. CASE k # 0
      <4>1. k \in 1..DetailCount /\ k - 1 \in 0..DetailCount
        BY <3>2, DetailCountIsNat
      <4>2. g[k] = F[g[k - 1]] /\ g[k - 1] \in D
        <5> HIDE DEF F, D, first
        <5>1. QED
          BY <1>5, <4>1 DEF IsIterate
      <4>3. g[k] = NextLevel(rows, dict, g[k - 1])
        <5> HIDE DEF D, first
        <5>1. QED
          BY <4>2
      <4>4. QED
        BY <3>2, <4>3
    <3>3. QED
      BY <3>1, <3>2
  <2>2. DOMAIN g = 0..DetailCount /\ g = [k \in 0..DetailCount |-> g[k]]
    <3> HIDE DEF F, D, first
    <3>1. QED
      BY <1>5 DEF IsIterate
  <2>3. DOMAIN Step(g) = 0..DetailCount /\ Step(g) = [k \in 0..DetailCount |-> Step(g)[k]]
    OBVIOUS
  <2>4. QED
    <3> HIDE DEF Step, first
    <3>1. \A k \in 0..DetailCount : g[k] = Step(g)[k]
      BY <1>6, <2>1
    <3>2. QED
      BY <2>2, <2>3, <3>1
<1>8. level = Step(level)
  <2> HIDE DEF Step
  <2>1. QED
    BY <1>7
<1>9. Shown(rows, dict) = UNION {level[k] : k \in 0..DetailCount}
  BY DEF Shown, DetailCount
<1>10. ShownBy(level, rows, dict)
  <2> HIDE DEF level, Step
  <2>1. \A k \in 0..DetailCount : level[k] = IF k = 0 THEN first ELSE NextLevel(rows, dict, level[k - 1])
    BY <1>6, <1>8
  <2>2. level[0] = FirstLevel(rows, dict)
    BY <2>1, DetailCountIsNat
  <2>3. ASSUME NEW k \in 1..DetailCount
        PROVE  level[k] = NextLevel(rows, dict, level[k - 1])
    <3>1. k \in 0..DetailCount /\ k # 0
      BY DetailCountIsNat
    <3>2. QED
      <4> HIDE DEF first
      <4>1. QED
        BY <2>1, <3>1
  <2>4. QED
    BY <1>9, <2>2, <2>3 DEF ShownBy
<1>11. QED
  BY <1>10

\* Where every place says where its row is, the level of the tree that holds a
\* row is its depth, and the branch to it is its path.
LEMMA TreeShowsPlaces ==
    ASSUME NEW rows, RowsTyped(rows), Placed(rows), NEW dict
    PROVE  Shown(rows, dict) = {<<d, Path(rows, d)>> : d \in OfDict(rows, dict)}
<1>1. PICK g : ShownBy(g, rows, dict)
  BY TreeBuilt DEF RowsTyped
<1> DEFINE At(k) == {d \in OfDict(rows, dict) : Depth(rows, d) = k}
           G == {k \in 0..DetailCount : g[k] = {<<d, Path(rows, d)>> : d \in At(k)}}
<1>2. \A d \in OfDict(rows, dict) : d \in DOMAIN rows /\ rows[d].dict = dict
  BY DEF OfDict
<1>3. 0 \in G
  <2>1. \A d \in ChildrenOf(rows, dict, NoDetail) : d \in At(0) /\ Path(rows, d) = <<>>
    BY <1>2, PlaceParts DEF ChildrenOf
  <2>2. ASSUME NEW d \in At(0)
        PROVE  d \in ChildrenOf(rows, dict, NoDetail) /\ Path(rows, d) = <<>>
    <3>1. rows[d].parent = NoDetail
      <4>1. SUFFICES ASSUME rows[d].parent # NoDetail
                     PROVE  FALSE
        OBVIOUS
      <4>2. rows[d].parent \in DOMAIN rows /\ Depth(rows, d) = Depth(rows, rows[d].parent) + 1
        BY <1>2, <4>1, PlaceParts
      <4>3. Depth(rows, rows[d].parent) \in Nat
        BY <4>2, PlaceParts
      <4>4. QED
        BY <4>2, <4>3
    <3>2. QED
      BY <1>2, <3>1, PlaceParts DEF ChildrenOf
  <2>3. FirstLevel(rows, dict) = {<<d, Path(rows, d)>> : d \in At(0)}
    <3> HIDE DEF At
    <3>1. QED
      BY <2>1, <2>2 DEF FirstLevel
  <2>4. QED
    BY <1>1, <2>3, DetailCountIsNat DEF ShownBy
<1>4. ASSUME NEW k \in 0..(DetailCount - 1), k \in G
      PROVE  k + 1 \in G
  <2>1. k \in Nat /\ k + 1 \in 1..DetailCount /\ k + 1 \in 0..DetailCount /\ (k + 1) - 1 = k
    BY DetailCountIsNat
  <2>2. g[k + 1] = NextLevel(rows, dict, g[k])
    BY <1>1, <2>1 DEF ShownBy
  <2>3. g[k] = {<<p, Path(rows, p)>> : p \in At(k)}
    BY <1>4
  <2>5. ASSUME NEW p \in At(k), NEW d \in ChildrenOf(rows, dict, p)
        PROVE  d \in At(k + 1) /\ Path(rows, d) = Append(Path(rows, p), p)
    <3>1. d \in OfDict(rows, dict) /\ rows[d].parent = p /\ p \in DOMAIN rows /\ d \in DOMAIN rows
      BY <1>2, <2>5 DEF ChildrenOf
    <3>2. p # NoDetail
      BY <3>1, PlaceParts, DictConstants
    <3>3. QED
      BY <3>1, <3>2, PlaceParts
  <2>6. ASSUME NEW d \in At(k + 1)
        PROVE  \E p \in At(k) : d \in ChildrenOf(rows, dict, p) /\ Path(rows, d) = Append(Path(rows, p), p)
    <3>1. d \in DOMAIN rows /\ rows[d].dict = dict /\ d \in OfDict(rows, dict)
      BY <1>2
    <3>2. rows[d].parent # NoDetail
      BY <2>1, <3>1, PlaceParts
    <3>3. /\ rows[d].parent \in OfDict(rows, dict) /\ rows[d].parent \in DOMAIN rows
          /\ Depth(rows, d) = Depth(rows, rows[d].parent) + 1
          /\ Path(rows, d) = Append(Path(rows, rows[d].parent), rows[d].parent)
      BY <3>1, <3>2, PlaceParts
    <3>4. Depth(rows, rows[d].parent) \in Nat
      BY <3>3, PlaceParts
    <3>5. rows[d].parent \in At(k)
      BY <2>1, <3>3, <3>4
    <3>6. d \in ChildrenOf(rows, dict, rows[d].parent)
      BY <3>1 DEF ChildrenOf
    <3>7. QED
      BY <3>3, <3>5, <3>6
  <2>7. g[k + 1] = {<<d, Path(rows, d)>> : d \in At(k + 1)}
    <3> HIDE DEF At
    <3>1. ASSUME NEW y \in g[k + 1]
          PROVE  \E d \in At(k + 1) : y = <<d, Path(rows, d)>>
      <4>1. PICK x \in g[k] : \E d \in ChildrenOf(rows, dict, x[1]) : y = <<d, Append(x[2], x[1])>>
        BY <2>2 DEF NextLevel
      <4>2. PICK d \in ChildrenOf(rows, dict, x[1]) : y = <<d, Append(x[2], x[1])>>
        BY <4>1
      <4>3. PICK p \in At(k) : x = <<p, Path(rows, p)>>
        BY <2>3
      <4>4. x[1] = p /\ x[2] = Path(rows, p)
        BY <4>3
      <4>5. QED
        BY <2>5, <4>2, <4>4
    <3>2. ASSUME NEW d \in At(k + 1)
          PROVE  <<d, Path(rows, d)>> \in g[k + 1]
      <4>1. PICK p \in At(k) : d \in ChildrenOf(rows, dict, p) /\ Path(rows, d) = Append(Path(rows, p), p)
        BY <2>6
      <4> DEFINE x == <<p, Path(rows, p)>>
      <4>2. x \in g[k] /\ x[1] = p /\ x[2] = Path(rows, p)
        BY <2>3
      <4> HIDE DEF x
      <4>3. <<d, Append(x[2], x[1])>> \in g[k + 1]
        BY <2>2, <4>1, <4>2 DEF NextLevel
      <4>4. QED
        BY <4>1, <4>2, <4>3
    <3>3. QED
      BY <3>1, <3>2
  <2>8. QED
    <3> HIDE DEF At
    <3>1. QED
      BY <2>1, <2>7
<1>5. \A k \in 0..DetailCount : k \in G
  <2> HIDE DEF G
  <2>1. QED
    BY <1>3, <1>4, DetailCountIsNat, UpTo
<1>6. \A d \in OfDict(rows, dict) : Depth(rows, d) \in 0..DetailCount
  BY <1>2, DepthsAreBounded
<1>7. Shown(rows, dict) = UNION {g[k] : k \in 0..DetailCount}
  BY <1>1 DEF ShownBy
<1>8. \A k \in 0..DetailCount : g[k] = {<<d, Path(rows, d)>> : d \in At(k)}
  BY <1>5
<1>9. ASSUME NEW d \in OfDict(rows, dict)
      PROVE  <<d, Path(rows, d)>> \in Shown(rows, dict)
  <2>1. d \in At(Depth(rows, d)) /\ Depth(rows, d) \in 0..DetailCount
    BY <1>6
  <2>2. <<d, Path(rows, d)>> \in g[Depth(rows, d)]
    <3> HIDE DEF At
    <3>1. QED
      BY <1>8, <2>1
  <2>3. QED
    BY <1>7, <2>1, <2>2
<1>10. ASSUME NEW x \in Shown(rows, dict)
       PROVE  x \in {<<d, Path(rows, d)>> : d \in OfDict(rows, dict)}
  <2>1. PICK k \in 0..DetailCount : x \in g[k]
    BY <1>7
  <2>2. QED
    BY <1>8, <2>1
<1>11. QED
  BY <1>9, <1>10

\* ... so the columns match the tree.
LEMMA PlacesMatchTree ==
    ASSUME NEW rows, RowsTyped(rows), Placed(rows), NEW dict
    PROVE  /\ {x[1] : x \in Shown(rows, dict)} = OfDict(rows, dict)
           /\ \A x \in Shown(rows, dict) :
                  /\ rows[x[1]].place = <<Len(x[2]), x[2]>>
                  /\ PathRows(rows, x[1]) = {x[1]} \cup {x[2][n] : n \in DOMAIN x[2]}
<1>1. Shown(rows, dict) = {<<d, Path(rows, d)>> : d \in OfDict(rows, dict)}
  BY TreeShowsPlaces
<1>2. {x[1] : x \in Shown(rows, dict)} = OfDict(rows, dict)
  <2>1. \A x \in Shown(rows, dict) : x[1] \in OfDict(rows, dict)
    BY <1>1
  <2>2. ASSUME NEW d \in OfDict(rows, dict)
        PROVE  \E x \in Shown(rows, dict) : d = x[1]
    <3> DEFINE x == <<d, Path(rows, d)>>
    <3>1. x \in Shown(rows, dict) /\ d = x[1]
      BY <1>1
    <3>2. QED
      BY <3>1
  <2>3. QED
    BY <2>1, <2>2
<1>3. ASSUME NEW d \in OfDict(rows, dict)
      PROVE  /\ rows[d].place = <<Len(Path(rows, d)), Path(rows, d)>>
             /\ PathRows(rows, d) = {d} \cup {Path(rows, d)[n] : n \in DOMAIN Path(rows, d)}
  <2>1. d \in DOMAIN rows /\ rows[d].dict = dict
    BY DEF OfDict
  <2>2. /\ Depth(rows, d) = Len(Path(rows, d))
        /\ \A n \in DOMAIN Path(rows, d) : Path(rows, d)[n] \in OfDict(rows, rows[d].dict)
    BY <2>1, PathsAreBranches
  <2>3. rows[d].place = <<Depth(rows, d), Path(rows, d)>>
    BY <2>1, PlaceParts
  <2>4. PathRows(rows, d) = {x \in OfDict(rows, dict) :
                                x = d \/ \E n \in DOMAIN Path(rows, d) : Path(rows, d)[n] = x}
    BY <2>1 DEF PathRows, Path
  <2>5. PathRows(rows, d) = {d} \cup {Path(rows, d)[n] : n \in DOMAIN Path(rows, d)}
    <3>1. \A n \in DOMAIN Path(rows, d) : Path(rows, d)[n] \in OfDict(rows, dict)
      BY <2>1, <2>2
    <3>2. QED
      BY <2>4, <3>1
  <2>6. QED
    BY <2>2, <2>3, <2>5
<1>4. ASSUME NEW x \in Shown(rows, dict)
      PROVE  /\ rows[x[1]].place = <<Len(x[2]), x[2]>>
             /\ PathRows(rows, x[1]) = {x[1]} \cup {x[2][n] : n \in DOMAIN x[2]}
  <2>1. PICK d \in OfDict(rows, dict) : x = <<d, Path(rows, d)>>
    BY <1>1
  <2>2. x[1] = d /\ x[2] = Path(rows, d)
    BY <2>1
  <2>3. QED
    BY <1>3, <2>2
<1>5. QED
  BY <1>2, <1>4

-----------------------------------------------------------------------------
(* Rings of details.                                                       *)

\* Rows that keep their parents, or go, close no ring.
LEMMA RinglessShrinks ==
    ASSUME NEW rows, NEW rows2, Ringless(rows), DOMAIN rows2 \subseteq DOMAIN rows,
           \A d \in DOMAIN rows2 : rows2[d].parent = rows[d].parent
    PROVE  Ringless(rows2)
  BY DEF Ringless

\* Nor does a new row below which there is none.
LEMMA RinglessGrows ==
    ASSUME NEW rows, NEW rows2, Ringless(rows), NEW x, x \notin DOMAIN rows,
           DOMAIN rows2 = DOMAIN rows \cup {x}, rows2[x].parent # x,
           \A d \in DOMAIN rows : rows2[d].parent = rows[d].parent /\ rows[d].parent # x
    PROVE  Ringless(rows2)
<1> SUFFICES ASSUME NEW S \in SUBSET DOMAIN rows2, S # {}
             PROVE  \E e \in S : rows2[e].parent \notin S
  BY DEF Ringless
<1>1. CASE S \ {x} = {}
  BY <1>1
<1>2. CASE S \ {x} # {}
  <2>1. S \ {x} \in SUBSET DOMAIN rows
    OBVIOUS
  <2>2. PICK e \in S \ {x} : rows[e].parent \notin S \ {x}
    BY <1>2, <2>1 DEF Ringless
  <2>3. QED
    BY <2>1, <2>2
<1>3. QED
  BY <1>1, <1>2

\* Going up from p never meets d.
Away(d, p, rows, fresh) ==
    \E U \in SUBSET (Details \ fresh) :
        /\ p \in U /\ d \notin U
        /\ \A x \in U \cap DOMAIN rows : rows[x].parent \in U \cup {NoDetail}

\* The row d goes below p, or to the top.
GoesBelow(d, p, rows, rows2) ==
    /\ DOMAIN rows2 = DOMAIN rows /\ DOMAIN rows \subseteq Details
    /\ \A x \in DOMAIN rows : rows2[x].parent = IF x = d THEN p ELSE rows[x].parent

\* Nor does a row that goes below one from which it is not met going up.
LEMMA RinglessMoved ==
    ASSUME NEW rows, NEW rows2, Ringless(rows),
           NEW d, NEW p, GoesBelow(d, p, rows, rows2),
           NEW fresh, p = NoDetail \/ Away(d, p, rows, fresh)
    PROVE  Ringless(rows2)
<1>0. /\ DOMAIN rows2 = DOMAIN rows /\ DOMAIN rows \subseteq Details
      /\ \A x \in DOMAIN rows : rows2[x].parent = IF x = d THEN p ELSE rows[x].parent
  BY DEF GoesBelow
<1> SUFFICES ASSUME NEW S \in SUBSET DOMAIN rows, S # {}
             PROVE  \E e \in S : rows2[e].parent \notin S
  BY <1>0 DEF Ringless
<1>1. NoDetail \notin S
  BY <1>0, DictConstants
<1>2. PICK e \in S : rows[e].parent \notin S
  BY DEF Ringless
<1>3. CASE p = NoDetail \/ d \notin S
  BY <1>0, <1>1, <1>2, <1>3
<1>4. CASE p # NoDetail /\ d \in S
  <2>1. PICK U \in SUBSET (Details \ fresh) :
            /\ p \in U /\ d \notin U
            /\ \A x \in U \cap DOMAIN rows : rows[x].parent \in U \cup {NoDetail}
    BY <1>4 DEF Away
  <2>2. CASE S \cap U = {}
    BY <1>0, <1>4, <2>1, <2>2
  <2>3. CASE S \cap U # {}
    <3>1. S \cap U \in SUBSET DOMAIN rows
      OBVIOUS
    <3>2. PICK f \in S \cap U : rows[f].parent \notin S \cap U
      BY <2>3, <3>1 DEF Ringless
    <3>3. rows[f].parent \in U \cup {NoDetail} /\ f # d
      BY <2>1, <3>2
    <3>4. rows[f].parent \notin S /\ rows2[f].parent = rows[f].parent
      BY <1>0, <1>1, <3>2, <3>3
    <3>5. QED
      BY <3>2, <3>4
  <2>4. QED
    BY <2>2, <2>3
<1>5. QED
  BY <1>3, <1>4

\* What is met going up does not change when rows keep their parents, go, or
\* are new.
LEMMA AwayStays ==
    ASSUME NEW rows, NEW rows2, NEW fresh, NEW fresh2, NEW d, NEW p,
           fresh2 \subseteq fresh, DOMAIN rows2 \subseteq DOMAIN rows \cup fresh,
           \A x \in DOMAIN rows2 \cap DOMAIN rows : rows2[x].parent = rows[x].parent
    PROVE  Away(d, p, rows, fresh) => Away(d, p, rows2, fresh2)
<1> SUFFICES ASSUME Away(d, p, rows, fresh)
             PROVE  Away(d, p, rows2, fresh2)
  OBVIOUS
<1>1. PICK U \in SUBSET (Details \ fresh) :
          /\ p \in U /\ d \notin U
          /\ \A x \in U \cap DOMAIN rows : rows[x].parent \in U \cup {NoDetail}
  BY DEF Away
<1>2. \A x \in U \cap DOMAIN rows2 : rows2[x].parent \in U \cup {NoDetail}
  BY <1>1
<1>3. QED
  BY <1>1, <1>2 DEF Away

\* A row that the query for what is below does not find is away from it; and
\* every row is away from what is not there yet.
LEMMA NotBelowIsAway ==
    ASSUME NEW rows, NEW fresh, NEW dict, NEW d, NEW p,
           DOMAIN rows \subseteq Details \ fresh, OneFamily(rows),
           \A x \in DOMAIN rows : rows[x].parent \in (Details \ fresh) \cup {NoDetail},
           QueryEnds(rows, dict, d), d \in fresh \cup OfDict(rows, dict),
           p \in Details \ fresh, p \notin Subtree(rows, dict, d)
    PROVE  Away(d, p, rows, fresh)
<1>1. CASE d \in fresh
  <2> DEFINE U == Details \ fresh
  <2>1. U \in SUBSET (Details \ fresh) /\ p \in U /\ d \notin U
    BY <1>1
  <2>2. \A x \in U \cap DOMAIN rows : rows[x].parent \in U \cup {NoDetail}
    OBVIOUS
  <2>3. QED
    <3> HIDE DEF U
    <3>1. QED
      BY <2>1, <2>2 DEF Away
<1>2. CASE d \in OfDict(rows, dict)
  <2> DEFINE T == Subtree(rows, dict, d)
             U == (Details \ fresh) \ T
  <2>1. /\ T \subseteq OfDict(rows, dict) /\ d \in T
        /\ \A x \in OfDict(rows, dict) : rows[x].parent \in T => x \in T
    BY <1>2, SubtreeFound
  <2>2. \A x \in DOMAIN rows : rows[x].parent \in T => x \in T
    BY <2>1 DEF OneFamily, OfDict
  <2>3. p \notin T
    OBVIOUS
  <2> HIDE DEF T
  <2>4. \A x \in U \cap DOMAIN rows : rows[x].parent \in U \cup {NoDetail}
    BY <2>2
  <2>5. U \in SUBSET (Details \ fresh) /\ p \in U /\ d \notin U
    BY <2>1, <2>3
  <2>6. QED
    <3> HIDE DEF U
    <3>1. QED
      BY <2>4, <2>5 DEF Away
<1>3. QED
  BY <1>1, <1>2

-----------------------------------------------------------------------------
(* The inductive invariant of the dictionaries.                            *)

Moves == {"mayMove", "move", "refresh", "apply"}
Writings == UNION {[S -> DetailRows] : S \in SUBSET Details}
Plans == UNION {[S -> Places] : S \in SUBSET Details}

DictReqs == [pc : Moves \cup {"idle", "deleteDict", "place", "insert", "deleteBelow"},
             dict : Dicts \cup {NoDict}, detail : Details \cup {NoDetail}, parent : Details \cup {NoDetail},
             place : Places, doomed : SUBSET Details, written : Writings, plan : Plans]

\* The rows as a request with the given place sees them.
SeenBy(q, rows) ==
    [d \in DOMAIN rows |-> IF d \in DOMAIN q.written THEN q.written[d] ELSE rows[d]]

\* Ids, parents and dictionaries of the rows.
RowsSound(rows, fresh) ==
    /\ fresh \subseteq Details /\ DOMAIN rows \subseteq Details \ fresh
    /\ RowsTyped(rows) /\ OneFamily(rows)
    /\ \A d \in DOMAIN rows : rows[d].parent \in (Details \ fresh) \cup {NoDetail}

\* What a request holds, whatever others do meanwhile: the parent it has read was
\* given out and never changes its dictionary, and the row that an update has
\* written stays until its commit.
Known(q, rows, fresh) ==
    /\ q \in DictReqs
    /\ q.pc \in Moves \cup {"place", "insert"} => q.dict \in Dicts
    /\ q.pc \in Moves => q.detail \in Details
    /\ q.pc \in {"insert", "move", "refresh", "apply"} =>
           /\ q.parent \in (Details \ fresh) \cup {NoDetail}
           /\ q.parent \in DOMAIN rows => rows[q.parent].dict = q.dict
    /\ q.pc \in {"refresh", "apply"} =>
           /\ q.detail \in DOMAIN rows /\ rows[q.detail].dict = q.dict
           /\ DOMAIN q.written = {q.detail}
           /\ q.written[q.detail] = [dict |-> q.dict, parent |-> q.parent, place |-> q.place]
    /\ q.pc \notin {"refresh", "apply"} => DOMAIN q.written = {}
    /\ q.pc = "apply" => q.detail \notin DOMAIN q.plan

\* What an update holds as long as no ring was risked: it closes none, from when
\* its parent is there.
RinglessMove(q, rows, fresh) ==
    /\ q.pc \in {"mayMove", "move"} /\ q.parent \notin fresh \cup {NoDetail} =>
           Away(q.detail, q.parent, rows, fresh)
    /\ q.pc \in {"refresh", "apply"} => Ringless(SeenBy(q, rows))

\* The place that a request has taken from the parent.
Fits(q, rows) ==
    IF q.parent = NoDetail THEN q.place = Top
    ELSE q.parent \in OfDict(rows, q.dict) /\ q.place = Under(q.parent, rows[q.parent].place)

\* What an operation holds as long as it is the only one.
InOrder(q, rows, ds) ==
    /\ q.pc = "deleteDict" => OfDict(rows, q.dict) = {}
    /\ q.pc \in {"place", "insert"} => q.dict \in ds
    /\ q.pc \in {"insert", "move", "refresh", "apply"} => Fits(q, rows)
    /\ q.pc = "apply" => q.plan = BelowPlaced(SeenBy(q, rows), q)
    /\ q.pc = "deleteBelow" => \A x \in DOMAIN rows : rows[x].parent \in q.doomed => x \in q.doomed

DictTypes ==
    /\ freshDicts \subseteq Dicts /\ dicts \subseteq Dicts \ freshDicts
    /\ dictReqs \in [DictRequests -> DictReqs]
    /\ overlaps \in 0..MaxOverlaps /\ detailRingRisk \in BOOLEAN /\ (detailRingRisk => overlaps > 0)

\* The rows are sound, no row is written twice, and requests hold what they know.
RequestsKnow ==
    /\ RowsSound(details, freshDetails)
    /\ \A r \in DictRequests : Known(dictReqs[r], details, freshDetails)
    /\ \A r, o \in DictRequests : r # o => DOMAIN dictReqs[r].written \cap DOMAIN dictReqs[o].written = {}

\* Unless a ring was risked there is none, and none comes.
NoRings ==
    ~detailRingRisk =>
        /\ Ringless(details)
        /\ \A r \in DictRequests : RinglessMove(dictReqs[r], details, freshDetails)
        /\ \A r, o \in DictRequests : dictReqs[r].pc \in Moves /\ dictReqs[o].pc \in Moves => r = o

\* Unless operations have overlapped, places and dictionaries are right.
Orderly ==
    overlaps = 0 =>
        /\ Placed(details)
        /\ \A d \in DOMAIN details : details[d].dict \in dicts
        /\ \A r \in DictRequests : InOrder(dictReqs[r], details, dicts)
        /\ \A r, o \in DictRequests : dictReqs[r].pc # "idle" /\ dictReqs[o].pc # "idle" => r = o

DictInv == DictTypes /\ RequestsKnow /\ NoRings /\ Orderly

-----------------------------------------------------------------------------
(* How a step keeps the invariant.                                         *)

\* The histories tell what a step began: nothing overlaps unless they say so.
CountsKept(r, q) ==
    /\ overlaps' \in 0..MaxOverlaps /\ detailRingRisk' \in BOOLEAN /\ (detailRingRisk' => overlaps' > 0)
    /\ overlaps' = 0 => overlaps = 0 /\ \A o \in DictRequests \ {r} : dictReqs[o].pc = "idle"
    /\ ~detailRingRisk' => ~detailRingRisk /\ (q.pc \in Moves => \A o \in DictRequests \ {r} : dictReqs[o].pc \notin Moves)

RowsKept(r, q) ==
    /\ RowsSound(details', freshDetails')
    /\ Known(q, details', freshDetails')
    /\ \A o \in DictRequests \ {r} : Known(dictReqs[o], details', freshDetails')
    /\ \A o \in DictRequests \ {r} : DOMAIN q.written \cap DOMAIN dictReqs[o].written = {}

RingsKept(r, q) ==
    ~detailRingRisk' =>
        /\ Ringless(details')
        /\ RinglessMove(q, details', freshDetails')
        /\ \A o \in DictRequests \ {r} : RinglessMove(dictReqs[o], details', freshDetails')

OrderKept(q) ==
    overlaps' = 0 =>
        /\ Placed(details')
        /\ \A d \in DOMAIN details' : details'[d].dict \in dicts'
        /\ InOrder(q, details', dicts')

\* A request becomes q.
Becomes(r, q) == dictReqs' = [dictReqs EXCEPT ![r] = q]

LEMMA StepKeeps ==
    ASSUME DictInv, NEW r \in DictRequests, NEW q, Becomes(r, q),
           freshDicts' \subseteq Dicts, dicts' \subseteq Dicts \ freshDicts',
           CountsKept(r, q), RowsKept(r, q), RingsKept(r, q), OrderKept(q)
    PROVE  DictInv'
<1>1. dictReqs'[r] = q /\ \A o \in DictRequests \ {r} : dictReqs'[o] = dictReqs[o]
  BY DEF DictInv, DictTypes, Becomes
<1>2. q \in DictReqs
  BY DEF RowsKept, Known
<1>3. DictTypes'
  <2>1. dictReqs' \in [DictRequests -> DictReqs]
    BY <1>2 DEF DictInv, DictTypes, Becomes
  <2>2. QED
    BY <2>1 DEF DictTypes, CountsKept
<1>4. RequestsKnow'
  <2>1. \A o \in DictRequests : Known(dictReqs'[o], details', freshDetails')
    BY <1>1 DEF RowsKept
  <2>2. \A s, o \in DictRequests : s # o => DOMAIN dictReqs'[s].written \cap DOMAIN dictReqs'[o].written = {}
    <3> SUFFICES ASSUME NEW s \in DictRequests, NEW o \in DictRequests, s # o
                 PROVE  DOMAIN dictReqs'[s].written \cap DOMAIN dictReqs'[o].written = {}
      OBVIOUS
    <3>1. CASE s = r
      BY <1>1, <3>1 DEF RowsKept
    <3>2. CASE o = r
      BY <1>1, <3>2 DEF RowsKept
    <3>3. CASE s # r /\ o # r
      BY <1>1, <3>3 DEF DictInv, RequestsKnow
    <3>4. QED
      BY <3>1, <3>2, <3>3
  <2>3. QED
    BY <2>1, <2>2 DEF RequestsKnow, RowsKept
<1>5. ASSUME ~detailRingRisk'
      PROVE  /\ Ringless(details')
             /\ \A s \in DictRequests : RinglessMove(dictReqs'[s], details', freshDetails')
             /\ \A s, o \in DictRequests : dictReqs'[s].pc \in Moves /\ dictReqs'[o].pc \in Moves => s = o
  <2>1. \A s \in DictRequests : RinglessMove(dictReqs'[s], details', freshDetails')
    BY <1>1, <1>5 DEF RingsKept
  <2>2. ASSUME NEW s \in DictRequests, NEW o \in DictRequests,
               dictReqs'[s].pc \in Moves, dictReqs'[o].pc \in Moves
        PROVE  s = o
    <3>1. CASE s = r /\ o # r
      BY <1>1, <1>5, <2>2, <3>1 DEF CountsKept
    <3>2. CASE o = r /\ s # r
      BY <1>1, <1>5, <2>2, <3>2 DEF CountsKept
    <3>3. CASE s # r /\ o # r
      BY <1>1, <1>5, <2>2, <3>3 DEF CountsKept, DictInv, NoRings
    <3>4. QED
      BY <3>1, <3>2, <3>3
  <2>3. QED
    BY <1>5, <2>1, <2>2 DEF RingsKept
<1>6. ASSUME overlaps' = 0
      PROVE  /\ Placed(details')
             /\ \A d \in DOMAIN details' : details'[d].dict \in dicts'
             /\ \A s \in DictRequests : InOrder(dictReqs'[s], details', dicts')
             /\ \A s, o \in DictRequests : dictReqs'[s].pc # "idle" /\ dictReqs'[o].pc # "idle" => s = o
  <2>1. \A o \in DictRequests \ {r} : dictReqs'[o].pc = "idle"
    BY <1>1, <1>6 DEF CountsKept
  <2>2. \A s \in DictRequests : InOrder(dictReqs'[s], details', dicts')
    BY <1>1, <1>6, <2>1 DEF OrderKept, InOrder
  <2>3. QED
    BY <1>6, <2>1, <2>2 DEF OrderKept
<1>7. NoRings'
  BY <1>5 DEF NoRings
<1>8. Orderly'
  BY <1>6 DEF Orderly
<1>9. QED
  BY <1>3, <1>4, <1>7, <1>8 DEF DictInv

\* An operation that begins.
LEMMA BeginCounts ==
    ASSUME DictInv, NEW r \in DictRequests, NEW q, BeginOn(r, q), q.pc \in Moves => q.pc = "mayMove"
    PROVE  Becomes(r, q) /\ CountsKept(r, q) /\ dictReqs[r].pc = "idle"
<1>1. /\ overlaps \in 0..MaxOverlaps /\ MaxOverlaps \in Nat /\ detailRingRisk \in BOOLEAN
      /\ detailRingRisk => overlaps > 0
  BY DictConstants DEF DictInv, DictTypes
<1>2. /\ dictReqs[r].pc = "idle" /\ dictReqs' = [dictReqs EXCEPT ![r] = q]
      /\ IF \A o \in DictRequests : dictReqs[o].pc = "idle" THEN overlaps' = overlaps
         ELSE overlaps < MaxOverlaps /\ overlaps' = overlaps + 1
      /\ detailRingRisk' = (detailRingRisk \/ (q.pc = "mayMove" /\ \E o \in DictRequests : Moving(o)))
  BY DEF BeginOn
<1>3. \A o \in DictRequests : Moving(o) <=> dictReqs[o].pc \in Moves
  BY DEF Moving, Moves
<1>4. overlaps' \in 0..MaxOverlaps
  BY <1>1, <1>2
<1>5. detailRingRisk' \in BOOLEAN /\ (~detailRingRisk' => ~detailRingRisk /\ (q.pc = "mayMove" => \A o \in DictRequests : ~Moving(o)))
  BY <1>1, <1>2
<1>6. (\E o \in DictRequests : dictReqs[o].pc # "idle") => overlaps' > 0
  BY <1>1, <1>2
<1>7. (\E o \in DictRequests : Moving(o)) => overlaps' > 0
  BY <1>3, <1>6 DEF Moves
<1>8. overlaps > 0 => overlaps' > 0
  BY <1>1, <1>2
<1>9. detailRingRisk' => overlaps' > 0
  BY <1>1, <1>2, <1>7, <1>8
<1>10. overlaps' = 0 => overlaps = 0 /\ \A o \in DictRequests \ {r} : dictReqs[o].pc = "idle"
  BY <1>1, <1>2
<1>11. QED
  BY <1>2, <1>3, <1>4, <1>5, <1>9, <1>10 DEF Becomes, CountsKept

\* An operation that goes on.
LEMMA ContinueCounts ==
    ASSUME DictInv, NEW r \in DictRequests, NEW q, Continue(r, q), dictReqs[r].pc # "idle",
           q.pc \in Moves => dictReqs[r].pc \in Moves
    PROVE  Becomes(r, q) /\ CountsKept(r, q)
<1>1. dictReqs' = [dictReqs EXCEPT ![r] = q] /\ overlaps' = overlaps /\ detailRingRisk' = detailRingRisk
  BY DEF Continue
<1>2. overlaps = 0 => \A o \in DictRequests \ {r} : dictReqs[o].pc = "idle"
  BY DEF DictInv, Orderly
<1>3. ~detailRingRisk /\ q.pc \in Moves => \A o \in DictRequests \ {r} : dictReqs[o].pc \notin Moves
  BY DEF DictInv, NoRings
<1>4. overlaps \in 0..MaxOverlaps /\ detailRingRisk \in BOOLEAN /\ (detailRingRisk => overlaps > 0)
  BY DEF DictInv, DictTypes
<1>5. QED
  BY <1>1, <1>2, <1>3, <1>4 DEF Becomes, CountsKept

\* The rows being the same, it is enough to look at the request.
LEMMA SameRowsKeep ==
    ASSUME DictInv, NEW r \in DictRequests, NEW q, Becomes(r, q), CountsKept(r, q), UnchangedRows,
           Known(q, details, freshDetails),
           \A o \in DictRequests \ {r} : DOMAIN q.written \cap DOMAIN dictReqs[o].written = {},
           ~detailRingRisk => RinglessMove(q, details, freshDetails),
           overlaps = 0 => InOrder(q, details, dicts)
    PROVE  DictInv'
<1>1. /\ dicts' = dicts /\ freshDicts' = freshDicts
      /\ details' = details /\ freshDetails' = freshDetails
  BY DEF UnchangedRows
<1>2. freshDicts' \subseteq Dicts /\ dicts' \subseteq Dicts \ freshDicts'
  BY <1>1 DEF DictInv, DictTypes
<1>3. RowsKept(r, q)
  BY <1>1 DEF RowsKept, DictInv, RequestsKnow
<1>4. RingsKept(r, q)
  BY <1>1 DEF RingsKept, CountsKept, DictInv, NoRings
<1>5. OrderKept(q)
  BY <1>1 DEF OrderKept, CountsKept, DictInv, Orderly
<1>6. QED
  BY <1>2, <1>3, <1>4, <1>5, StepKeeps

-----------------------------------------------------------------------------
(* Steps that leave the rows alone.                                        *)

LEMMA NoRequestHoldsNothing ==
    /\ NoDictRequest \in DictReqs
    /\ DOMAIN NoDictRequest.written = {} /\ DOMAIN NoDictRequest.plan = {}
    /\ NoDictRequest.pc = "idle" /\ NoDictRequest.parent = NoDetail /\ NoDictRequest.place = Top
<1>1. Nothing \in [{} -> DetailRows] /\ Nothing \in [{} -> Places] /\ DOMAIN Nothing = {}
  BY DEF Nothing
<1>2. {} \in SUBSET Details
  OBVIOUS
<1>3. Nothing \in Writings /\ Nothing \in Plans
  BY <1>1, <1>2 DEF Writings, Plans
<1>4. Top \in Places
  <2>1. <<>> \in Seq(Details)
    BY EmptySeq
  <2>2. QED
    BY <2>1 DEF Top, Places
<1>5. NoDictRequest = [pc |-> "idle", dict |-> NoDict, detail |-> NoDetail, parent |-> NoDetail,
                       place |-> Top, doomed |-> {}, written |-> Nothing, plan |-> Nothing]
  BY DEF NoDictRequest, Top
<1> HIDE DEF NoDictRequest, Nothing, Writings, Plans, Top, Places
<1>6. QED
  BY <1>1, <1>2, <1>3, <1>4, <1>5 DEF DictReqs

\* A request that has ended holds nothing.
LEMMA NoRequestIsKnown ==
    ASSUME NEW rows, NEW fresh
    PROVE  Known(NoDictRequest, rows, fresh) /\ RinglessMove(NoDictRequest, rows, fresh)
  BY NoRequestHoldsNothing DEF Known, RinglessMove, Moves

LEMMA NoRequestIsInOrder ==
    ASSUME NEW rows, NEW ds
    PROVE  InOrder(NoDictRequest, rows, ds)
  BY NoRequestHoldsNothing DEF InOrder

LEMMA DictInitInv == DictInit => DictInv
<1> SUFFICES ASSUME DictInit PROVE DictInv
  OBVIOUS
<1>1. DOMAIN details = {} /\ freshDetails = Details /\ overlaps = 0 /\ detailRingRisk = FALSE
      /\ dicts = {} /\ freshDicts = Dicts /\ dictReqs = [r \in DictRequests |-> NoDictRequest]
      /\ \A r \in DictRequests : dictReqs[r] = NoDictRequest
  BY DEF DictInit, Nothing
<1>2. DictTypes
  <2>1. dictReqs \in [DictRequests -> DictReqs]
    BY <1>1, NoRequestHoldsNothing
  <2>2. overlaps \in 0..MaxOverlaps
    BY <1>1, DictConstants
  <2>3. freshDicts \subseteq Dicts /\ dicts \subseteq Dicts \ freshDicts
    BY <1>1
  <2>4. detailRingRisk \in BOOLEAN /\ ~detailRingRisk
    BY <1>1
  <2>5. QED
    BY <2>1, <2>2, <2>3, <2>4 DEF DictTypes
<1>3. RequestsKnow
  <2>1. RowsSound(details, freshDetails)
    BY <1>1 DEF RowsSound, RowsTyped, OneFamily
  <2>2. QED
    BY <1>1, <2>1, NoRequestIsKnown, NoRequestHoldsNothing DEF RequestsKnow
<1>4. NoRings
  BY <1>1, NoRequestIsKnown, NoRequestHoldsNothing DEF NoRings, Ringless, Moves
<1>5. Orderly
  BY <1>1, NoRequestIsInOrder, NoRequestHoldsNothing DEF Orderly, Placed
<1>6. QED
  BY <1>2, <1>3, <1>4, <1>5 DEF DictInv

LEMMA EnsureDictInv ==
    ASSUME DictInv, NEW r \in DictRequests, EnsureDict(r)
    PROVE  DictInv'
<1>1. PICK i \in dicts, p \in freshDetails \cup DOMAIN details \cup {NoDetail} :
          /\ BeginOn(r, [NoDictRequest EXCEPT !.dict = i, !.parent = p,
                             !.pc = IF p = NoDetail THEN "insert" ELSE "place"])
          /\ UnchangedRows
  BY DEF EnsureDict
<1> DEFINE q == [NoDictRequest EXCEPT !.dict = i, !.parent = p,
                     !.pc = IF p = NoDetail THEN "insert" ELSE "place"]
<1>2. /\ q.pc = IF p = NoDetail THEN "insert" ELSE "place"
      /\ q.dict = i /\ q.parent = p /\ q.place = Top /\ DOMAIN q.written = {}
  BY NoRequestHoldsNothing DEF DictReqs
<1>3. i \in Dicts /\ p \in Details \cup {NoDetail} /\ NoDetail \notin DOMAIN details
  BY DictConstants DEF DictInv, DictTypes, RequestsKnow, RowsSound
<1>4. q \in DictReqs
  BY <1>3, NoRequestHoldsNothing DEF DictReqs
<1> HIDE DEF q
<1>5. Becomes(r, q) /\ CountsKept(r, q)
  <2>1. BeginOn(r, q)
    BY <1>1 DEF q
  <2>2. q.pc \notin Moves
    BY <1>2 DEF Moves
  <2>3. QED
    BY <2>1, <2>2, BeginCounts
<1>6. Known(q, details, freshDetails)
  BY <1>2, <1>3, <1>4 DEF Known, Moves
<1>7. RinglessMove(q, details, freshDetails)
  BY <1>2 DEF RinglessMove
<1>8. InOrder(q, details, dicts)
  BY <1>2 DEF InOrder, Fits
<1>9. QED
  BY <1>1, <1>2, <1>5, <1>6, <1>7, <1>8, SameRowsKeep

\* What the invariant says of one request.
LEMMA OneRequest ==
    ASSUME DictInv, NEW r \in DictRequests
    PROVE  /\ dictReqs[r] \in DictReqs
           /\ Known(dictReqs[r], details, freshDetails)
           /\ RowsSound(details, freshDetails)
           /\ ~detailRingRisk => RinglessMove(dictReqs[r], details, freshDetails) /\ Ringless(details)
           /\ overlaps = 0 => InOrder(dictReqs[r], details, dicts) /\ Placed(details)
           /\ \A o \in DictRequests \ {r} :
                  DOMAIN dictReqs[r].written \cap DOMAIN dictReqs[o].written = {}
  BY DEF DictInv, DictTypes, RequestsKnow, NoRings, Orderly

\* The place right below a row is one.
LEMMA RowsHavePlaces ==
    ASSUME NEW rows, RowsTyped(rows), NEW p \in DOMAIN rows
    PROVE  /\ p \in Details /\ rows[p].place \in Places /\ Under(p, rows[p].place) \in Places
           /\ rows[p].dict \in Dicts
<1>1. p \in Details /\ rows[p].place \in Places /\ rows[p].dict \in Dicts
  BY DEF RowsTyped, DetailRows
<1>2. QED
  BY <1>1, UnderIsPlace

LEMMA PlaceDetailInv ==
    ASSUME DictInv, NEW r \in DictRequests, PlaceDetail(r)
    PROVE  DictInv'
<1> DEFINE o == dictReqs[r]
           q == [o EXCEPT !.pc = "insert", !.place = Under(o.parent, details[o.parent].place)]
<1>1. /\ o.pc = "place" /\ o.parent \in OfDict(details, o.dict)
      /\ Continue(r, q) /\ UnchangedRows
  BY DEF PlaceDetail, ParentsIn
<1>2. /\ o \in DictReqs /\ Known(o, details, freshDetails) /\ RowsTyped(details)
      /\ DOMAIN details \subseteq Details \ freshDetails
  BY OneRequest DEF RowsSound
<1>3. o.parent \in DOMAIN details /\ details[o.parent].dict = o.dict
  BY <1>1 DEF OfDict
<1>4. Under(o.parent, details[o.parent].place) \in Places
  BY <1>2, <1>3, RowsHavePlaces
<1>5. q \in DictReqs /\ q.pc = "insert" /\ q.place = Under(o.parent, details[o.parent].place)
      /\ q.dict = o.dict /\ q.parent = o.parent /\ q.written = o.written
  BY <1>2, <1>4 DEF DictReqs
<1> HIDE DEF q
<1>6. Becomes(r, q) /\ CountsKept(r, q)
  BY <1>1, <1>5, ContinueCounts DEF Moves
<1>7. Known(q, details, freshDetails)
  BY <1>1, <1>2, <1>3, <1>5 DEF Known, Moves
<1>8. RinglessMove(q, details, freshDetails)
  BY <1>5 DEF RinglessMove
<1>9. ASSUME overlaps = 0 PROVE InOrder(q, details, dicts)
  <2>1. InOrder(o, details, dicts)
    BY <1>9, OneRequest
  <2>2. o.parent # NoDetail
    BY <1>2, <1>3, DictConstants DEF RowsTyped
  <2>3. QED
    BY <1>1, <1>5, <2>1, <2>2 DEF InOrder, Fits
<1>10. QED
  BY <1>1, <1>5, <1>6, <1>7, <1>8, <1>9, OneRequest, SameRowsKeep

LEMMA CheckDetailInv ==
    ASSUME DictInv, NEW r \in DictRequests, CheckDetail(r)
    PROVE  DictInv'
<1>1. PICK i \in Dicts, p \in freshDetails \cup DOMAIN details \cup {NoDetail} :
          \E d \in freshDetails \cup OfDict(details, i) :
              LET q == [NoDictRequest EXCEPT !.pc = "mayMove", !.dict = i, !.detail = d, !.parent = p]
              IN  /\ p # NoDetail => NotBelow(details, q)
                  /\ BeginOn(r, q)
                  /\ UnchangedRows
  BY DEF CheckDetail
<1>2. PICK d \in freshDetails \cup OfDict(details, i) :
          LET q == [NoDictRequest EXCEPT !.pc = "mayMove", !.dict = i, !.detail = d, !.parent = p]
          IN  /\ p # NoDetail => NotBelow(details, q)
              /\ BeginOn(r, q)
              /\ UnchangedRows
  BY <1>1
<1> DEFINE q == [NoDictRequest EXCEPT !.pc = "mayMove", !.dict = i, !.detail = d, !.parent = p]
<1>3. /\ q.pc = "mayMove" /\ q.dict = i /\ q.detail = d /\ q.parent = p
      /\ DOMAIN q.written = {}
  BY NoRequestHoldsNothing DEF DictReqs
<1>4. RowsSound(details, freshDetails)
  BY OneRequest
<1>5. d \in Details /\ p \in Details \cup {NoDetail} /\ DOMAIN details \subseteq Details \ freshDetails
  BY <1>4 DEF RowsSound, OfDict
<1>6. q \in DictReqs
  BY <1>5, NoRequestHoldsNothing DEF DictReqs, Moves
<1>7. BeginOn(r, q) /\ UnchangedRows /\ (p # NoDetail => NotBelow(details, q))
  BY <1>2
<1> HIDE DEF q
<1>8. Becomes(r, q) /\ CountsKept(r, q)
  BY <1>3, <1>7, BeginCounts
<1>9. Known(q, details, freshDetails)
  BY <1>3, <1>5, <1>6 DEF Known, Moves
<1>10. RinglessMove(q, details, freshDetails)
  <2>1. ASSUME p \notin freshDetails \cup {NoDetail} PROVE Away(d, p, details, freshDetails)
    <3>1. QueryEnds(details, i, d) /\ p \notin Subtree(details, i, d)
      BY <1>3, <1>7, <2>1 DEF NotBelow
    <3>2. p \in Details \ freshDetails
      BY <1>5, <2>1
    <3>3. QED
      BY <1>4, <3>1, <3>2, NotBelowIsAway DEF RowsSound
  <2>2. QED
    BY <1>3, <2>1 DEF RinglessMove
<1>11. InOrder(q, details, dicts)
  BY <1>3 DEF InOrder
<1>12. QED
  BY <1>3, <1>7, <1>8, <1>9, <1>10, <1>11, SameRowsKeep

LEMMA ReadParentInv ==
    ASSUME DictInv, NEW r \in DictRequests, ReadParent(r)
    PROVE  DictInv'
<1> DEFINE o == dictReqs[r]
           at == IF o.parent = NoDetail THEN <<0, <<>>>> ELSE Under(o.parent, details[o.parent].place)
           q == [o EXCEPT !.pc = "move", !.place = at]
<1>1. /\ o.pc = "mayMove" /\ (o.parent # NoDetail => o.parent \in OfDict(details, o.dict))
      /\ Continue(r, q) /\ UnchangedRows
  BY DEF ReadParent, ParentsIn
<1>2. /\ o \in DictReqs /\ Known(o, details, freshDetails) /\ RowsTyped(details)
      /\ NoDetail \notin DOMAIN details /\ DOMAIN details \subseteq Details \ freshDetails
  BY OneRequest, DictConstants DEF RowsSound, RowsTyped
<1>3. o.parent # NoDetail => o.parent \in DOMAIN details /\ details[o.parent].dict = o.dict
  BY <1>1 DEF OfDict
<1>4. at = (IF o.parent = NoDetail THEN Top ELSE Under(o.parent, details[o.parent].place))
  BY DEF Top
<1>5. at \in Places
  <2>1. Top \in Places
    BY NoRequestHoldsNothing DEF DictReqs
  <2>2. QED
    BY <1>2, <1>3, <1>4, <2>1, RowsHavePlaces
<1> HIDE DEF at
<1>6. /\ q \in DictReqs /\ q.pc = "move" /\ q.place = at /\ q.dict = o.dict
      /\ q.detail = o.detail /\ q.parent = o.parent /\ q.written = o.written
  BY <1>2, <1>5 DEF DictReqs, Moves
<1> HIDE DEF q
<1>7. Becomes(r, q) /\ CountsKept(r, q)
  BY <1>1, <1>6, ContinueCounts DEF Moves
<1>8. Known(q, details, freshDetails)
  BY <1>1, <1>2, <1>3, <1>6 DEF Known, Moves
<1>9. ASSUME ~detailRingRisk PROVE RinglessMove(q, details, freshDetails)
  <2>1. RinglessMove(o, details, freshDetails)
    BY <1>9, OneRequest
  <2>2. QED
    BY <1>1, <1>6, <2>1 DEF RinglessMove
<1>10. InOrder(q, details, dicts)
  BY <1>1, <1>4, <1>6 DEF InOrder, Fits
<1>11. QED
  BY <1>1, <1>6, <1>7, <1>8, <1>9, <1>10, OneRequest, SameRowsKeep

\* With its own row written, an update still sees no ring.
LEMMA MoveDetailInv ==
    ASSUME DictInv, NEW r \in DictRequests, MoveDetail(r)
    PROVE  DictInv'
<1> DEFINE o == dictReqs[r]
           row == [dict |-> o.dict, parent |-> o.parent, place |-> o.place]
           mine == [d \in {o.detail} |-> row]
           q == [o EXCEPT !.pc = "refresh", !.written = mine]
<1>1. /\ o.pc = "move" /\ o.detail \in OfDict(details, o.dict) \ Busy(r)
      /\ Continue(r, q) /\ UnchangedRows
  BY DEF MoveDetail
<1>2. /\ o \in DictReqs /\ Known(o, details, freshDetails) /\ RowsSound(details, freshDetails)
  BY OneRequest
<1>3. o.detail \in DOMAIN details /\ details[o.detail].dict = o.dict /\ o.detail \in Details
  BY <1>1, <1>2 DEF OfDict, RowsSound
<1>4. row \in DetailRows
  BY <1>1, <1>2 DEF DictReqs, DetailRows, Known, Moves
<1> HIDE DEF row
<1>5. mine \in Writings /\ DOMAIN mine = {o.detail} /\ mine[o.detail] = row
  <2>1. {o.detail} \in SUBSET Details /\ mine \in [{o.detail} -> DetailRows]
    BY <1>3, <1>4
  <2>2. QED
    BY <2>1 DEF Writings
<1> HIDE DEF mine
<1>6. /\ q \in DictReqs /\ q.pc = "refresh" /\ q.place = o.place /\ q.dict = o.dict
      /\ q.detail = o.detail /\ q.parent = o.parent /\ q.written = mine
  BY <1>2, <1>5 DEF DictReqs, Moves
<1> HIDE DEF q
<1>7. Becomes(r, q) /\ CountsKept(r, q)
  BY <1>1, <1>6, ContinueCounts DEF Moves
<1>8. Known(q, details, freshDetails)
  <2>1. q.written[q.detail] = [dict |-> q.dict, parent |-> q.parent, place |-> q.place]
    BY <1>5, <1>6 DEF row
  <2>2. QED
    BY <1>1, <1>2, <1>3, <1>5, <1>6, <2>1 DEF Known, Moves
<1>9. \A s \in DictRequests \ {r} : DOMAIN q.written \cap DOMAIN dictReqs[s].written = {}
  BY <1>1, <1>5, <1>6 DEF Busy
<1>10. ASSUME ~detailRingRisk PROVE RinglessMove(q, details, freshDetails)
  <2> DEFINE seen == SeenBy(q, details)
  <2>0. o.parent \in (Details \ freshDetails) \cup {NoDetail}
    BY <1>1, <1>2 DEF Known
  <2>1. Ringless(details) /\ (o.parent = NoDetail \/ Away(o.detail, o.parent, details, freshDetails))
    BY <1>1, <1>10, <2>0, OneRequest DEF RinglessMove
  <2>2. DOMAIN seen = DOMAIN details
    BY DEF SeenBy
  <2>3. \A x \in DOMAIN details : seen[x].parent = IF x = o.detail THEN o.parent ELSE details[x].parent
    BY <1>5, <1>6 DEF SeenBy, row
  <2>4. DOMAIN details \subseteq Details
    BY <1>2 DEF RowsSound
  <2>5. GoesBelow(o.detail, o.parent, details, seen)
    BY <2>2, <2>3, <2>4 DEF GoesBelow
  <2> HIDE DEF seen, o
  <2>7. Ringless(seen)
    BY <2>1, <2>5, RinglessMoved
  <2>6. QED
    BY <1>6, <2>7 DEF RinglessMove, seen
<1>11. ASSUME overlaps = 0 PROVE InOrder(q, details, dicts)
  <2>1. InOrder(o, details, dicts)
    BY <1>11, OneRequest
  <2>2. QED
    BY <1>1, <1>6, <2>1 DEF InOrder, Fits
<1>12. QED
  BY <1>1, <1>6, <1>7, <1>8, <1>9, <1>10, <1>11, SameRowsKeep

\* The rows as an update sees them.
LEMMA SeenRows ==
    ASSUME NEW q, NEW rows, NEW fresh, Known(q, rows, fresh), RowsSound(rows, fresh)
    PROVE  /\ DOMAIN SeenBy(q, rows) = DOMAIN rows /\ RowsTyped(SeenBy(q, rows))
           /\ q.pc \in {"refresh", "apply"} =>
                  /\ q.detail \in OfDict(SeenBy(q, rows), q.dict)
                  /\ \A d \in DOMAIN rows :
                         SeenBy(q, rows)[d] =
                             IF d = q.detail THEN [dict |-> q.dict, parent |-> q.parent, place |-> q.place]
                             ELSE rows[d]
           /\ q.pc \notin {"refresh", "apply"} => \A d \in DOMAIN rows : SeenBy(q, rows)[d] = rows[d]
<1> DEFINE seen == SeenBy(q, rows)
<1>1. /\ DOMAIN seen = DOMAIN rows
      /\ \A d \in DOMAIN rows : seen[d] = IF d \in DOMAIN q.written THEN q.written[d] ELSE rows[d]
  BY DEF SeenBy
<1> HIDE DEF seen
<1>2. RowsTyped(rows)
  BY DEF RowsSound
<1>3. CASE q.pc \in {"refresh", "apply"}
  <2> DEFINE row == [dict |-> q.dict, parent |-> q.parent, place |-> q.place]
  <2>1. q \in DictReqs /\ q.dict \in Dicts /\ q.parent \in Details \cup {NoDetail}
        /\ q.detail \in DOMAIN rows /\ DOMAIN q.written = {q.detail} /\ q.written[q.detail] = row
    BY <1>3 DEF Known, Moves
  <2>2. q.place \in Places
    BY <2>1 DEF DictReqs
  <2>3. row \in DetailRows /\ row.dict = q.dict
    BY <2>1, <2>2 DEF DetailRows
  <2>4. \A d \in DOMAIN rows : seen[d] = IF d = q.detail THEN row ELSE rows[d]
    BY <1>1, <2>1
  <2> HIDE DEF row
  <2>5. RowsTyped(seen)
    BY <1>1, <1>2, <2>3, <2>4 DEF RowsTyped
  <2>6. q.detail \in OfDict(seen, q.dict)
    BY <1>1, <2>1, <2>3, <2>4 DEF OfDict
  <2>7. QED
    BY <1>1, <1>3, <2>4, <2>5, <2>6 DEF seen, row
<1>4. CASE q.pc \notin {"refresh", "apply"}
  <2>1. DOMAIN q.written = {}
    BY <1>4 DEF Known
  <2>2. \A d \in DOMAIN rows : seen[d] = rows[d]
    BY <1>1, <2>1
  <2>3. RowsTyped(seen)
    BY <1>1, <1>2, <2>2 DEF RowsTyped
  <2>4. QED
    BY <1>1, <1>4, <2>2, <2>3 DEF seen
<1>5. QED
  BY <1>3, <1>4

\* What a request sees depends on what it has written, and its plan on the row
\* it moves.
LEMMA SameSight ==
    ASSUME NEW o, NEW q, NEW rows, q.written = o.written
    PROVE  SeenBy(q, rows) = SeenBy(o, rows)
  BY DEF SeenBy

LEMMA SamePlan ==
    ASSUME NEW o, NEW q, NEW rows, q.dict = o.dict, q.detail = o.detail
    PROVE  BelowPlaced(rows, q) = BelowPlaced(rows, o)
  BY DEF BelowPlaced

LEMMA PlanIsPlan ==
    ASSUME NEW rows, RowsTyped(rows), NEW q
    PROVE  BelowPlaced(rows, q) \in Plans
<1> DEFINE below == Subtree(rows, q.dict, q.detail) \ {q.detail}
           L == SubtreeLevels(rows, q.dict, q.detail)
           P == BelowPlaced(rows, q)
<1>0. PICK g : PlannedBy(g, rows, q)
  BY PlanTaken
<1>1. P = [d \in below |-> g[CHOOSE k \in 1..DetailCount : d \in L[k]][d]]
  BY <1>0 DEF PlannedBy
<1>2. DOMAIN P = below /\ \A d \in DOMAIN P : P[d] \in Places
  BY PlannedPlaces
<1>3. below \in SUBSET Details
  <2>1. Descends(L, rows, q.dict, q.detail)
    BY QueryDescends DEF RowsTyped
  <2>2. Subtree(rows, q.dict, q.detail) = UNION {L[k] : k \in 0..DetailCount}
    BY DEF Subtree, DetailCount
  <2> HIDE DEF L
  <2>3. QED
    BY <2>1, <2>2 DEF Descends
<1> HIDE DEF below, L, P
<1>4. P = [d \in below |-> P[d]]
  BY <1>1
<1>5. P \in [below -> Places]
  BY <1>2, <1>4
<1>6. QED
  BY <1>3, <1>5 DEF Plans, P

LEMMA PlanBelowInv ==
    ASSUME DictInv, NEW r \in DictRequests, PlanBelow(r)
    PROVE  DictInv'
<1> DEFINE o == dictReqs[r]
           seen == SeenBy(o, details)
           plan == BelowPlaced(seen, o)
           q == [o EXCEPT !.pc = "apply", !.plan = plan]
<1>1. /\ o.pc = "refresh" /\ Continue(r, q) /\ UnchangedRows
  BY DEF PlanBelow, Seen, SeenBy
<1>2. /\ o \in DictReqs /\ Known(o, details, freshDetails) /\ RowsSound(details, freshDetails)
  BY OneRequest
<1>3. RowsTyped(seen)
  BY <1>2, SeenRows
<1>4. plan \in Plans /\ o.detail \notin DOMAIN plan
  BY <1>3, PlanIsPlan, PlannedPlaces
<1> HIDE DEF plan
<1>5. /\ q \in DictReqs /\ q.pc = "apply" /\ q.plan = plan /\ q.place = o.place /\ q.dict = o.dict
      /\ q.detail = o.detail /\ q.parent = o.parent /\ q.written = o.written
  BY <1>2, <1>4 DEF DictReqs, Moves
<1> HIDE DEF q
<1>6. Becomes(r, q) /\ CountsKept(r, q)
  BY <1>1, <1>5, ContinueCounts DEF Moves
<1>7. Known(q, details, freshDetails)
  BY <1>1, <1>2, <1>4, <1>5 DEF Known, Moves
<1>8. SeenBy(q, details) = seen
  BY <1>5, SameSight
<1>9. ASSUME ~detailRingRisk PROVE RinglessMove(q, details, freshDetails)
  <2>1. RinglessMove(o, details, freshDetails)
    BY <1>9, OneRequest
  <2>2. QED
    BY <1>1, <1>5, <1>8, <2>1 DEF RinglessMove
<1>10. ASSUME overlaps = 0 PROVE InOrder(q, details, dicts)
  <2>1. InOrder(o, details, dicts)
    BY <1>10, OneRequest
  <2>2. Fits(q, details)
    BY <1>1, <1>5, <2>1 DEF InOrder, Fits
  <2>3. BelowPlaced(seen, q) = plan
    BY <1>5, SamePlan DEF plan
  <2>4. QED
    BY <1>5, <1>8, <2>2, <2>3 DEF InOrder
<1>11. QED
  BY <1>1, <1>5, <1>6, <1>7, <1>9, <1>10, OneRequest, SameRowsKeep

\* What a deletion finds is closed downwards.
LEMMA FindSubtreeInv ==
    ASSUME DictInv, NEW r \in DictRequests, FindSubtree(r)
    PROVE  DictInv'
<1>1. PICK i \in Dicts, d \in Details :
          /\ HasDetail(details, i, d)
          /\ QueryEnds(details, i, d)
          /\ BeginOn(r, [NoDictRequest EXCEPT !.pc = "deleteBelow", !.dict = i, !.detail = d,
                                              !.doomed = Subtree(details, i, d)])
          /\ UnchangedRows
  BY DEF FindSubtree
<1> DEFINE T == Subtree(details, i, d)
           q == [NoDictRequest EXCEPT !.pc = "deleteBelow", !.dict = i, !.detail = d, !.doomed = T]
<1>2. RowsSound(details, freshDetails) /\ DOMAIN details \subseteq Details
  BY OneRequest DEF RowsSound
<1>3. /\ T \subseteq OfDict(details, i)
      /\ \A x \in OfDict(details, i) : details[x].parent \in T => x \in T
  BY <1>1, <1>2, SubtreeFound
<1>4. T \in SUBSET Details
  BY <1>2, <1>3 DEF OfDict
<1>5. BeginOn(r, q) /\ UnchangedRows
  BY <1>1
<1> HIDE DEF T
<1>6. /\ q \in DictReqs /\ q.pc = "deleteBelow" /\ q.doomed = T /\ DOMAIN q.written = {}
  BY <1>4, NoRequestHoldsNothing DEF DictReqs
<1> HIDE DEF q
<1>7. Becomes(r, q) /\ CountsKept(r, q)
  BY <1>5, <1>6, BeginCounts DEF Moves
<1>8. Known(q, details, freshDetails) /\ RinglessMove(q, details, freshDetails)
  BY <1>6 DEF Known, Moves, RinglessMove
<1>9. InOrder(q, details, dicts)
  <2>1. \A x \in DOMAIN details : details[x].parent \in T => x \in T
    BY <1>2, <1>3 DEF RowsSound, OneFamily, OfDict
  <2>2. QED
    BY <1>6, <2>1 DEF InOrder
<1>10. QED
  BY <1>5, <1>6, <1>7, <1>8, <1>9, SameRowsKeep

LEMMA AbortDictInv ==
    ASSUME DictInv, NEW r \in DictRequests, AbortDict(r)
    PROVE  DictInv'
<1>1. dictReqs[r].pc # "idle" /\ Continue(r, NoDictRequest) /\ UnchangedRows
  BY DEF AbortDict, EndDict
<1>2. Becomes(r, NoDictRequest) /\ CountsKept(r, NoDictRequest)
  BY <1>1, NoRequestHoldsNothing, ContinueCounts DEF Moves
<1>3. QED
  BY <1>1, <1>2, NoRequestHoldsNothing, NoRequestIsKnown, NoRequestIsInOrder, SameRowsKeep

-----------------------------------------------------------------------------
(* Steps that change rows.                                                 *)

\* Rows go or are new; those that stay keep their dictionary.
RowsFollow(rows, fresh, rows2, fresh2) ==
    /\ fresh2 \subseteq fresh /\ fresh \subseteq Details
    /\ DOMAIN rows2 \subseteq DOMAIN rows \cup fresh
    /\ \A x \in DOMAIN rows2 \cap DOMAIN rows : rows2[x].dict = rows[x].dict

\* What others know stays true, as long as the row they have written stays.
LEMMA KnownStays ==
    ASSUME NEW rows, NEW fresh, NEW rows2, NEW fresh2, RowsFollow(rows, fresh, rows2, fresh2),
           NEW q, Known(q, rows, fresh), q.pc \in {"refresh", "apply"} => q.detail \in DOMAIN rows2
    PROVE  Known(q, rows2, fresh2)
<1>1. ASSUME NEW x \in Details \ fresh, x \in DOMAIN rows2
      PROVE  x \in DOMAIN rows /\ rows2[x].dict = rows[x].dict
  BY <1>1 DEF RowsFollow
<1>2. Details \ fresh \subseteq Details \ fresh2
  BY DEF RowsFollow
<1>3. NoDetail \notin DOMAIN rows2 \/ NoDetail \in DOMAIN rows
  BY DictConstants DEF RowsFollow
<1>4. q.pc \in {"insert", "move", "refresh", "apply"} /\ q.parent \in DOMAIN rows2 => rows2[q.parent].dict = q.dict
  BY <1>1, <1>3 DEF Known, Moves, RowsFollow
<1>5. q.pc \in {"refresh", "apply"} => rows2[q.detail].dict = q.dict
  BY DEF Known, RowsFollow
<1>6. QED
  BY <1>2, <1>4, <1>5 DEF Known

\* The invariant keeps the row that an update has written.
LEMMA WrittenRowsStay ==
    ASSUME DictInv, NEW r \in DictRequests, NEW gone, gone \cap Busy(r) = {}, NEW o \in DictRequests \ {r},
           dictReqs[o].pc \in {"refresh", "apply"}
    PROVE  dictReqs[o].detail \in DOMAIN details \ gone
<1>1. dictReqs[o].detail \in DOMAIN details /\ DOMAIN dictReqs[o].written = {dictReqs[o].detail}
  BY OneRequest DEF Known
<1>2. dictReqs[o].detail \in Busy(r)
  BY <1>1 DEF Busy
<1>3. QED
  BY <1>1, <1>2

\* A deletion of rows that no other transaction has written; if all below them
\* go with them the others still fit their parents.
LEMMA RowsGo ==
    ASSUME DictInv, NEW r \in DictRequests, NEW gone, gone \cap Busy(r) = {},
           details' = [d \in DOMAIN details \ gone |-> details[d]], freshDetails' = freshDetails
    PROVE  /\ RowsSound(details', freshDetails')
           /\ \A o \in DictRequests \ {r} : Known(dictReqs[o], details', freshDetails')
           /\ ~detailRingRisk => /\ Ringless(details')
                           /\ \A o \in DictRequests \ {r} : RinglessMove(dictReqs[o], details', freshDetails')
           /\ (\A x \in DOMAIN details : details[x].parent \in gone => x \in gone) /\ Placed(details) => Placed(details')
<1>1. /\ DOMAIN details' = DOMAIN details \ gone
      /\ \A d \in DOMAIN details' : d \in DOMAIN details /\ details'[d] = details[d]
  OBVIOUS
<1>2. RowsSound(details, freshDetails)
  BY OneRequest
<1>3. RowsSound(details', freshDetails')
  BY <1>1, <1>2 DEF RowsSound, RowsTyped, OneFamily
<1>4. ASSUME NEW o \in DictRequests \ {r} PROVE Known(dictReqs[o], details', freshDetails')
  <2>1. RowsFollow(details, freshDetails, details', freshDetails')
    BY <1>1, <1>2 DEF RowsFollow, RowsSound
  <2>2. dictReqs[o].pc \in {"refresh", "apply"} => dictReqs[o].detail \in DOMAIN details'
    BY <1>1, WrittenRowsStay
  <2>3. Known(dictReqs[o], details, freshDetails)
    BY OneRequest
  <2>4. QED
    BY <2>1, <2>2, <2>3, KnownStays
<1>5. ASSUME ~detailRingRisk
      PROVE  /\ Ringless(details')
             /\ \A o \in DictRequests \ {r} : RinglessMove(dictReqs[o], details', freshDetails')
  <2>1. Ringless(details')
    <3>1. Ringless(details)
      BY <1>5, OneRequest
    <3>2. QED
      BY <1>1, <3>1, RinglessShrinks
  <2>2. ASSUME NEW o \in DictRequests \ {r} PROVE RinglessMove(dictReqs[o], details', freshDetails')
    <3> DEFINE q == dictReqs[o]
               seen == SeenBy(q, details)
               seen2 == SeenBy(q, details')
    <3>1. RinglessMove(q, details, freshDetails)
      BY <1>5, OneRequest
    <3>2. Away(q.detail, q.parent, details, freshDetails) => Away(q.detail, q.parent, details', freshDetails')
      BY <1>1, AwayStays
    <3>3. /\ DOMAIN seen2 \subseteq DOMAIN seen
          /\ \A d \in DOMAIN seen2 : seen2[d].parent = seen[d].parent
      BY <1>1 DEF SeenBy
    <3>4. Ringless(seen) => Ringless(seen2)
      <4> HIDE DEF seen, seen2
      <4>1. QED
        BY <3>3, RinglessShrinks
    <3>5. QED
      BY <3>1, <3>2, <3>4 DEF RinglessMove
  <2>3. QED
    BY <2>1, <2>2
<1>6. ASSUME \A x \in DOMAIN details : details[x].parent \in gone => x \in gone, Placed(details)
      PROVE  Placed(details')
  <2> SUFFICES ASSUME NEW d \in DOMAIN details'
               PROVE  IF details'[d].parent = NoDetail THEN details'[d].place = Top
                      ELSE /\ details'[d].parent \in OfDict(details', details'[d].dict)
                           /\ details'[d].place = Under(details'[d].parent, details'[details'[d].parent].place)
    BY DEF Placed
  <2>1. CASE details[d].parent = NoDetail
    BY <1>1, <1>6, <2>1 DEF Placed
  <2>2. CASE details[d].parent # NoDetail
    <3>1. /\ details[d].parent \in OfDict(details, details[d].dict)
          /\ details[d].place = Under(details[d].parent, details[details[d].parent].place)
      BY <1>1, <1>6, <2>2 DEF Placed
    <3>2. details[d].parent \in DOMAIN details' /\ details[details[d].parent].dict = details[d].dict
      BY <1>1, <1>6, <3>1 DEF OfDict
    <3>3. QED
      BY <1>1, <2>2, <3>1, <3>2 DEF OfDict
  <2>3. QED
    BY <2>1, <2>2
<1>7. QED
  BY <1>3, <1>4, <1>5, <1>6

\* The details of a dictionary: nothing is below them that is not of it.
LEMMA DeleteDetailsInv ==
    ASSUME DictInv, NEW r \in DictRequests, DeleteDetails(r)
    PROVE  DictInv'
<1>1. PICK i \in Dicts :
          /\ OfDict(details, i) \cap Busy(r) = {}
          /\ BeginOn(r, [NoDictRequest EXCEPT !.pc = "deleteDict", !.dict = i])
          /\ details' = [d \in DOMAIN details \ OfDict(details, i) |-> details[d]]
          /\ UNCHANGED <<dicts, freshDicts, freshDetails>>
  BY DEF DeleteDetails
<1> DEFINE q == [NoDictRequest EXCEPT !.pc = "deleteDict", !.dict = i]
           gone == OfDict(details, i)
<1>2. q \in DictReqs /\ q.pc = "deleteDict" /\ q.dict = i /\ DOMAIN q.written = {}
  BY NoRequestHoldsNothing DEF DictReqs
<1>3. BeginOn(r, q)
  BY <1>1
<1> HIDE DEF q
<1>4. Becomes(r, q) /\ CountsKept(r, q)
  BY <1>2, <1>3, BeginCounts DEF Moves
<1>5. Known(q, details', freshDetails') /\ RinglessMove(q, details', freshDetails')
  BY <1>2 DEF Known, RinglessMove, Moves
<1>6. /\ RowsSound(details', freshDetails')
      /\ \A o \in DictRequests \ {r} : Known(dictReqs[o], details', freshDetails')
      /\ ~detailRingRisk => /\ Ringless(details')
                      /\ \A o \in DictRequests \ {r} : RinglessMove(dictReqs[o], details', freshDetails')
      /\ (\A x \in DOMAIN details : details[x].parent \in gone => x \in gone) /\ Placed(details) => Placed(details')
  <2> HIDE DEF gone
  <2>1. QED
    BY <1>1, RowsGo DEF gone
<1>7. RowsKept(r, q)
  BY <1>2, <1>5, <1>6 DEF RowsKept
<1>8. RingsKept(r, q)
  BY <1>4, <1>5, <1>6 DEF RingsKept, CountsKept
<1>9. ASSUME overlaps' = 0
      PROVE  /\ Placed(details')
             /\ \A d \in DOMAIN details' : details'[d].dict \in dicts'
             /\ InOrder(q, details', dicts')
  <2>1. overlaps = 0
    BY <1>4, <1>9 DEF CountsKept
  <2>2. Placed(details) /\ \A d \in DOMAIN details : details[d].dict \in dicts
    BY <2>1 DEF DictInv, Orderly
  <2>3. \A x \in DOMAIN details : details[x].parent \in gone => x \in gone
    BY OneRequest DEF RowsSound, OneFamily, OfDict
  <2>4. OfDict(details', i) = {}
    BY <1>1 DEF OfDict
  <2>5. InOrder(q, details', dicts')
    BY <1>2, <2>4 DEF InOrder
  <2>6. QED
    BY <1>1, <1>6, <2>2, <2>3, <2>5
<1>10. OrderKept(q)
  BY <1>9 DEF OrderKept
<1>11. freshDicts' \subseteq Dicts /\ dicts' \subseteq Dicts \ freshDicts'
  BY <1>1 DEF DictInv, DictTypes
<1>12. QED
  BY <1>4, <1>7, <1>8, <1>10, <1>11, StepKeeps

LEMMA DeleteBelowInv ==
    ASSUME DictInv, NEW r \in DictRequests, DeleteBelow(r)
    PROVE  DictInv'
<1> DEFINE o == dictReqs[r]
           gone == o.doomed
           q == NoDictRequest
<1>1. /\ o.pc = "deleteBelow" /\ gone \cap Busy(r) = {}
      /\ details' = [d \in DOMAIN details \ gone |-> details[d]]
      /\ Continue(r, q)
      /\ UNCHANGED <<dicts, freshDicts, freshDetails>>
  BY DEF DeleteBelow, EndDict
<1>2. Becomes(r, q) /\ CountsKept(r, q)
  BY <1>1, NoRequestHoldsNothing, ContinueCounts DEF Moves
<1>3. /\ RowsSound(details', freshDetails')
      /\ \A s \in DictRequests \ {r} : Known(dictReqs[s], details', freshDetails')
      /\ ~detailRingRisk => /\ Ringless(details')
                      /\ \A s \in DictRequests \ {r} : RinglessMove(dictReqs[s], details', freshDetails')
      /\ (\A x \in DOMAIN details : details[x].parent \in gone => x \in gone) /\ Placed(details) => Placed(details')
  <2> HIDE DEF gone
  <2>1. QED
    BY <1>1, RowsGo DEF gone
<1>4. RowsKept(r, q)
  BY <1>3, NoRequestHoldsNothing, NoRequestIsKnown DEF RowsKept
<1>5. RingsKept(r, q)
  BY <1>2, <1>3, NoRequestIsKnown DEF RingsKept, CountsKept
<1>6. ASSUME overlaps' = 0
      PROVE  Placed(details') /\ \A d \in DOMAIN details' : details'[d].dict \in dicts'
  <2>1. overlaps = 0
    BY <1>2, <1>6 DEF CountsKept
  <2>2. Placed(details) /\ InOrder(o, details, dicts) /\ \A d \in DOMAIN details : details[d].dict \in dicts
    BY <2>1 DEF DictInv, Orderly
  <2>3. \A x \in DOMAIN details : details[x].parent \in gone => x \in gone
    BY <1>1, <2>2 DEF InOrder
  <2>4. QED
    BY <1>1, <1>3, <2>2, <2>3
<1>7. OrderKept(q)
  BY <1>6, NoRequestIsInOrder DEF OrderKept
<1>8. freshDicts' \subseteq Dicts /\ dicts' \subseteq Dicts \ freshDicts'
  BY <1>1 DEF DictInv, DictTypes
<1>9. QED
  BY <1>2, <1>4, <1>5, <1>7, <1>8, StepKeeps

\* The dictionary goes after its details.
LEMMA DeleteDictRowInv ==
    ASSUME DictInv, NEW r \in DictRequests, DeleteDictRow(r)
    PROVE  DictInv'
<1> DEFINE o == dictReqs[r]
           q == NoDictRequest
<1>1. /\ o.pc = "deleteDict" /\ dicts' = dicts \ {o.dict} /\ Continue(r, q)
      /\ freshDicts' = freshDicts /\ details' = details /\ freshDetails' = freshDetails
  BY DEF DeleteDictRow, EndDict
<1>2. Becomes(r, q) /\ CountsKept(r, q)
  BY <1>1, NoRequestHoldsNothing, ContinueCounts DEF Moves
<1>3. RowsKept(r, q)
  BY <1>1, OneRequest, NoRequestHoldsNothing, NoRequestIsKnown DEF RowsKept
<1>4. RingsKept(r, q)
  BY <1>1, <1>2, OneRequest, NoRequestIsKnown DEF RingsKept, CountsKept
<1>5. ASSUME overlaps' = 0
      PROVE  Placed(details') /\ \A d \in DOMAIN details' : details'[d].dict \in dicts'
  <2>1. overlaps = 0
    BY <1>2, <1>5 DEF CountsKept
  <2>2. Placed(details) /\ InOrder(o, details, dicts) /\ \A d \in DOMAIN details : details[d].dict \in dicts
    BY <2>1 DEF DictInv, Orderly
  <2>3. \A d \in DOMAIN details : details[d].dict # o.dict
    BY <1>1, <2>2 DEF InOrder, OfDict
  <2>4. QED
    BY <1>1, <2>2, <2>3
<1>6. OrderKept(q)
  BY <1>5, NoRequestIsInOrder DEF OrderKept
<1>7. freshDicts' \subseteq Dicts /\ dicts' \subseteq Dicts \ freshDicts'
  BY <1>1 DEF DictInv, DictTypes
<1>8. QED
  BY <1>2, <1>3, <1>4, <1>6, <1>7, StepKeeps

LEMMA CreateDictInv ==
    ASSUME DictInv, NEW i \in Dicts, CreateDict(i)
    PROVE  DictInv'
<1>1. /\ i \in freshDicts /\ dicts' = dicts \cup {i} /\ freshDicts' = freshDicts \ {i}
      /\ details' = details /\ freshDetails' = freshDetails /\ dictReqs' = dictReqs
      /\ overlaps' = overlaps /\ detailRingRisk' = detailRingRisk
  BY DEF CreateDict
<1>2. DictTypes'
  BY <1>1 DEF DictInv, DictTypes
<1>3. RequestsKnow' /\ NoRings'
  BY <1>1 DEF DictInv, RequestsKnow, NoRings
<1>4. Orderly'
  BY <1>1 DEF DictInv, Orderly, InOrder
<1>5. QED
  BY <1>2, <1>3, <1>4 DEF DictInv

\* A new row has nothing below it.
LEMMA InsertDetailInv ==
    ASSUME DictInv, NEW r \in DictRequests, InsertDetail(r)
    PROVE  DictInv'
<1> DEFINE o == dictReqs[r]
           q == NoDictRequest
           row == [dict |-> o.dict, parent |-> o.parent, place |-> o.place]
<1>1. /\ o.pc = "insert" /\ Becomes(r, q) /\ dicts' = dicts /\ freshDicts' = freshDicts
      /\ overlaps' = overlaps
  BY DEF InsertDetail, Becomes
<1>2. PICK n \in freshDetails :
          /\ details' = [x \in DOMAIN details \cup {n} |-> IF x = n THEN row ELSE details[x]]
          /\ freshDetails' = freshDetails \ {n}
          /\ detailRingRisk' = (detailRingRisk \/ \E s \in DictRequests :
                                   dictReqs[s].pc = "mayMove" /\ dictReqs[s].parent = n)
  BY DEF InsertDetail
<1>3. /\ o \in DictReqs /\ Known(o, details, freshDetails) /\ RowsSound(details, freshDetails)
  BY OneRequest
<1>4. /\ n \in Details /\ n \notin DOMAIN details /\ freshDetails \subseteq Details
  BY <1>3 DEF RowsSound
<1>5. /\ DOMAIN details' = DOMAIN details \cup {n} /\ details'[n] = row
      /\ \A d \in DOMAIN details : details'[d] = details[d] /\ details[d].parent # n
  <2>1. \A d \in DOMAIN details : details[d].parent # n
    BY <1>3, <1>4, DictConstants DEF RowsSound
  <2>2. QED
    BY <1>2, <1>4, <2>1
<1>6. /\ o.dict \in Dicts /\ o.parent \in (Details \ freshDetails) \cup {NoDetail} /\ o.parent # n
      /\ o.place \in Places
      /\ o.parent \in DOMAIN details => details[o.parent].dict = o.dict
  BY <1>1, <1>3, <1>4, DictConstants DEF Known, DictReqs
<1>7. row \in DetailRows /\ row.dict = o.dict /\ row.parent = o.parent /\ row.place = o.place
  BY <1>6 DEF DetailRows
<1> HIDE DEF row
<1>8. RowsSound(details', freshDetails')
  <2>1. RowsTyped(details')
    BY <1>3, <1>4, <1>5, <1>7 DEF RowsSound, RowsTyped
  <2>2. OneFamily(details')
    BY <1>3, <1>5, <1>6, <1>7 DEF RowsSound, OneFamily
  <2>3. \A d \in DOMAIN details' : details'[d].parent \in (Details \ freshDetails') \cup {NoDetail}
    BY <1>2, <1>3, <1>5, <1>6, <1>7 DEF RowsSound
  <2>4. freshDetails' \subseteq Details /\ DOMAIN details' \subseteq Details \ freshDetails'
    BY <1>2, <1>3, <1>4, <1>5 DEF RowsSound
  <2>5. QED
    BY <2>1, <2>2, <2>3, <2>4 DEF RowsSound
<1>9. ASSUME NEW s \in DictRequests \ {r} PROVE Known(dictReqs[s], details', freshDetails')
  <2>1. RowsFollow(details, freshDetails, details', freshDetails')
    BY <1>2, <1>4, <1>5 DEF RowsFollow
  <2>2. Known(dictReqs[s], details, freshDetails)
    BY OneRequest
  <2>3. dictReqs[s].pc \in {"refresh", "apply"} => dictReqs[s].detail \in DOMAIN details'
    BY <1>5, <2>2 DEF Known
  <2>4. QED
    BY <2>1, <2>2, <2>3, KnownStays
<1>10. Becomes(r, q) /\ CountsKept(r, q)
  <2>1. /\ overlaps \in 0..MaxOverlaps /\ MaxOverlaps \in Nat /\ detailRingRisk \in BOOLEAN
        /\ detailRingRisk => overlaps > 0
    BY DictConstants DEF DictInv, DictTypes
  <2>2. overlaps = 0 => \A s \in DictRequests \ {r} : dictReqs[s].pc = "idle"
    BY <1>1 DEF DictInv, Orderly
  <2>3. (\E s \in DictRequests : dictReqs[s].pc = "mayMove" /\ dictReqs[s].parent = n) => overlaps # 0
    BY <1>1, <2>2
  <2>4. detailRingRisk' \in BOOLEAN /\ (~detailRingRisk' => ~detailRingRisk)
    BY <1>2, <2>1
  <2>5. detailRingRisk' => overlaps # 0
    BY <1>2, <2>1, <2>3
  <2>6. overlaps # 0 => overlaps > 0
    BY <2>1
  <2>7. q.pc \notin Moves
    BY NoRequestHoldsNothing DEF Moves
  <2>8. QED
    BY <1>1, <2>1, <2>2, <2>4, <2>5, <2>6, <2>7 DEF CountsKept
<1>11. RowsKept(r, q)
  BY <1>8, <1>9, NoRequestHoldsNothing, NoRequestIsKnown DEF RowsKept
<1>12. ASSUME ~detailRingRisk PROVE Ringless(details')
  <2>1. Ringless(details) /\ details'[n].parent # n
    BY <1>5, <1>6, <1>7, <1>12, OneRequest
  <2>2. QED
    BY <1>4, <1>5, <2>1, RinglessGrows
<1>13. ASSUME ~detailRingRisk', NEW s \in DictRequests \ {r} PROVE RinglessMove(dictReqs[s], details', freshDetails')
  <2> DEFINE u == dictReqs[s]
             seen == SeenBy(u, details)
             seen2 == SeenBy(u, details')
  <2>1. RinglessMove(u, details, freshDetails) /\ Known(u, details, freshDetails)
    BY <1>10, <1>13, OneRequest DEF CountsKept
  <2>2. Away(u.detail, u.parent, details, freshDetails) => Away(u.detail, u.parent, details', freshDetails')
    BY <1>2, <1>4, <1>5, AwayStays
  <2>3. ASSUME u.pc \in {"refresh", "apply"} PROVE Ringless(seen2)
    <3>1. /\ DOMAIN u.written = {u.detail} /\ u.detail \in DOMAIN details
          /\ u.written[u.detail].parent = u.parent /\ u.parent # n
      BY <1>4, <2>1, <2>3, DictConstants DEF Known, Moves
    <3>2. DOMAIN seen = DOMAIN details /\ DOMAIN seen2 = DOMAIN details \cup {n}
      BY <1>5 DEF SeenBy
    <3>3. seen2[n].parent # n
      BY <1>4, <1>5, <1>6, <1>7, <3>1 DEF SeenBy
    <3>4. \A d \in DOMAIN details : seen2[d].parent = seen[d].parent /\ seen[d].parent # n
      BY <1>5, <3>1 DEF SeenBy
    <3>5. Ringless(seen)
      BY <2>1, <2>3 DEF RinglessMove
    <3> HIDE DEF seen, seen2
    <3>6. QED
      BY <1>4, <3>2, <3>3, <3>4, <3>5, RinglessGrows
  <2>4. u.pc \in {"mayMove", "move"} /\ u.parent # NoDetail => u.parent # n
    BY <1>2, <1>13, <2>1 DEF Known
  <2>5. u.pc \in {"mayMove", "move"} /\ u.parent \notin freshDetails' \cup {NoDetail} =>
            u.parent \notin freshDetails \cup {NoDetail}
    BY <1>2, <2>4
  <2>6. QED
    BY <2>1, <2>2, <2>3, <2>5 DEF RinglessMove
<1>14. RingsKept(r, q)
  BY <1>10, <1>12, <1>13, NoRequestIsKnown DEF RingsKept, CountsKept
<1>15. ASSUME overlaps' = 0
       PROVE  Placed(details') /\ \A d \in DOMAIN details' : details'[d].dict \in dicts'
  <2>1. overlaps = 0
    BY <1>10, <1>15 DEF CountsKept
  <2>2. Placed(details) /\ InOrder(o, details, dicts) /\ \A d \in DOMAIN details : details[d].dict \in dicts
    BY <2>1 DEF DictInv, Orderly
  <2>3. o.dict \in dicts /\ Fits(o, details)
    BY <1>1, <2>2 DEF InOrder
  <2>4. \A d \in DOMAIN details' : details'[d].dict \in dicts'
    BY <1>1, <1>5, <1>7, <2>2, <2>3
  <2>5. ASSUME NEW d \in DOMAIN details'
        PROVE  IF details'[d].parent = NoDetail THEN details'[d].place = Top
               ELSE /\ details'[d].parent \in OfDict(details', details'[d].dict)
                    /\ details'[d].place = Under(details'[d].parent, details'[details'[d].parent].place)
    <3>1. CASE d = n
      BY <1>5, <1>7, <2>3, <3>1 DEF Fits, OfDict
    <3>2. CASE d # n
      BY <1>5, <2>2, <3>2 DEF Placed, OfDict
    <3>3. QED
      BY <3>1, <3>2
  <2>6. QED
    BY <2>4, <2>5 DEF Placed
<1>16. OrderKept(q)
  BY <1>15, NoRequestIsInOrder DEF OrderKept
<1>17. freshDicts' \subseteq Dicts /\ dicts' \subseteq Dicts \ freshDicts'
  BY <1>1 DEF DictInv, DictTypes
<1>18. QED
  BY <1>10, <1>11, <1>14, <1>16, <1>17, StepKeeps

\* The rows that an update commits: its own, and the places it has planned.
Committed(rows, rows2, q) ==
    /\ DOMAIN rows2 = DOMAIN rows
    /\ \A d \in DOMAIN rows :
           rows2[d] = IF d = q.detail THEN [dict |-> q.dict, parent |-> q.parent, place |-> q.place]
                      ELSE IF d \in DOMAIN q.plan \cap OfDict(rows, q.dict)
                           THEN [dict |-> rows[d].dict, parent |-> rows[d].parent, place |-> q.plan[d]]
                           ELSE rows[d]

\* They have the parents that the update has seen.
LEMMA CommittedRows ==
    ASSUME NEW rows, NEW fresh, NEW rows2, NEW q, Committed(rows, rows2, q), q.pc = "apply",
           Known(q, rows, fresh), RowsSound(rows, fresh)
    PROVE  /\ RowsSound(rows2, fresh)
           /\ \A d \in DOMAIN rows : rows2[d].dict = rows[d].dict
           /\ \A d \in DOMAIN rows : rows2[d].parent = SeenBy(q, rows)[d].parent
<1> DEFINE seen == SeenBy(q, rows)
           row == [dict |-> q.dict, parent |-> q.parent, place |-> q.place]
           planned == DOMAIN q.plan \cap OfDict(rows, q.dict)
<1>1. /\ DOMAIN rows2 = DOMAIN rows /\ rows2[q.detail] = row
      /\ \A d \in planned : d # q.detail =>
             rows2[d] = [dict |-> rows[d].dict, parent |-> rows[d].parent, place |-> q.plan[d]]
      /\ \A d \in DOMAIN rows : d # q.detail /\ d \notin planned => rows2[d] = rows[d]
      /\ planned \subseteq DOMAIN rows
  BY DEF Committed, Known, OfDict
<1>2. /\ q \in DictReqs /\ q.dict \in Dicts /\ q.parent \in (Details \ fresh) \cup {NoDetail}
      /\ q.detail \in DOMAIN rows /\ rows[q.detail].dict = q.dict
      /\ q.parent \in DOMAIN rows => rows[q.parent].dict = q.dict
  BY DEF Known, Moves
<1>3. RowsTyped(rows)
  BY DEF RowsSound
<1>4. ASSUME NEW d \in planned PROVE q.plan[d] \in Places
  <2>1. q.plan \in Plans
    BY <1>2 DEF DictReqs
  <2>2. PICK S \in SUBSET Details : q.plan \in [S -> Places]
    BY <2>1 DEF Plans
  <2>3. QED
    BY <2>2
<1>5. row \in DetailRows /\ row.dict = q.dict /\ row.parent = q.parent
  BY <1>2 DEF DetailRows, DictReqs
<1> HIDE DEF row, planned
<1>6. ASSUME NEW d \in DOMAIN rows
      PROVE  /\ rows2[d] \in DetailRows /\ rows2[d].dict = rows[d].dict
             /\ rows2[d].parent = IF d = q.detail THEN q.parent ELSE rows[d].parent
  <2>1. rows[d] \in DetailRows
    BY <1>3 DEF RowsTyped
  <2>2. CASE d = q.detail
    BY <1>1, <1>2, <1>5, <2>2
  <2>3. CASE d # q.detail /\ d \in planned
    <3>1. rows2[d] = [dict |-> rows[d].dict, parent |-> rows[d].parent, place |-> q.plan[d]]
      BY <1>1, <2>3
    <3>2. q.plan[d] \in Places
      BY <1>4, <2>3
    <3>3. rows[d].dict \in Dicts /\ rows[d].parent \in Details \cup {NoDetail}
      BY <2>1 DEF DetailRows
    <3>4. rows2[d] \in DetailRows
      BY <3>1, <3>2, <3>3 DEF DetailRows
    <3>5. QED
      BY <2>3, <3>1, <3>4
  <2>4. CASE d # q.detail /\ d \notin planned
    BY <1>1, <2>1, <2>4
  <2>5. QED
    BY <2>2, <2>3, <2>4
<1>7. OneFamily(rows2)
  <2> SUFFICES ASSUME NEW d \in DOMAIN rows, rows2[d].parent \in DOMAIN rows
               PROVE  rows2[rows2[d].parent].dict = rows2[d].dict
    BY <1>1 DEF OneFamily
  <2>1. CASE d = q.detail
    BY <1>2, <1>6, <2>1
  <2>2. CASE d # q.detail
    BY <1>6, <2>2 DEF RowsSound, OneFamily
  <2>3. QED
    BY <2>1, <2>2
<1>8. RowsSound(rows2, fresh)
  <2>1. RowsTyped(rows2)
    BY <1>1, <1>3, <1>6 DEF RowsTyped
  <2>2. \A d \in DOMAIN rows2 : rows2[d].parent \in (Details \ fresh) \cup {NoDetail}
    BY <1>1, <1>2, <1>6 DEF RowsSound
  <2>3. QED
    BY <1>1, <1>7, <2>1, <2>2 DEF RowsSound
<1>9. ASSUME NEW d \in DOMAIN rows PROVE rows2[d].parent = seen[d].parent
  <2>1. seen[d] = IF d = q.detail THEN row ELSE rows[d]
    BY SeenRows DEF row
  <2>2. QED
    BY <1>5, <1>6, <2>1
<1>10. QED
  BY <1>6, <1>8, <1>9

\* An update that met no other operation leaves every row placed: its own below
\* the parent, which is not below it; what is below it as planned; and the rest
\* as they were.
LEMMA CommittedPlaces ==
    ASSUME NEW rows, NEW fresh, NEW rows2, NEW q, Committed(rows, rows2, q), q.pc = "apply",
           Known(q, rows, fresh), RowsSound(rows, fresh), Placed(rows),
           Ringless(SeenBy(q, rows)), Fits(q, rows), q.plan = BelowPlaced(SeenBy(q, rows), q)
    PROVE  Placed(rows2)
<1> DEFINE seen == SeenBy(q, rows)
           T == Subtree(seen, q.dict, q.detail)
           At(d) == IF rows2[d].parent = NoDetail THEN rows2[d].place = Top
                    ELSE /\ rows2[d].parent \in OfDict(rows2, rows2[d].dict)
                         /\ rows2[d].place = Under(rows2[d].parent, rows2[rows2[d].parent].place)
<1>1. /\ RowsSound(rows2, fresh) /\ DOMAIN rows2 = DOMAIN rows
      /\ \A d \in DOMAIN rows : rows2[d].dict = rows[d].dict /\ rows2[d].parent = seen[d].parent
  <2>1. DOMAIN rows2 = DOMAIN rows
    BY DEF Committed
  <2>2. QED
    BY <2>1, CommittedRows
<1>2. /\ DOMAIN seen = DOMAIN rows /\ RowsTyped(seen) /\ q.detail \in OfDict(seen, q.dict)
      /\ \A d \in DOMAIN rows : d # q.detail => seen[d] = rows[d]
      /\ seen[q.detail].parent = q.parent /\ seen[q.detail].place = q.place
      /\ q.detail \in DOMAIN rows
  <2> DEFINE row == [dict |-> q.dict, parent |-> q.parent, place |-> q.place]
  <2>1. q.detail \in DOMAIN rows
    BY DEF Known
  <2>2. row.parent = q.parent /\ row.place = q.place
    OBVIOUS
  <2> HIDE DEF row
  <2>3. /\ DOMAIN seen = DOMAIN rows /\ RowsTyped(seen) /\ q.detail \in OfDict(seen, q.dict)
        /\ \A d \in DOMAIN rows : seen[d] = IF d = q.detail THEN row ELSE rows[d]
    BY SeenRows DEF row
  <2> HIDE DEF seen
  <2>4. seen[q.detail] = row
    BY <2>1, <2>3
  <2>5. QED
    BY <2>1, <2>2, <2>3, <2>4
<1>3. \A dict : OfDict(seen, dict) = OfDict(rows, dict) /\ OfDict(rows2, dict) = OfDict(rows, dict)
  <2>1. rows[q.detail].dict = q.dict /\ seen[q.detail].dict = q.dict
    BY <1>2 DEF Known, OfDict, Moves
  <2>2. \A d \in DOMAIN rows : seen[d].dict = rows[d].dict
    BY <1>2, <2>1
  <2>3. QED
    BY <1>1, <1>2, <2>2 DEF OfDict
<1>4. /\ T \subseteq OfDict(rows, q.dict) /\ q.detail \in T
      /\ \A x \in OfDict(rows, q.dict) : seen[x].parent \in T => x \in T
      /\ \A x \in T \ {q.detail} : seen[x].parent \in T
  <2>1. DOMAIN seen \subseteq Details
    BY <1>2 DEF RowsTyped
  <2>2. QueryEnds(seen, q.dict, q.detail)
    BY <2>1, QueriesEnd
  <2>3. QED
    BY <1>2, <1>3, <2>1, <2>2, SubtreeFound
<1>5. DOMAIN q.plan = T \ {q.detail}
  BY <1>2, PlannedPlaces
<1>6. ASSUME NEW d \in T \ {q.detail}
      PROVE  q.plan[d] = Under(seen[d].parent, IF seen[d].parent = q.detail THEN q.place ELSE q.plan[seen[d].parent])
  BY <1>2, PlansFollow
<1>7. q.parent \notin T
  <2>1. T \in SUBSET DOMAIN seen /\ T # {}
    BY <1>2, <1>4 DEF OfDict
  <2>2. PICK e \in T : seen[e].parent \notin T
    <3> HIDE DEF T
    <3>1. QED
      BY <2>1 DEF Ringless
  <2>3. e = q.detail
    BY <1>4, <2>2
  <2>4. QED
    BY <1>2, <2>2, <2>3
<1>8. /\ rows2[q.detail].parent = q.parent /\ rows2[q.detail].place = q.place /\ rows2[q.detail].dict = q.dict
      /\ \A d \in T \ {q.detail} : rows2[d].place = q.plan[d]
      /\ \A d \in DOMAIN rows \ T : rows2[d] = rows[d]
  BY <1>2, <1>4, <1>5 DEF Committed, OfDict
<1>9. NoDetail \notin T
  BY <1>1, <1>4, DictConstants DEF RowsSound, OfDict
<1> HIDE DEF seen, T
<1>10. ASSUME NEW d \in DOMAIN rows PROVE At(d)
  <2>1. CASE d = q.detail
    <3>1. CASE q.parent = NoDetail
      BY <1>8, <2>1, <3>1 DEF Fits
    <3>2. CASE q.parent # NoDetail
      <4>1. q.parent \in OfDict(rows, q.dict) /\ q.place = Under(q.parent, rows[q.parent].place)
        BY <3>2 DEF Fits
      <4>2. rows2[q.parent] = rows[q.parent]
        BY <1>7, <1>8, <4>1 DEF OfDict
      <4>3. QED
        BY <1>3, <1>8, <2>1, <3>2, <4>1, <4>2
    <3>3. QED
      BY <3>1, <3>2
  <2>2. CASE d \in T \ {q.detail}
    <3> DEFINE p == seen[d].parent
    <3>1. p \in T /\ p # NoDetail /\ rows2[d].parent = p
      BY <1>1, <1>4, <1>9, <2>2
    <3>2. p \in OfDict(rows2, rows2[d].dict)
      BY <1>1, <1>3, <1>4, <2>2, <3>1 DEF OfDict
    <3>3. rows2[d].place = Under(p, IF p = q.detail THEN q.place ELSE q.plan[p])
      BY <1>6, <1>8, <2>2
    <3>4. rows2[p].place = IF p = q.detail THEN q.place ELSE q.plan[p]
      BY <1>8, <3>1
    <3>5. QED
      BY <3>1, <3>2, <3>3, <3>4
  <2>3. CASE d \notin T
    <3>1. rows2[d] = rows[d] /\ rows[d].parent = seen[d].parent
      BY <1>2, <1>4, <1>8, <2>3
    <3>2. CASE rows[d].parent = NoDetail
      BY <3>1, <3>2 DEF Placed
    <3>3. CASE rows[d].parent # NoDetail
      <4>1. /\ rows[d].parent \in OfDict(rows, rows[d].dict)
            /\ rows[d].place = Under(rows[d].parent, rows[rows[d].parent].place)
        BY <3>3 DEF Placed
      <4>2. rows[d].parent \notin T
        BY <1>4, <2>3, <3>1, <4>1 DEF OfDict
      <4>3. rows2[rows[d].parent] = rows[rows[d].parent]
        BY <1>8, <4>1, <4>2 DEF OfDict
      <4>4. QED
        BY <1>3, <3>1, <3>3, <4>1, <4>3
    <3>4. QED
      BY <3>2, <3>3
  <2>4. QED
    BY <2>1, <2>2, <2>3
<1>11. QED
  BY <1>1, <1>10 DEF Placed

LEMMA CommitMoveInv ==
    ASSUME DictInv, NEW r \in DictRequests, CommitMove(r)
    PROVE  DictInv'
<1> DEFINE o == dictReqs[r]
           q == NoDictRequest
           placed == DOMAIN o.plan \cap OfDict(details, o.dict)
<1>1. /\ o.pc = "apply" /\ Continue(r, q)
      /\ dicts' = dicts /\ freshDicts' = freshDicts /\ freshDetails' = freshDetails
      /\ details' = [d \in DOMAIN details |->
             CASE d \in DOMAIN o.written -> o.written[d]
               [] d \in placed -> [details[d] EXCEPT !.place = o.plan[d]]
               [] OTHER -> details[d]]
  BY DEF CommitMove, EndDict
<1>2. /\ o \in DictReqs /\ Known(o, details, freshDetails) /\ RowsSound(details, freshDetails)
      /\ RowsTyped(details)
  BY OneRequest DEF RowsSound
<1>3. Committed(details, details', o)
  <2> DEFINE row == [dict |-> o.dict, parent |-> o.parent, place |-> o.place]
  <2>1. DOMAIN o.written = {o.detail} /\ o.written[o.detail] = row /\ o.detail \notin DOMAIN o.plan
    BY <1>1, <1>2 DEF Known
  <2>2. \A d \in DOMAIN details :
            [details[d] EXCEPT !.place = o.plan[d]] =
                [dict |-> details[d].dict, parent |-> details[d].parent, place |-> o.plan[d]]
    BY <1>2 DEF RowsTyped, DetailRows
  <2> HIDE DEF row
  <2>3. ASSUME NEW d \in DOMAIN details
        PROVE  details'[d] = IF d = o.detail THEN row
                             ELSE IF d \in placed
                                  THEN [dict |-> details[d].dict, parent |-> details[d].parent, place |-> o.plan[d]]
                                  ELSE details[d]
    <3>1. CASE d = o.detail
      BY <1>1, <2>1, <3>1
    <3>2. CASE d # o.detail /\ d \in placed
      <4>1. details'[d] = [details[d] EXCEPT !.place = o.plan[d]]
        BY <1>1, <2>1, <3>2
      <4>2. QED
        BY <2>2, <3>2, <4>1
    <3>3. CASE d # o.detail /\ d \notin placed
      BY <1>1, <2>1, <3>3
    <3>4. QED
      BY <3>1, <3>2, <3>3
  <2>4. QED
    BY <1>1, <2>3 DEF Committed, row
<1> HIDE DEF placed
<1>4. /\ RowsSound(details', freshDetails') /\ DOMAIN details' = DOMAIN details
      /\ \A d \in DOMAIN details : details'[d].dict = details[d].dict
      /\ \A d \in DOMAIN details : details'[d].parent = SeenBy(o, details)[d].parent
  <2>1. DOMAIN details' = DOMAIN details
    BY <1>3 DEF Committed
  <2>2. o.pc = "apply" /\ freshDetails' = freshDetails
    BY <1>1
  <2> HIDE DEF o
  <2>3. /\ RowsSound(details', freshDetails)
        /\ \A d \in DOMAIN details : details'[d].dict = details[d].dict
        /\ \A d \in DOMAIN details : details'[d].parent = SeenBy(o, details)[d].parent
    BY <1>2, <1>3, <2>2, CommittedRows
  <2>4. QED
    BY <2>1, <2>2, <2>3
<1>5. Becomes(r, q) /\ CountsKept(r, q)
  BY <1>1, NoRequestHoldsNothing, ContinueCounts DEF Moves
<1>6. ASSUME NEW s \in DictRequests \ {r} PROVE Known(dictReqs[s], details', freshDetails')
  <2>1. RowsFollow(details, freshDetails, details', freshDetails')
    BY <1>1, <1>2, <1>4 DEF RowsFollow, RowsSound
  <2>2. Known(dictReqs[s], details, freshDetails)
    BY OneRequest
  <2>3. dictReqs[s].pc \in {"refresh", "apply"} => dictReqs[s].detail \in DOMAIN details'
    BY <1>4, <2>2 DEF Known
  <2>4. QED
    BY <2>1, <2>2, <2>3, KnownStays
<1>7. RowsKept(r, q)
  BY <1>4, <1>6, NoRequestHoldsNothing, NoRequestIsKnown DEF RowsKept
<1>8. ASSUME ~detailRingRisk
      PROVE  Ringless(SeenBy(o, details))
  BY <1>1, <1>8, OneRequest DEF RinglessMove
<1>9. ASSUME ~detailRingRisk PROVE Ringless(details')
  <2> DEFINE seen == SeenBy(o, details)
  <2>1. Ringless(seen) /\ DOMAIN seen = DOMAIN details
    BY <1>8, <1>9 DEF SeenBy
  <2>2. \A d \in DOMAIN details' : details'[d].parent = seen[d].parent
    BY <1>4
  <2> HIDE DEF seen
  <2>3. QED
    BY <1>4, <2>1, <2>2, RinglessShrinks
<1>10. ASSUME ~detailRingRisk, NEW s \in DictRequests \ {r} PROVE RinglessMove(dictReqs[s], details', freshDetails')
  <2>1. dictReqs[s].pc \notin Moves
    BY <1>1, <1>10 DEF DictInv, NoRings, Moves
  <2>2. QED
    BY <2>1 DEF RinglessMove, Moves
<1>11. RingsKept(r, q)
  BY <1>5, <1>9, <1>10, NoRequestIsKnown DEF RingsKept, CountsKept
<1>12. ASSUME overlaps' = 0
       PROVE  Placed(details') /\ \A d \in DOMAIN details' : details'[d].dict \in dicts'
  <2>1. overlaps = 0 /\ ~detailRingRisk
    BY <1>5, <1>12 DEF CountsKept, DictInv, DictTypes
  <2>2. Placed(details) /\ InOrder(o, details, dicts) /\ \A d \in DOMAIN details : details[d].dict \in dicts
    BY <2>1 DEF DictInv, Orderly
  <2>3. Fits(o, details) /\ o.plan = BelowPlaced(SeenBy(o, details), o)
    BY <1>1, <2>2 DEF InOrder
  <2>4. Placed(details')
    BY <1>1, <1>2, <1>3, <1>8, <2>1, <2>2, <2>3, CommittedPlaces
  <2>5. QED
    BY <1>1, <1>4, <2>2, <2>4
<1>13. OrderKept(q)
  BY <1>12, NoRequestIsInOrder DEF OrderKept
<1>14. freshDicts' \subseteq Dicts /\ dicts' \subseteq Dicts \ freshDicts'
  BY <1>1 DEF DictInv, DictTypes
<1>15. QED
  BY <1>5, <1>7, <1>11, <1>13, <1>14, StepKeeps

LEMMA DictNextInv == DictInv /\ [DictNext]_dictVars => DictInv'
<1> SUFFICES ASSUME DictInv, [DictNext]_dictVars PROVE DictInv'
  OBVIOUS
<1>1. CASE UNCHANGED dictVars
  BY <1>1 DEF dictVars, DictInv, DictTypes, RequestsKnow, NoRings, Orderly
<1>2. ASSUME NEW i \in Dicts, CreateDict(i) PROVE DictInv'
  BY <1>2, CreateDictInv
<1>3. ASSUME NEW r \in DictRequests, DeleteDetails(r) PROVE DictInv'
  BY <1>3, DeleteDetailsInv
<1>4. ASSUME NEW r \in DictRequests, DeleteDictRow(r) PROVE DictInv'
  BY <1>4, DeleteDictRowInv
<1>5. ASSUME NEW r \in DictRequests, EnsureDict(r) PROVE DictInv'
  BY <1>5, EnsureDictInv
<1>6. ASSUME NEW r \in DictRequests, PlaceDetail(r) PROVE DictInv'
  BY <1>6, PlaceDetailInv
<1>7. ASSUME NEW r \in DictRequests, InsertDetail(r) PROVE DictInv'
  BY <1>7, InsertDetailInv
<1>8. ASSUME NEW r \in DictRequests, CheckDetail(r) PROVE DictInv'
  BY <1>8, CheckDetailInv
<1>9. ASSUME NEW r \in DictRequests, ReadParent(r) PROVE DictInv'
  BY <1>9, ReadParentInv
<1>10. ASSUME NEW r \in DictRequests, MoveDetail(r) PROVE DictInv'
  BY <1>10, MoveDetailInv
<1>11. ASSUME NEW r \in DictRequests, PlanBelow(r) PROVE DictInv'
  BY <1>11, PlanBelowInv
<1>12. ASSUME NEW r \in DictRequests, CommitMove(r) PROVE DictInv'
  BY <1>12, CommitMoveInv
<1>13. ASSUME NEW r \in DictRequests, FindSubtree(r) PROVE DictInv'
  BY <1>13, FindSubtreeInv
<1>14. ASSUME NEW r \in DictRequests, DeleteBelow(r) PROVE DictInv'
  BY <1>14, DeleteBelowInv
<1>15. ASSUME NEW r \in DictRequests, AbortDict(r) PROVE DictInv'
  BY <1>15, AbortDictInv
<1>16. QED
  BY <1>1, <1>2, <1>3, <1>4, <1>5, <1>6, <1>7, <1>8, <1>9, <1>10, <1>11, <1>12, <1>13, <1>14, <1>15 DEF DictNext

\* In every reachable state the details and the operations on them are as DictInv
\* says: what an operation has read of the rows, and still relies on, holds
\* (crates/metadata/src/dictionaries).
THEOREM DictionariesInvariance == DictSpec => []DictInv
<1>1. DictInit => DictInv
  BY DictInitInv
<1>2. DictInv /\ [DictNext]_dictVars => DictInv'
  BY DictNextInv
<1>3. QED
  BY <1>1, <1>2, PTL DEF DictSpec

LEMMA InvariantDetailsFit == DictInv => DetailsFitDictionaries
<1> SUFFICES ASSUME DictInv PROVE DetailsFitDictionaries
  OBVIOUS
<1>1. RowsSound(details, freshDetails)
  BY DEF DictInv, RequestsKnow
<1>2. RowsTyped(details)
  BY <1>1 DEF RowsSound
<1>3. DictTypeOK
  <2>1. ASSUME NEW d \in DOMAIN details
        PROVE  /\ details[d].dict \in Dicts /\ details[d].parent \in Details \cup {NoDetail}
               /\ details[d].place[1] \in Nat /\ details[d].place[2] \in Seq(Details)
    <3>1. details[d] \in DetailRows
      BY <1>2 DEF RowsTyped
    <3>2. details[d].place \in Places
      BY <3>1 DEF DetailRows
    <3>3. QED
      BY <3>1, <3>2 DEF DetailRows, Places
  <2>2. QED
    BY <1>1, <2>1 DEF DictTypeOK, DictInv, DictTypes, RequestsKnow, RowsSound
<1>4. ColumnsMatchTree
  <2> SUFFICES ASSUME overlaps = 0, NEW i \in Dicts
               PROVE  /\ {x[1] : x \in Shown(details, i)} = OfDict(details, i)
                      /\ \A x \in Shown(details, i) :
                             /\ details[x[1]].place = <<Len(x[2]), x[2]>>
                             /\ PathRows(details, x[1]) = {x[1]} \cup {x[2][n] : n \in DOMAIN x[2]}
    BY DEF ColumnsMatchTree
  <2>1. Placed(details)
    BY DEF DictInv, Orderly
  <2>2. QED
    BY <1>2, <2>1, PlacesMatchTree
<1>5. DetailsHaveDictionary
  BY DEF DetailsHaveDictionary, DictInv, Orderly
<1>6. ParentsOfSameDictionary
  BY <1>1 DEF ParentsOfSameDictionary, RowsSound, OneFamily
<1>7. QED
  BY <1>3, <1>4, <1>5, <1>6 DEF DetailsFitDictionaries

\* Unless operations overlapped, the tree of a dictionary shows all its details,
\* each with the level and path that the tree gives it, and no detail outlives its
\* dictionary; and whatever overlaps none hangs below one of another dictionary
\* (update_detail, delete_detail, delete).
THEOREM DetailsFit == DictSpec => []DetailsFitDictionaries
<1>1. DictInv => DetailsFitDictionaries
  BY InvariantDetailsFit
<1>2. QED
  BY <1>1, DictionariesInvariance, PTL

LEMMA InvariantQueriesEnd == DictInv => RecursiveQueriesEnd
<1> SUFFICES ASSUME DictInv, ~detailRingRisk, NEW r \in DictRequests, NEW d \in DOMAIN details
             PROVE  QueryEnds(Seen(r), details[d].dict, d)
  BY DEF RecursiveQueriesEnd
<1> DEFINE q == dictReqs[r]
           seen == SeenBy(q, details)
<1>1. Seen(r) = seen
  BY DEF Seen, SeenBy
<1>2. /\ Known(q, details, freshDetails) /\ RowsSound(details, freshDetails)
      /\ RinglessMove(q, details, freshDetails) /\ Ringless(details)
  BY OneRequest
<1>3. DOMAIN seen = DOMAIN details /\ RowsTyped(seen)
  BY <1>2, SeenRows
<1>4. Ringless(seen)
  <2>1. CASE q.pc \in {"refresh", "apply"}
    BY <1>2, <2>1 DEF RinglessMove
  <2>2. CASE q.pc \notin {"refresh", "apply"}
    <3>1. \A x \in DOMAIN details : seen[x] = details[x]
      <4>1. DOMAIN q.written = {}
        BY <1>2, <2>2 DEF Known
      <4>2. QED
        BY <4>1 DEF SeenBy
    <3> HIDE DEF seen
    <3>2. QED
      BY <1>2, <1>3, <3>1, RinglessShrinks
  <2>3. QED
    BY <2>1, <2>2
<1>5. DOMAIN seen \subseteq Details
  BY <1>3 DEF RowsTyped
<1> HIDE DEF seen
<1>6. QED
  BY <1>1, <1>4, <1>5, QueriesEnd

\* Unless two updates of details were in progress at once, every recursive query
\* comes back: no operation sees details above each other (update_detail).
THEOREM QueriesAlwaysEnd == DictSpec => []RecursiveQueriesEnd
<1>1. DictInv => RecursiveQueriesEnd
  BY InvariantQueriesEnd
<1>2. QED
  BY <1>1, DictionariesInvariance, PTL

=============================================================================
