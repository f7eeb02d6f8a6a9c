-------------------------- MODULE MenuCatalogProofs --------------------------
(***************************************************************************)
(* Proofs about the menu table: that a table which from_nodes accepts has  *)
(* one meaning, in the process and in the database, for any number of      *)
(* menus and any depth; what may be granted; and what is shown.            *)
(***************************************************************************)
EXTENDS MenuCatalog, AdministrationProofs

-----------------------------------------------------------------------------
(* Walks up the parents.                                                   *)

Size(t) == Cardinality(DOMAIN t)

\* What validate_node and the constraints of the table leave.
IsCatalog(t) == Storable(t) /\ Accepted(t)

LEMMA StorableRows ==
    ASSUME NEW t, Storable(t)
    PROVE  /\ Size(t) \in Nat /\ IsFiniteSet(DOMAIN t) /\ DOMAIN t \subseteq Menus /\ NoMenu \notin DOMAIN t
           /\ \A m \in DOMAIN t : /\ t[m] \in Row /\ t[m].parent \in DOMAIN t \cup {NoMenu} /\ Size(t) # 0
                                  /\ t[m].type = "directory" <=> t[m].permission = NoPermission
<1>1. IsFiniteSet(DOMAIN t) /\ DOMAIN t \subseteq Menus /\ NoMenu \notin Menus
  BY MenuConstants DEF Storable
<1>2. Size(t) \in Nat
  BY <1>1, FS_CardinalityType DEF Size
<1>3. Size(t) = 0 => DOMAIN t = {}
  BY <1>1, FS_EmptySet DEF Size
<1>4. QED
  BY <1>1, <1>2, <1>3 DEF Storable

\* Going up from m: one parent after the other.
WalksUp(g, t, m) ==
    /\ g \in [0..Size(t) -> DOMAIN t \cup {NoMenu}]
    /\ g[0] = m
    /\ \A k \in 1..Size(t) : g[k] = Parent(t, g[k - 1])

LEMMA UpWalks ==
    ASSUME NEW t, Storable(t), NEW m \in DOMAIN t \cup {NoMenu}
    PROVE  WalksUp(Up(t, m), t, m)
<1> DEFINE n == Size(t)
           D == DOMAIN t \cup {NoMenu}
           F == [x \in D |-> Parent(t, x)]
           Step(up) == [k \in 0..n |-> IF k = 0 THEN m ELSE Parent(t, up[k - 1])]
           up == CHOOSE h : h = Step(h)
<1>1. n \in Nat /\ \A x : Parent(t, x) \in D
  BY StorableRows DEF Parent
<1>2. F \in [D -> D]
  BY <1>1
<1>3. PICK g : IsIterate(g, D, F, m, n)
  <2> HIDE DEF F, D, n
  <2>1. m \in D
    BY DEF D
  <2>2. QED
    BY <1>1, <1>2, <2>1, Iterates
<1> HIDE DEF n
<1>4. g = Step(g)
  <2>1. ASSUME NEW k \in 0..n
        PROVE  g[k] = IF k = 0 THEN m ELSE Parent(t, g[k - 1])
    <3>1. CASE k = 0
      BY <1>3, <3>1 DEF IsIterate
    <3>2. CASE k # 0
      <4>1. k \in 1..n /\ k - 1 \in 0..n
        BY <1>1, <3>2
      <4>2. g[k] = F[g[k - 1]] /\ g[k - 1] \in D
        <5> HIDE DEF F, D
        <5>1. QED
          BY <1>3, <4>1 DEF IsIterate
      <4>3. QED
        BY <3>2, <4>2
    <3>3. QED
      BY <3>1, <3>2
  <2>2. g = [k \in 0..n |-> g[k]]
    <3> HIDE DEF F, D
    <3>1. QED
      BY <1>3 DEF IsIterate
  <2>3. QED
    BY <2>1, <2>2
<1>5. up = Step(up)
  <2> HIDE DEF Step
  <2>1. QED
    BY <1>4
<1>6. Up(t, m) = up
  BY DEF Up, Size, n
<1>7. WalksUp(up, t, m)
  <2> HIDE DEF up
  <2>1. \A k \in 0..n : (IF k = 0 THEN m ELSE Parent(t, up[k - 1])) \in D
    BY <1>1
  <2>2. up \in [0..n -> D] /\ up[0] = m
    <3> HIDE DEF D
    <3>1. QED
      BY <1>1, <1>5, <2>1
  <2>3. ASSUME NEW k \in 1..n
        PROVE  up[k] = Parent(t, up[k - 1])
    <3>1. k \in 0..n /\ k # 0
      BY <1>1
    <3>2. QED
      BY <1>5, <3>1
  <2>4. QED
    BY <2>2, <2>3 DEF WalksUp, n
<1>8. QED
  BY <1>6, <1>7

\* Above the top there is nothing.
LEMMA NothingAbove ==
    ASSUME NEW t, Storable(t)
    PROVE  \A k \in 0..Size(t) : Up(t, NoMenu)[k] = NoMenu
<1> DEFINE n == Size(t)
           g == Up(t, NoMenu)
           G == {k \in 0..n : g[k] = NoMenu}
<1>1. n \in Nat /\ NoMenu \notin DOMAIN t /\ WalksUp(g, t, NoMenu)
  BY StorableRows, UpWalks
<1> HIDE DEF g, n
<1>2. 0 \in G
  BY <1>1 DEF WalksUp
<1>3. ASSUME NEW k \in 0..(n - 1), k \in G
      PROVE  k + 1 \in G
  <2>1. k + 1 \in 1..n /\ k + 1 \in 0..n /\ (k + 1) - 1 = k
    BY <1>1
  <2>2. g[k + 1] = Parent(t, g[k])
    BY <1>1, <2>1 DEF WalksUp, n
  <2>3. QED
    BY <1>1, <1>3, <2>1, <2>2 DEF Parent
<1>4. \A k \in 0..n : k \in G
  <2> HIDE DEF G
  <2>1. QED
    BY <1>1, <1>2, <1>3, UpTo
<1>5. QED
  BY <1>4 DEF g, n

\* The walk of a row is that of its parent, one step later.
LEMMA WalkOfParent ==
    ASSUME NEW t, Storable(t), NEW m \in DOMAIN t
    PROVE  \A k \in 1..Size(t) : Up(t, m)[k] = Up(t, t[m].parent)[k - 1]
<1> DEFINE n == Size(t)
           p == t[m].parent
           g == Up(t, m)
           h == Up(t, p)
           G == {k \in 0..n : k = 0 \/ g[k] = h[k - 1]}
<1>1. n \in Nat /\ p \in DOMAIN t \cup {NoMenu}
  BY StorableRows
<1>2. WalksUp(g, t, m) /\ WalksUp(h, t, p)
  BY <1>1, UpWalks
<1>3. Parent(t, m) = p
  BY DEF Parent
<1> HIDE DEF g, h, n, p
<1>4. 0 \in G
  BY <1>1
<1>5. ASSUME NEW k \in 0..(n - 1), k \in G
      PROVE  k + 1 \in G
  <2>1. k + 1 \in 1..n /\ k + 1 \in 0..n /\ (k + 1) - 1 = k
    BY <1>1
  <2>2. g[k + 1] = Parent(t, g[k])
    BY <1>2, <2>1 DEF WalksUp, n
  <2>3. CASE k = 0
    BY <1>2, <1>3, <2>1, <2>2, <2>3 DEF WalksUp
  <2>4. CASE k # 0
    <3>1. k \in 1..n /\ g[k] = h[k - 1]
      BY <1>1, <1>5, <2>4
    <3>2. h[k] = Parent(t, h[k - 1])
      BY <1>2, <3>1 DEF WalksUp, n
    <3>3. QED
      BY <2>1, <2>2, <3>1, <3>2
  <2>5. QED
    BY <2>3, <2>4
<1>6. \A k \in 0..n : k \in G
  <2> HIDE DEF G
  <2>1. QED
    BY <1>1, <1>4, <1>5, UpTo
<1>7. \A k \in 1..n : k \in 0..n /\ k # 0
  BY <1>1
<1>8. QED
  BY <1>6, <1>7 DEF g, h, n, p

-----------------------------------------------------------------------------
(* Ancestors.                                                              *)

\* Every walk in a catalog ends: the ancestors of a row are its parent and the
\* ancestors of that.
LEMMA AncestorsOf ==
    ASSUME NEW t, IsCatalog(t), NEW m \in DOMAIN t
    PROVE  Ancestors(t, m) = IF t[m].parent = NoMenu THEN {} ELSE {t[m].parent} \cup Ancestors(t, t[m].parent)
<1> DEFINE n == Size(t)
           p == t[m].parent
           g == Up(t, m)
           h == Up(t, p)
<1>1. n \in Nat /\ n # 0 /\ p \in DOMAIN t \cup {NoMenu} /\ Storable(t)
  BY StorableRows DEF IsCatalog
<1>2. WalksUp(h, t, p)
  BY <1>1, UpWalks
<1>3. \A k \in 1..n : g[k] = h[k - 1]
  BY <1>1, WalkOfParent
<1>4. h[n] = NoMenu
  <2>1. CASE p = NoMenu
    <3>1. n \in 0..n
      BY <1>1
    <3>2. QED
      BY <1>1, <2>1, <3>1, NothingAbove
  <2>2. CASE p \in DOMAIN t
    BY <2>2 DEF IsCatalog, Accepted, ValidNode, OnCycle, Size
  <2>3. QED
    BY <1>1, <2>1, <2>2
<1>5. h[0] = p
  BY <1>2 DEF WalksUp
<1>6. Ancestors(t, m) = {g[k] : k \in 1..n} \ {NoMenu} /\ Ancestors(t, p) = {h[k] : k \in 1..n} \ {NoMenu}
  BY DEF Ancestors, Size
<1>7. p = NoMenu => Ancestors(t, p) = {}
  <2> SUFFICES ASSUME p = NoMenu, NEW k \in 1..n PROVE h[k] = NoMenu
    BY <1>6
  <2>1. k \in 0..n
    BY <1>1
  <2>2. QED
    BY <1>1, <2>1, NothingAbove
<1> HIDE DEF g, h, n, p
<1>8. {g[k] : k \in 1..n} \ {NoMenu} = ({p} \cup {h[k] : k \in 1..n}) \ {NoMenu}
  <2>1. ASSUME NEW k \in 1..n PROVE g[k] \in {p} \cup {h[j] : j \in 1..n}
    <3>1. k = 1 \/ k - 1 \in 1..n
      BY <1>1
    <3>2. QED
      BY <1>3, <1>5, <3>1
  <2>2. p \in {g[k] : k \in 1..n}
    <3>1. 1 \in 1..n /\ 1 - 1 = 0
      BY <1>1
    <3>2. QED
      BY <1>3, <1>5, <3>1
  <2>3. ASSUME NEW k \in 1..n PROVE h[k] = NoMenu \/ h[k] \in {g[j] : j \in 1..n}
    <3>1. k = n \/ (k + 1 \in 1..n /\ (k + 1) - 1 = k)
      BY <1>1
    <3>2. QED
      BY <1>3, <1>4, <3>1
  <2>4. QED
    BY <2>1, <2>2, <2>3
<1>9. Ancestors(t, m) = IF p = NoMenu THEN {} ELSE {p} \cup Ancestors(t, p)
  BY <1>6, <1>7, <1>8
<1>10. QED
  BY <1>9 DEF p

\* A row is effectively enabled if it is and its parent is effectively enabled.
LEMMA EnabledOf ==
    ASSUME NEW t, IsCatalog(t), NEW m \in DOMAIN t
    PROVE  EffectivelyEnabled(t, m) <=>
               t[m].enabled /\ (t[m].parent = NoMenu \/ EffectivelyEnabled(t, t[m].parent))
<1> DEFINE p == t[m].parent
<1>1. p \in DOMAIN t \cup {NoMenu}
  BY StorableRows DEF IsCatalog
<1>2. ~OnCycle(t, m) /\ (p \in DOMAIN t => ~OnCycle(t, p))
  BY DEF IsCatalog, Accepted, ValidNode
<1>3. Ancestors(t, m) = IF p = NoMenu THEN {} ELSE {p} \cup Ancestors(t, p)
  BY AncestorsOf
<1> HIDE DEF p
<1>4. QED
  BY <1>1, <1>2, <1>3 DEF EffectivelyEnabled, p

\* The levels of a tree: rows of the first hang below nothing, rows of the next
\* ones below a row of the level before.
GoesDownRows(g, t, kept) ==
    /\ g \in [0..Size(t) -> SUBSET kept]
    /\ g[0] = {m \in kept : t[m].parent = NoMenu}
    /\ \A k \in 1..Size(t) : g[k] = {m \in kept : t[m].parent \in g[k - 1]}

LEMMA RowLevels ==
    ASSUME NEW t, Storable(t), NEW kept
    PROVE  \E g : GoesDownRows(g, t, kept) /\ Below(kept, t, NoMenu) = UNION {g[k] : k \in 0..Size(t)}
<1> DEFINE n == Size(t)
           D == SUBSET kept
           x == {m \in kept : t[m].parent = NoMenu}
           Next1(R) == {m \in kept : t[m].parent \in R}
           F == [R \in D |-> Next1(R)]
           Step(l) == [k \in 0..n |-> IF k = 0 THEN x ELSE Next1(l[k - 1])]
           l == CHOOSE h : h = Step(h)
<1>1. n \in Nat /\ x \in D /\ \A R : Next1(R) \in D
  BY StorableRows
<1>2. F \in [D -> D]
  BY <1>1
<1>3. PICK g : IsIterate(g, D, F, x, n)
  <2> HIDE DEF F, D, n, x
  <2>1. QED
    BY <1>1, <1>2, Iterates
<1> HIDE DEF n
<1>4. g = Step(g)
  <2>1. ASSUME NEW k \in 0..n
        PROVE  g[k] = IF k = 0 THEN x ELSE Next1(g[k - 1])
    <3>1. CASE k = 0
      <4> HIDE DEF F, D, x, Next1
      <4>1. QED
        BY <1>3, <3>1 DEF IsIterate
    <3>2. CASE k # 0
      <4>1. k \in 1..n /\ k - 1 \in 0..n
        BY <1>1, <3>2
      <4>2. g[k] = F[g[k - 1]] /\ g[k - 1] \in D
        <5> HIDE DEF F, D, x
        <5>1. QED
          BY <1>3, <4>1 DEF IsIterate
      <4>3. F[g[k - 1]] = Next1(g[k - 1])
        <5> HIDE DEF Next1, D
        <5>1. QED
          BY <4>2
      <4>4. QED
        <5> HIDE DEF F, D, x, Next1
        <5>1. QED
          BY <3>2, <4>2, <4>3
    <3>3. QED
      BY <3>1, <3>2
  <2>2. g = [k \in 0..n |-> g[k]]
    <3> HIDE DEF F, D, x
    <3>1. QED
      BY <1>3 DEF IsIterate
  <2> HIDE DEF x, Next1
  <2>3. QED
    BY <2>1, <2>2
<1>5. l = Step(l)
  <2> HIDE DEF Step
  <2>1. QED
    BY <1>4
<1>6. Below(kept, t, NoMenu) = UNION {l[k] : k \in 0..n}
  BY DEF Below, Size, n
<1>7. GoesDownRows(l, t, kept)
  <2> HIDE DEF l
  <2>1. \A k \in 0..n : (IF k = 0 THEN x ELSE Next1(l[k - 1])) \in D
    BY <1>1
  <2>2. l \in [0..n -> D] /\ l[0] = x
    <3> HIDE DEF D, x, Next1
    <3>1. QED
      BY <1>1, <1>5, <2>1
  <2>3. ASSUME NEW k \in 1..n
        PROVE  l[k] = Next1(l[k - 1])
    <3>1. k \in 0..n /\ k # 0
      BY <1>1
    <3> HIDE DEF x, Next1
    <3>2. QED
      BY <1>5, <3>1
  <2>4. QED
    BY <2>2, <2>3 DEF GoesDownRows, n
<1>8. QED
  BY <1>6, <1>7 DEF n

\* A row of the tree that is kept without gaps is found at the level that its
\* walk is long, and no other row is.
LEMMA TreeOfKept ==
    ASSUME NEW t, IsCatalog(t), NEW kept \in SUBSET DOMAIN t
    PROVE  Below(kept, t, NoMenu) = {m \in kept : Ancestors(t, m) \subseteq kept}
<1> DEFINE n == Size(t)
           Whole == {m \in kept : Ancestors(t, m) \subseteq kept}
<1>1. /\ Storable(t) /\ n \in Nat /\ NoMenu \notin DOMAIN t
      /\ \A m \in DOMAIN t : t[m].parent \in DOMAIN t \cup {NoMenu} /\ n # 0
  BY StorableRows DEF IsCatalog
<1>2. PICK g : GoesDownRows(g, t, kept) /\ Below(kept, t, NoMenu) = UNION {g[k] : k \in 0..n}
  BY <1>1, RowLevels
<1>3. \A m \in DOMAIN t : Ancestors(t, m) = IF t[m].parent = NoMenu THEN {}
                                            ELSE {t[m].parent} \cup Ancestors(t, t[m].parent)
  BY AncestorsOf
<1> HIDE DEF n
<1>4. \A k \in 0..n : g[k] \subseteq Whole
  <2> DEFINE G == {k \in 0..n : g[k] \subseteq Whole}
  <2>1. 0 \in G
    BY <1>1, <1>2, <1>3 DEF GoesDownRows
  <2>2. ASSUME NEW k \in 0..(n - 1), k \in G
        PROVE  k + 1 \in G
    <3>1. k + 1 \in 1..n /\ k + 1 \in 0..n /\ (k + 1) - 1 = k
      BY <1>1
    <3>2. g[k + 1] = {m \in kept : t[m].parent \in g[k]}
      BY <1>2, <3>1 DEF GoesDownRows, n
    <3>3. g[k] \subseteq Whole
      BY <2>2
    <3>4. ASSUME NEW m \in g[k + 1] PROVE m \in Whole
      <4>1. m \in kept /\ t[m].parent \in kept /\ Ancestors(t, t[m].parent) \subseteq kept
        BY <3>2, <3>3
      <4>2. QED
        BY <1>3, <4>1
    <3>5. QED
      BY <3>1, <3>4
  <2> HIDE DEF G, Whole
  <2>3. \A k \in 0..n : k \in G
    BY <1>1, <2>1, <2>2, UpTo
  <2>4. QED
    BY <2>3 DEF G
<1>5. \A k \in 0..n : \A m \in Whole : Up(t, m)[k] = NoMenu => \E j \in 0..n : j < k /\ m \in g[j]
  <2> DEFINE P(k) == \A m \in Whole : Up(t, m)[k] = NoMenu => \E j \in 0..n : j < k /\ m \in g[j]
             G == {k \in 0..n : P(k)}
  <2>1. 0 \in G
    <3>1. \A m \in Whole : Up(t, m)[0] # NoMenu
      <4> SUFFICES ASSUME NEW m \in Whole PROVE Up(t, m)[0] # NoMenu
        OBVIOUS
      <4>1. m \in DOMAIN t
        OBVIOUS
      <4>2. Up(t, m)[0] = m
        BY <1>1, <4>1, UpWalks DEF WalksUp
      <4>3. QED
        BY <1>1, <4>1, <4>2
    <3>2. QED
      BY <1>1, <3>1
  <2>2. ASSUME NEW k \in 0..(n - 1), k \in G
        PROVE  k + 1 \in G
    <3>1. k + 1 \in 1..n /\ k + 1 \in 0..n /\ (k + 1) - 1 = k /\ k \in Nat
      BY <1>1
    <3>2. ASSUME NEW m \in Whole, Up(t, m)[k + 1] = NoMenu
          PROVE  \E j \in 0..n : j < k + 1 /\ m \in g[j]
      <4>1. m \in DOMAIN t /\ m \in kept
        OBVIOUS
      <4>2. CASE t[m].parent = NoMenu
        <5>1. m \in g[0] /\ 0 \in 0..n /\ 0 < k + 1
          BY <1>1, <1>2, <3>1, <4>1, <4>2 DEF GoesDownRows
        <5>2. QED
          BY <5>1
      <4>3. CASE t[m].parent # NoMenu
        <5> DEFINE p == t[m].parent
        <5>1. p \in Whole
          BY <1>1, <1>3, <4>1, <4>3
        <5>2. Up(t, p)[k] = NoMenu
          <6>1. Up(t, m)[k + 1] = Up(t, p)[(k + 1) - 1]
            BY <1>1, <3>1, <4>1, WalkOfParent DEF n
          <6>2. QED
            BY <3>1, <3>2, <6>1
        <5> HIDE DEF p
        <5>3. PICK j \in 0..n : j < k /\ p \in g[j]
          BY <2>2, <5>1, <5>2
        <5>4. j + 1 \in 1..n /\ j + 1 \in 0..n /\ (j + 1) - 1 = j /\ j + 1 < k + 1
          BY <1>1, <3>1, <5>3
        <5>5. g[j + 1] = {x \in kept : t[x].parent \in g[j]}
          BY <1>2, <5>4 DEF GoesDownRows, n
        <5>6. m \in g[j + 1]
          BY <4>1, <5>3, <5>5 DEF p
        <5>7. QED
          BY <5>4, <5>6
      <4>4. QED
        BY <4>2, <4>3
    <3>3. P(k + 1)
      BY <3>2
    <3> HIDE DEF P
    <3>4. QED
      BY <3>1, <3>3
  <2> HIDE DEF G, Whole
  <2>3. \A k \in 0..n : k \in G
    BY <1>1, <2>1, <2>2, UpTo
  <2>4. QED
    BY <2>3 DEF G
<1>6. ASSUME NEW m \in Whole PROVE m \in UNION {g[k] : k \in 0..n}
  <2>1. Up(t, m)[n] = NoMenu /\ n \in 0..n
    BY <1>1 DEF IsCatalog, Accepted, ValidNode, OnCycle, Size, n
  <2>2. QED
    BY <1>5, <2>1
<1> HIDE DEF Whole
<1>7. Below(kept, t, NoMenu) = Whole
  BY <1>2, <1>4, <1>6
<1>8. QED
  BY <1>7 DEF Whole

-----------------------------------------------------------------------------
(* The enabled permissions in SQL.                                         *)

\* What the recursive query starts with and what it adds for a level.
RootRows(t) == {<<m, t[m].enabled>> : m \in {x \in DOMAIN t : t[x].parent = NoMenu}}
RowsNext(t, R) == {<<x[1], x[2][2] /\ t[x[1]].enabled>> :
                      x \in {y \in (DOMAIN t) \X R : t[y[1]].parent = y[2][1]}}

LEMMA SqlRows ==
    ASSUME NEW t, Storable(t), NEW R \in SUBSET ((DOMAIN t) \X BOOLEAN)
    PROVE  /\ RootRows(t) \in SUBSET ((DOMAIN t) \X BOOLEAN)
           /\ RowsNext(t, R) \in SUBSET ((DOMAIN t) \X BOOLEAN)
           /\ \A z \in RootRows(t) : z[1] \in DOMAIN t /\ t[z[1]].parent = NoMenu /\ z[2] = t[z[1]].enabled
           /\ \A m \in DOMAIN t : t[m].parent = NoMenu => <<m, t[m].enabled>> \in RootRows(t)
           /\ \A z \in RowsNext(t, R) :
                  \E y \in R : z[1] \in DOMAIN t /\ t[z[1]].parent = y[1] /\ z[2] = (y[2] /\ t[z[1]].enabled)
           /\ \A m \in DOMAIN t : \A y \in R : t[m].parent = y[1] =>
                  <<m, y[2] /\ t[m].enabled>> \in RowsNext(t, R)
<1>1. \A m \in DOMAIN t : t[m].enabled \in BOOLEAN
  BY StorableRows DEF Row
<1>2. ASSUME NEW z \in RootRows(t)
      PROVE  z \in (DOMAIN t) \X BOOLEAN /\ z[1] \in DOMAIN t /\ t[z[1]].parent = NoMenu /\ z[2] = t[z[1]].enabled
  <2>1. PICK m \in DOMAIN t : t[m].parent = NoMenu /\ z = <<m, t[m].enabled>>
    BY DEF RootRows
  <2>2. QED
    BY <1>1, <2>1
<1>3. ASSUME NEW z \in RowsNext(t, R)
      PROVE  /\ z \in (DOMAIN t) \X BOOLEAN
             /\ \E y \in R : z[1] \in DOMAIN t /\ t[z[1]].parent = y[1] /\ z[2] = (y[2] /\ t[z[1]].enabled)
  <2>1. PICK x \in (DOMAIN t) \X R : t[x[1]].parent = x[2][1] /\ z = <<x[1], x[2][2] /\ t[x[1]].enabled>>
    BY DEF RowsNext
  <2>2. x[1] \in DOMAIN t /\ x[2] \in R /\ x[2][2] \in BOOLEAN
    OBVIOUS
  <2> DEFINE b == x[2][2] /\ t[x[1]].enabled
  <2>3. b \in BOOLEAN /\ z = <<x[1], b>>
    BY <2>1
  <2>4. z[1] = x[1] /\ z[2] = b
    <3> HIDE DEF b
    <3>1. QED
      BY <2>3
  <2>5. z \in (DOMAIN t) \X BOOLEAN
    <3> HIDE DEF b
    <3>1. QED
      BY <2>2, <2>3
  <2>6. QED
    BY <2>1, <2>2, <2>4, <2>5
<1>4. ASSUME NEW m \in DOMAIN t, NEW y \in R, t[m].parent = y[1]
      PROVE  <<m, y[2] /\ t[m].enabled>> \in RowsNext(t, R)
  <2> DEFINE x == <<m, y>>
  <2>1. x \in (DOMAIN t) \X R /\ x[1] = m /\ x[2] = y
    OBVIOUS
  <2> HIDE DEF x
  <2>2. x \in {w \in (DOMAIN t) \X R : t[w[1]].parent = w[2][1]}
    BY <1>4, <2>1
  <2>3. <<x[1], x[2][2] /\ t[x[1]].enabled>> \in RowsNext(t, R)
    BY <2>2, Zenon DEF RowsNext
  <2>4. QED
    BY <2>1, <2>3, Zenon
<1>5. \A m \in DOMAIN t : t[m].parent = NoMenu => <<m, t[m].enabled>> \in RootRows(t)
  BY DEF RootRows
<1>6. QED
  BY <1>2, <1>3, <1>4, <1>5

SqlDown(g, t) ==
    /\ g \in [0..Size(t) -> SUBSET ((DOMAIN t) \X BOOLEAN)]
    /\ g[0] = RootRows(t)
    /\ \A k \in 1..Size(t) : g[k] = RowsNext(t, g[k - 1])

LEMMA SqlLevels ==
    ASSUME NEW t, Storable(t)
    PROVE  SqlDown(SqlLevel(t), t)
<1> DEFINE n == Size(t)
           D == SUBSET ((DOMAIN t) \X BOOLEAN)
           x == RootRows(t)
           F == [R \in D |-> RowsNext(t, R)]
           Step(l) == [k \in 0..n |-> IF k = 0 THEN x ELSE RowsNext(t, l[k - 1])]
           l == CHOOSE h : h = Step(h)
<1>1. n \in Nat
  BY StorableRows
<1>2. x \in D /\ \A R \in D : RowsNext(t, R) \in D
  BY SqlRows
<1>3. F \in [D -> D]
  <2> HIDE DEF D
  <2>1. QED
    BY <1>2
<1>4. PICK g : IsIterate(g, D, F, x, n)
  <2> HIDE DEF F, D, n, x
  <2>1. QED
    BY <1>1, <1>2, <1>3, Iterates
<1> HIDE DEF n, x, D
<1>5. g = Step(g)
  <2>1. ASSUME NEW k \in 0..n
        PROVE  g[k] = IF k = 0 THEN x ELSE RowsNext(t, g[k - 1])
    <3>1. CASE k = 0
      BY <1>4, <3>1 DEF IsIterate
    <3>2. CASE k # 0
      <4>1. k \in 1..n /\ k - 1 \in 0..n
        BY <1>1, <3>2
      <4>2. g[k] = F[g[k - 1]] /\ g[k - 1] \in D
        <5> HIDE DEF F
        <5>1. QED
          BY <1>4, <4>1 DEF IsIterate
      <4>3. QED
        BY <3>2, <4>2
    <3>3. QED
      BY <3>1, <3>2
  <2>2. g = [k \in 0..n |-> g[k]]
    <3> HIDE DEF F
    <3>1. QED
      BY <1>4 DEF IsIterate
  <2>3. QED
    BY <2>1, <2>2
<1>6. l = Step(l)
  <2> HIDE DEF Step
  <2>1. QED
    BY <1>5
<1>7. SqlLevel(t) = l
  BY DEF SqlLevel, Size, n, x, RootRows, RowsNext
<1>8. SqlDown(l, t)
  <2>1. l = Step(l)
    BY <1>6
  <2>2. /\ g \in [0..n -> D] /\ g[0] = x /\ \A k \in 1..n : g[k] = RowsNext(t, g[k - 1])
    <3>1. g \in [0..n -> D] /\ g[0] = x
      <4> HIDE DEF F
      <4>1. QED
        BY <1>4 DEF IsIterate
    <3>2. QED
      BY <3>1, <1>5, <1>1
  <2> HIDE DEF l
  <2>3. \A k \in 0..n : l[k] = g[k]
    <3> DEFINE G == {k \in 0..n : l[k] = g[k]}
    <3>1. 0 \in G
      BY <1>1, <2>1, <2>2
    <3>2. ASSUME NEW k \in 0..(n - 1), k \in G
          PROVE  k + 1 \in G
      <4>1. k + 1 \in 1..n /\ k + 1 \in 0..n /\ (k + 1) - 1 = k /\ k + 1 # 0
        BY <1>1
      <4>2. l[k + 1] = RowsNext(t, l[k]) /\ g[k + 1] = RowsNext(t, g[k])
        BY <2>1, <2>2, <4>1
      <4>3. QED
        BY <3>2, <4>1, <4>2
    <3> HIDE DEF G
    <3>3. \A k \in 0..n : k \in G
      BY <1>1, <3>1, <3>2, UpTo
    <3>4. QED
      BY <3>3 DEF G
  <2>4. l \in [0..n -> D]
    <3>1. l = [k \in 0..n |-> l[k]]
      BY <2>1
    <3>2. QED
      BY <2>2, <2>3, <3>1
  <2>5. \A k \in 1..n : l[k] = RowsNext(t, l[k - 1])
    <3> SUFFICES ASSUME NEW k \in 1..n PROVE l[k] = RowsNext(t, l[k - 1])
      OBVIOUS
    <3>1. k \in 0..n /\ k - 1 \in 0..n
      BY <1>1
    <3>2. QED
      BY <2>2, <2>3, <3>1
  <2>6. l[0] = x
    BY <1>1, <2>2, <2>3
  <2>7. QED
    BY <2>4, <2>5, <2>6 DEF SqlDown, n, D, x
<1>9. QED
  BY <1>7, <1>8

\* Every row that the query finds carries whether it is effectively enabled,
\* and the query finds every row.
LEMMA SqlMeaning ==
    ASSUME NEW t, IsCatalog(t)
    PROVE  /\ \A k \in 0..Size(t) : \A z \in SqlLevel(t)[k] :
                  z[1] \in DOMAIN t /\ (z[2] <=> EffectivelyEnabled(t, z[1]))
           /\ \A m \in DOMAIN t : \E k \in 0..Size(t) : \E z \in SqlLevel(t)[k] : z[1] = m
<1> DEFINE n == Size(t)
           g == SqlLevel(t)
           Rows == (DOMAIN t) \X BOOLEAN
<1>1. /\ Storable(t) /\ n \in Nat /\ NoMenu \notin DOMAIN t
      /\ \A m \in DOMAIN t : t[m].parent \in DOMAIN t \cup {NoMenu}
  BY StorableRows DEF IsCatalog
<1>2. g \in [0..n -> SUBSET Rows] /\ g[0] = RootRows(t) /\ \A k \in 1..n : g[k] = RowsNext(t, g[k - 1])
  BY <1>1, SqlLevels DEF SqlDown
<1>3. \A m \in DOMAIN t : EffectivelyEnabled(t, m) <=>
          t[m].enabled /\ (t[m].parent = NoMenu \/ EffectivelyEnabled(t, t[m].parent))
  BY EnabledOf
<1> HIDE DEF n, g
<1>4. \A z \in g[0] : z[1] \in DOMAIN t /\ t[z[1]].parent = NoMenu /\ z[2] = t[z[1]].enabled
  <2>1. {} \in SUBSET Rows
    OBVIOUS
  <2>2. \A z \in RootRows(t) : z[1] \in DOMAIN t /\ t[z[1]].parent = NoMenu /\ z[2] = t[z[1]].enabled
    BY <1>1, <2>1, SqlRows, Zenon
  <2>3. QED
    BY <1>2, <2>2
<1>5. \A m \in DOMAIN t : t[m].parent = NoMenu => \E z \in g[0] : z[1] = m
  <2> SUFFICES ASSUME NEW m \in DOMAIN t, t[m].parent = NoMenu PROVE \E z \in g[0] : z[1] = m
    OBVIOUS
  <2>1. <<m, t[m].enabled>> \in g[0]
    BY <1>1, <1>2, SqlRows
  <2>2. QED
    BY <2>1
<1>6. ASSUME NEW k \in 0..(n - 1)
      PROVE  /\ k + 1 \in 0..n /\ k \in 0..n
             /\ \A z \in g[k + 1] : \E y \in g[k] :
                    z[1] \in DOMAIN t /\ t[z[1]].parent = y[1] /\ z[2] = (y[2] /\ t[z[1]].enabled)
             /\ \A m \in DOMAIN t : \A y \in g[k] : t[m].parent = y[1] => \E z \in g[k + 1] : z[1] = m
  <2>1. k + 1 \in 1..n /\ k + 1 \in 0..n /\ (k + 1) - 1 = k /\ k \in 0..n
    BY <1>1
  <2>2. g[k + 1] = RowsNext(t, g[k])
    BY <1>2, <2>1
  <2>3. g[k] \in SUBSET Rows
    <3> HIDE DEF Rows
    <3>1. QED
      BY <1>2, <2>1
  <2>4. ASSUME NEW m \in DOMAIN t, NEW y \in g[k], t[m].parent = y[1]
        PROVE  \E z \in g[k + 1] : z[1] = m
    <3>1. <<m, y[2] /\ t[m].enabled>> \in g[k + 1]
      BY <1>1, <2>2, <2>3, <2>4, SqlRows
    <3> DEFINE b == y[2] /\ t[m].enabled
    <3>2. <<m, b>> \in g[k + 1]
      BY <3>1
    <3> HIDE DEF b
    <3>3. <<m, b>>[1] = m
      OBVIOUS
    <3>4. QED
      BY <3>2, <3>3
  <2>5. \A z \in g[k + 1] : \E y \in g[k] :
            z[1] \in DOMAIN t /\ t[z[1]].parent = y[1] /\ z[2] = (y[2] /\ t[z[1]].enabled)
    BY <1>1, <2>2, <2>3, SqlRows
  <2>6. QED
    BY <2>1, <2>4, <2>5
<1> DEFINE Told(k) == \A z \in g[k] : z[1] \in DOMAIN t /\ (z[2] <=> EffectivelyEnabled(t, z[1]))
           Reached(k) == \A m \in DOMAIN t : Up(t, m)[k] = NoMenu => \E j \in 0..n : j < k /\ \E z \in g[j] : z[1] = m
           G == {k \in 0..n : Told(k)}
           H == {k \in 0..n : Reached(k)}
<1>7. \A k \in 0..n : k \in G
  <2>1. 0 \in G
    BY <1>1, <1>3, <1>4
  <2>2. ASSUME NEW k \in 0..(n - 1), k \in G
        PROVE  k + 1 \in G
    <3>1. Told(k + 1)
      <4> SUFFICES ASSUME NEW z \in g[k + 1]
                   PROVE  z[1] \in DOMAIN t /\ (z[2] <=> EffectivelyEnabled(t, z[1]))
        OBVIOUS
      <4>1. PICK y \in g[k] : z[1] \in DOMAIN t /\ t[z[1]].parent = y[1] /\ z[2] = (y[2] /\ t[z[1]].enabled)
        BY <1>6
      <4>2. y[1] \in DOMAIN t /\ (y[2] <=> EffectivelyEnabled(t, y[1]))
        BY <2>2
      <4>3. EffectivelyEnabled(t, z[1]) <=> t[z[1]].enabled /\ EffectivelyEnabled(t, y[1])
        BY <1>1, <1>3, <4>1, <4>2
      <4>4. z[2] <=> y[2] /\ t[z[1]].enabled
        BY <4>1
      <4>5. QED
        BY <4>1, <4>2, <4>3, <4>4, Zenon
    <3> HIDE DEF Told
    <3>2. QED
      BY <1>6, <3>1
  <2> HIDE DEF G
  <2>3. QED
    BY <1>1, <2>1, <2>2, UpTo
<1>8. \A k \in 0..n : k \in H
  <2>1. 0 \in H
    <3>1. \A m \in DOMAIN t : Up(t, m)[0] # NoMenu
      <4> SUFFICES ASSUME NEW m \in DOMAIN t PROVE Up(t, m)[0] # NoMenu
        OBVIOUS
      <4>1. Up(t, m)[0] = m
        BY <1>1, UpWalks DEF WalksUp
      <4>2. QED
        BY <1>1, <4>1
    <3>2. QED
      BY <1>1, <3>1
  <2>2. ASSUME NEW k \in 0..(n - 1), k \in H
        PROVE  k + 1 \in H
    <3>1. k + 1 \in 1..n /\ k + 1 \in 0..n /\ (k + 1) - 1 = k /\ k \in Nat
      BY <1>1
    <3>2. ASSUME NEW m \in DOMAIN t, Up(t, m)[k + 1] = NoMenu
          PROVE  \E j \in 0..n : j < k + 1 /\ \E z \in g[j] : z[1] = m
      <4>1. CASE t[m].parent = NoMenu
        <5>1. 0 \in 0..n /\ 0 < k + 1
          BY <1>1, <3>1
        <5>2. QED
          BY <1>5, <4>1, <5>1
      <4>2. CASE t[m].parent # NoMenu
        <5> DEFINE p == t[m].parent
        <5>1. p \in DOMAIN t
          BY <1>1, <4>2
        <5>2. Up(t, p)[k] = NoMenu
          <6>1. Up(t, m)[k + 1] = Up(t, p)[(k + 1) - 1]
            BY <1>1, <3>1, WalkOfParent DEF n
          <6>2. QED
            BY <3>1, <3>2, <6>1
        <5> HIDE DEF p
        <5>3. PICK j \in 0..n : j < k /\ \E y \in g[j] : y[1] = p
          BY <2>2, <5>1, <5>2
        <5>4. j \in 0..(n - 1) /\ j + 1 \in 0..n /\ j + 1 < k + 1
          BY <1>1, <3>1, <5>3
        <5>5. \E z \in g[j + 1] : z[1] = m
          BY <1>6, <5>3, <5>4 DEF p
        <5>6. QED
          BY <5>4, <5>5
      <4>3. QED
        BY <4>1, <4>2
    <3>3. Reached(k + 1)
      BY <3>2
    <3> HIDE DEF Reached
    <3>4. QED
      BY <3>1, <3>3
  <2> HIDE DEF H
  <2>3. QED
    BY <1>1, <2>1, <2>2, UpTo
<1>9. ASSUME NEW m \in DOMAIN t PROVE \E k \in 0..n : \E z \in g[k] : z[1] = m
  <2>1. Up(t, m)[n] = NoMenu /\ n \in 0..n
    BY <1>1 DEF IsCatalog, Accepted, ValidNode, OnCycle, Size, n
  <2>2. QED
    BY <1>8, <2>1
<1>10. QED
  BY <1>7, <1>9 DEF n, g

\* So the database and the process enable the same permissions.
LEMMA SamePermissions ==
    ASSUME NEW t, IsCatalog(t)
    PROVE  SqlPermissions(t) = EnabledPermissions(t)
<1> DEFINE Found == UNION {SqlLevel(t)[k] : k \in 0..Size(t)}
           S == {y \in Found : y[2] /\ t[y[1]].type \in {"page", "action"} /\ t[y[1]].permission # NoPermission}
<1>1. \A m \in DOMAIN t : /\ t[m].type \in {"directory", "page", "action"}
                          /\ t[m].type = "directory" <=> t[m].permission = NoPermission
  BY StorableRows DEF IsCatalog, Row
<1>2. \A z \in Found : z[1] \in DOMAIN t /\ (z[2] <=> EffectivelyEnabled(t, z[1]))
  BY SqlMeaning
<1>3. \A m \in DOMAIN t : \E z \in Found : z[1] = m
  BY SqlMeaning
<1>4. SqlPermissions(t) = {t[x[1]].permission : x \in S}
  BY Zenon DEF SqlPermissions, Size
<1>5. EnabledPermissions(t) = {t[m].permission : m \in EnabledMenus(t)} \ {NoPermission}
  BY DEF EnabledPermissions
<1> HIDE DEF Found
<1>6. ASSUME NEW x \in S
      PROVE  t[x[1]].permission \in EnabledPermissions(t)
  <2>1. x \in Found /\ x[2] /\ t[x[1]].permission # NoPermission
    OBVIOUS
  <2>2. x[1] \in DOMAIN t /\ EffectivelyEnabled(t, x[1])
    BY <1>2, <2>1
  <2>3. QED
    BY <1>5, <2>1, <2>2 DEF EnabledMenus
<1>7. ASSUME NEW m \in EnabledMenus(t), t[m].permission # NoPermission
      PROVE  \E x \in S : x[1] = m
  <2>1. m \in DOMAIN t /\ EffectivelyEnabled(t, m)
    BY DEF EnabledMenus
  <2>2. PICK x \in Found : x[1] = m
    BY <1>3, <2>1
  <2>3. x[2]
    BY <1>2, <2>1, <2>2
  <2>4. t[m].type \in {"page", "action"}
    BY <1>1, <1>7, <2>1
  <2>5. x \in S
    BY <1>7, <2>2, <2>3, <2>4
  <2>6. QED
    BY <2>2, <2>5
<1> HIDE DEF S
<1>8. QED
  BY <1>4, <1>5, <1>6, <1>7

-----------------------------------------------------------------------------
(* What is above a row.                                                    *)

\* Ancestors are rows; what is above an ancestor is above the row; and nothing
\* but directories is above a page.
LEMMA WhatIsAbove ==
    ASSUME NEW t, IsCatalog(t), NEW m \in DOMAIN t
    PROVE  /\ Ancestors(t, m) \subseteq DOMAIN t
           /\ \A a \in Ancestors(t, m) : Ancestors(t, a) \subseteq Ancestors(t, m)
           /\ t[m].type = "page" => \A a \in Ancestors(t, m) : t[a].type = "directory"
<1> DEFINE n == Size(t)
           g == Up(t, m)
           Above(x) == /\ x \in Ancestors(t, m) /\ Ancestors(t, x) \subseteq Ancestors(t, m)
                       /\ t[m].type = "page" => t[x].type = "directory"
           G == {k \in 0..n : k = 0 \/ g[k] = NoMenu \/ Above(g[k])}
<1>1. /\ Storable(t) /\ n \in Nat /\ NoMenu \notin DOMAIN t
      /\ \A x \in DOMAIN t : t[x].parent \in DOMAIN t \cup {NoMenu}
  BY StorableRows DEF IsCatalog
<1>2. WalksUp(g, t, m)
  BY <1>1, UpWalks
<1>3. \A x \in DOMAIN t : Ancestors(t, x) = IF t[x].parent = NoMenu THEN {}
                                            ELSE {t[x].parent} \cup Ancestors(t, t[x].parent)
  BY AncestorsOf
<1>4. \A x \in DOMAIN t : t[x].parent # NoMenu /\ t[x].type \in {"page", "directory"} =>
          t[t[x].parent].type = "directory"
  BY DEF IsCatalog, Accepted, ValidNode, ParentType
<1>5. Ancestors(t, m) = {g[k] : k \in 1..n} \ {NoMenu}
  BY DEF Ancestors, Size
<1>6. \A k \in 0..n : g[k] \in DOMAIN t \cup {NoMenu}
  BY <1>2 DEF WalksUp, n
<1> HIDE DEF n, g
<1>7. 0 \in G
  BY <1>1
<1>8. ASSUME NEW k \in 0..(n - 1), k \in G
      PROVE  k + 1 \in G
  <2>1. k + 1 \in 1..n /\ k + 1 \in 0..n /\ (k + 1) - 1 = k /\ k \in 0..n
    BY <1>1
  <2>2. g[k + 1] = Parent(t, g[k])
    BY <1>2, <2>1 DEF WalksUp, n
  <2>3. CASE g[k] = NoMenu
    BY <1>1, <2>1, <2>2, <2>3 DEF Parent
  <2>4. CASE g[k] # NoMenu
    <3>1. PICK x : x = g[k]
      OBVIOUS
    <3>2. x \in DOMAIN t /\ g[k + 1] = t[x].parent
      BY <1>6, <2>1, <2>2, <2>4, <3>1 DEF Parent
    <3>3. CASE k = 0
      <4>1. x = m
        BY <1>2, <3>1, <3>3 DEF WalksUp
      <4>2. g[k + 1] = NoMenu \/ Above(g[k + 1])
        BY <1>3, <1>4, <3>2, <4>1
      <4> HIDE DEF Above
      <4>3. QED
        BY <2>1, <4>2
    <3>4. CASE k # 0
      <4>1. Above(x)
        BY <1>8, <2>4, <3>1, <3>4
      <4>2. g[k + 1] = NoMenu \/ Above(g[k + 1])
        BY <1>3, <1>4, <3>2, <4>1
      <4> HIDE DEF Above
      <4>3. QED
        BY <2>1, <4>2
    <3>5. QED
      BY <3>3, <3>4
  <2>5. QED
    BY <2>3, <2>4
<1>9. \A k \in 0..n : k \in G
  <2> HIDE DEF G
  <2>1. QED
    BY <1>1, <1>7, <1>8, UpTo
<1>10. ASSUME NEW a \in Ancestors(t, m) PROVE a \in DOMAIN t /\ Above(a)
  <2>1. PICK k \in 1..n : a = g[k] /\ a # NoMenu
    BY <1>5
  <2>2. k \in 0..n /\ k # 0
    BY <1>1
  <2> HIDE DEF Above
  <2>3. QED
    BY <1>6, <1>9, <2>1, <2>2
<1>11. QED
  BY <1>10

\* What is above an effectively enabled row is effectively enabled.
LEMMA EnabledAbove ==
    ASSUME NEW t, IsCatalog(t), NEW m \in DOMAIN t, EffectivelyEnabled(t, m)
    PROVE  \A a \in Ancestors(t, m) : EffectivelyEnabled(t, a)
<1> SUFFICES ASSUME NEW a \in Ancestors(t, m) PROVE EffectivelyEnabled(t, a)
  OBVIOUS
<1>1. a \in DOMAIN t /\ Ancestors(t, a) \subseteq Ancestors(t, m)
  BY WhatIsAbove
<1>2. ~OnCycle(t, a)
  BY <1>1 DEF IsCatalog, Accepted, ValidNode
<1>3. QED
  BY <1>1, <1>2 DEF EffectivelyEnabled

\* The code of a page or an action that is enabled belongs to no other row.
LEMMA EnabledCode ==
    ASSUME NEW t, IsCatalog(t), NEW m \in DOMAIN t, t[m].permission \in EnabledPermissions(t)
    PROVE  EffectivelyEnabled(t, m)
<1>1. PICK x \in EnabledMenus(t) : t[x].permission = t[m].permission /\ t[m].permission # NoPermission
  BY DEF EnabledPermissions
<1>2. x \in DOMAIN t /\ EffectivelyEnabled(t, x)
  BY DEF EnabledMenus
<1>3. x = m
  BY <1>1, <1>2 DEF IsCatalog, Storable
<1>4. QED
  BY <1>2, <1>3

-----------------------------------------------------------------------------
(* The table while a process serves: only the status of its rows changes.  *)

SameRows(t, u) ==
    /\ DOMAIN t = DOMAIN u
    /\ \A m \in DOMAIN t : /\ t[m].type = u[m].type /\ t[m].parent = u[m].parent
                           /\ t[m].permission = u[m].permission

LEMMA SameWalks ==
    ASSUME NEW t, NEW u, Storable(t), Storable(u), SameRows(t, u), NEW m \in DOMAIN t
    PROVE  Up(t, m) = Up(u, m) /\ Ancestors(t, m) = Ancestors(u, m) /\ (OnCycle(t, m) <=> OnCycle(u, m))
<1> DEFINE n == Size(t)
           g == Up(t, m)
           h == Up(u, m)
           G == {k \in 0..n : g[k] = h[k]}
<1>1. Size(t) = Size(u) /\ n \in Nat
  BY StorableRows DEF SameRows, Size
<1>2. WalksUp(g, t, m) /\ WalksUp(h, u, m)
  BY UpWalks DEF SameRows
<1>3. \A x : Parent(t, x) = Parent(u, x)
  BY DEF Parent, SameRows
<1> HIDE DEF n, g, h
<1>4. 0 \in G
  BY <1>1, <1>2 DEF WalksUp
<1>5. ASSUME NEW k \in 0..(n - 1), k \in G
      PROVE  k + 1 \in G
  <2>1. k + 1 \in 1..n /\ k + 1 \in 0..n /\ (k + 1) - 1 = k
    BY <1>1
  <2>2. g[k + 1] = Parent(t, g[k]) /\ h[k + 1] = Parent(u, h[k])
    BY <1>1, <1>2, <2>1 DEF WalksUp, n
  <2>3. QED
    BY <1>3, <1>5, <2>1, <2>2
<1>6. \A k \in 0..n : k \in G
  <2> HIDE DEF G
  <2>1. QED
    BY <1>1, <1>4, <1>5, UpTo
<1>7. g = h
  <2>1. DOMAIN g = 0..n /\ DOMAIN h = 0..n /\ g = [k \in 0..n |-> g[k]] /\ h = [k \in 0..n |-> h[k]]
    BY <1>1, <1>2 DEF WalksUp, n
  <2>2. QED
    BY <1>6, <2>1
<1>8. QED
  BY <1>1, <1>7 DEF g, h, Ancestors, OnCycle, Size

LEMMA SameCatalog ==
    ASSUME NEW t, NEW u, Storable(t), Storable(u), SameRows(t, u), Accepted(u)
    PROVE  IsCatalog(t) /\ \A m \in DOMAIN t : Ancestors(t, m) = Ancestors(u, m)
<1>1. ASSUME NEW m \in DOMAIN t PROVE ValidNode(t, m)
  <2>1. ValidNode(u, m) /\ m \in DOMAIN u
    BY DEF Accepted, SameRows
  <2>2. OnCycle(t, m) <=> OnCycle(u, m)
    BY SameWalks
  <2>3. t[m].type = u[m].type /\ t[m].parent = u[m].parent /\ t[m].permission = u[m].permission
    BY DEF SameRows
  <2>4. t[m].parent # NoMenu => t[t[m].parent].type = u[u[m].parent].type
    BY <2>3, StorableRows DEF SameRows
  <2>5. QED
    BY <2>1, <2>2, <2>3, <2>4 DEF ValidNode
<1>2. QED
  BY <1>1, SameWalks DEF IsCatalog, Accepted

-----------------------------------------------------------------------------
(* The inductive invariant.                                                *)

\* A process that serves knows the rows of the table, their status perhaps as it
\* was; from_nodes accepted them.
MenuInv ==
    /\ MenuTypeOK
    /\ Accepted(index)
    /\ serving = "up" => SameRows(table, index)

LEMMA MenuStart ==
    ASSUME MenuInit
    PROVE  MenuInv
<1>1. DOMAIN table = {} /\ DOMAIN index = {}
  BY DEF MenuInit
<1>2. Storable(table) /\ Storable(index)
  BY <1>1, FS_EmptySet DEF Storable
<1>3. Accepted(index)
  BY <1>1 DEF Accepted
<1>4. tree \in [menus : SUBSET Menus, permissions : SUBSET Permissions]
  BY DEF MenuInit, NoTree
<1>5. serving = "down" /\ granted = {} /\ edits \in 0..MaxEdits
  BY MenuConstants DEF MenuInit
<1>6. QED
  BY <1>1, <1>2, <1>3, <1>4, <1>5 DEF MenuInv, MenuTypeOK

LEMMA MigrateKeeps ==
    ASSUME MenuInv, Migrate
    PROVE  MenuInv'
<1>1. Storable(table')
  BY MenuConstants DEF Migrate
<1>2. QED
  BY <1>1 DEF MenuInv, MenuTypeOK, Migrate, Accepted

LEMMA LoadKeeps ==
    ASSUME MenuInv, LoadCatalog
    PROVE  MenuInv'
<1>1. UNCHANGED <<table, granted, tree, edits>>
  BY DEF LoadCatalog
<1>2. CASE Accepted(table)
  <2>1. index' = table /\ serving' = "up" /\ DOMAIN table # {}
    BY <1>2 DEF LoadCatalog
  <2>2. SameRows(table, table)
    BY DEF SameRows
  <2>3. Accepted(index') /\ Storable(index')
    BY <1>2, <2>1 DEF MenuInv, MenuTypeOK
  <2>4. QED
    BY <1>1, <2>1, <2>2, <2>3 DEF MenuInv, MenuTypeOK
<1>3. CASE ~Accepted(table)
  <2>1. index' = index /\ serving' = "refused" /\ serving # "up"
    BY <1>3 DEF LoadCatalog
  <2>2. QED
    BY <1>1, <2>1 DEF MenuInv, MenuTypeOK
<1>4. QED
  BY <1>2, <1>3

\* The page of an action has a code: normalize_role_access adds nothing else.
LEMMA PageOfAction ==
    ASSUME NEW t, IsCatalog(t), NEW m \in DOMAIN t, t[m].type = "action"
    PROVE  /\ t[m].parent \in DOMAIN t /\ t[t[m].parent].type = "page"
           /\ t[t[m].parent].permission \in Permissions /\ t[t[m].parent].permission # NoPermission
           /\ EffectivelyEnabled(t, m) => EffectivelyEnabled(t, t[m].parent)
<1>1. t[m].parent # NoMenu
  BY DEF IsCatalog, Accepted, ValidNode
<1>2. t[m].parent \in DOMAIN t
  BY <1>1, StorableRows DEF IsCatalog
<1>3. t[t[m].parent].type = "page"
  BY <1>1 DEF IsCatalog, Accepted, ValidNode, ParentType
<1>4. t[t[m].parent].permission \in Permissions /\ t[t[m].parent].permission # NoPermission
  BY <1>2, <1>3, StorableRows DEF IsCatalog, Row
<1>5. QED
  BY <1>1, <1>2, <1>3, <1>4, EnabledOf

LEMMA GrantKeeps ==
    ASSUME MenuInv, GrantAccess
    PROVE  MenuInv'
<1>1. PICK requested \in SUBSET Permissions : granted' = Normalize(index, requested)
  BY DEF GrantAccess
<1>2. IsCatalog(index)
  BY DEF MenuInv, MenuTypeOK, IsCatalog
<1>3. granted' \subseteq Permissions
  BY <1>1, <1>2, PageOfAction DEF Normalize
<1>4. UNCHANGED <<table, index, serving, tree, edits>>
  BY DEF GrantAccess
<1>5. QED
  BY <1>3, <1>4 DEF MenuInv, MenuTypeOK

\* The table while the process serves.
LEMMA TableServed ==
    ASSUME MenuInv, serving = "up"
    PROVE  /\ IsCatalog(index) /\ IsCatalog(table) /\ SameRows(table, index)
           /\ \A m \in DOMAIN table : Ancestors(table, m) = Ancestors(index, m)
<1>1. Storable(table) /\ Storable(index) /\ Accepted(index) /\ SameRows(table, index)
  BY DEF MenuInv, MenuTypeOK
<1>2. QED
  BY <1>1, SameCatalog DEF IsCatalog

LEMMA ShowKeeps ==
    ASSUME MenuInv, ShowMenu
    PROVE  MenuInv'
<1> DEFINE kept == Kept(table, NavigationMenus(index, granted))
<1>1. kept \in SUBSET DOMAIN table
  BY DEF Kept
<1>2. serving = "up" /\ UNCHANGED <<table, index, serving, granted, edits>>
  BY DEF ShowMenu
<1>3. tree' = [menus |-> Below(kept, table, NoMenu), permissions |-> granted \cap EnabledPermissions(index)]
  BY DEF ShowMenu
<1> HIDE DEF kept
<1>4. Below(kept, table, NoMenu) \subseteq DOMAIN table
  BY <1>1, <1>2, TableServed, TreeOfKept
<1>5. DOMAIN table \subseteq Menus /\ granted \subseteq Permissions
  BY DEF MenuInv, MenuTypeOK, Storable
<1>6. tree' \in [menus : SUBSET Menus, permissions : SUBSET Permissions]
  BY <1>3, <1>4, <1>5
<1>7. QED
  BY <1>2, <1>6 DEF MenuInv, MenuTypeOK

LEMMA EditKeeps ==
    ASSUME MenuInv, EditStatus
    PROVE  MenuInv'
<1>1. PICK m \in DOMAIN table : table' = [table EXCEPT ![m].enabled = ~@]
  BY DEF EditStatus
<1>2. edits \in 0..MaxEdits /\ edits < MaxEdits /\ edits' = edits + 1 /\ UNCHANGED <<index, serving, granted>>
  BY DEF EditStatus, MenuInv, MenuTypeOK
<1>3. tree' \in [menus : SUBSET Menus, permissions : SUBSET Permissions]
  BY DEF EditStatus, NoTree
<1>4. Storable(table) /\ Storable(index)
  BY DEF MenuInv, MenuTypeOK
<1>5. DOMAIN table' = DOMAIN table
  BY <1>1
<1>6. ASSUME NEW x \in DOMAIN table
      PROVE  /\ table'[x] \in Row
             /\ table'[x].type = table[x].type /\ table'[x].parent = table[x].parent
             /\ table'[x].permission = table[x].permission
  <2>1. table[x] \in Row
    BY <1>4 DEF Storable
  <2>2. table'[x] = IF x = m THEN [table[x] EXCEPT !.enabled = ~table[x].enabled] ELSE table[x]
    BY <1>1
  <2>3. QED
    BY <2>1, <2>2 DEF Row
<1>7. Storable(table')
  <2>1. DOMAIN table' \subseteq Menus /\ IsFiniteSet(DOMAIN table')
    BY <1>4, <1>5 DEF Storable
  <2>2. \A x \in DOMAIN table' : /\ table'[x] \in Row
                                 /\ table'[x].parent \in DOMAIN table' \cup {NoMenu}
                                 /\ table'[x].type = "directory" <=> table'[x].permission = NoPermission
    BY <1>4, <1>5, <1>6 DEF Storable
  <2>3. \A x, y \in DOMAIN table' :
            x # y /\ table'[x].permission # NoPermission => table'[x].permission # table'[y].permission
    BY <1>4, <1>5, <1>6 DEF Storable
  <2>4. QED
    BY <2>1, <2>2, <2>3 DEF Storable
<1>8. SameRows(table, index) => SameRows(table', index')
  BY <1>2, <1>5, <1>6 DEF SameRows
<1>9. edits' \in 0..MaxEdits
  BY <1>2, MenuConstants
<1>10. QED
  BY <1>2, <1>3, <1>7, <1>8, <1>9 DEF MenuInv, MenuTypeOK

LEMMA StopKeeps ==
    ASSUME MenuInv, StopCatalog
    PROVE  MenuInv'
<1>1. DOMAIN index' = {} /\ serving' = "down" /\ UNCHANGED <<table, granted, edits>>
  BY DEF StopCatalog
<1>2. tree' \in [menus : SUBSET Menus, permissions : SUBSET Permissions]
  BY DEF StopCatalog, NoTree
<1>3. Storable(index') /\ Accepted(index')
  BY <1>1, FS_EmptySet DEF Storable, Accepted
<1>4. QED
  BY <1>1, <1>2, <1>3 DEF MenuInv, MenuTypeOK

LEMMA MenuStep ==
    ASSUME MenuInv, [MenuNext]_menuVars
    PROVE  MenuInv'
<1>1. CASE Migrate
  BY <1>1, MigrateKeeps
<1>2. CASE LoadCatalog
  BY <1>2, LoadKeeps
<1>3. CASE GrantAccess
  BY <1>3, GrantKeeps
<1>4. CASE ShowMenu
  BY <1>4, ShowKeeps
<1>5. CASE EditStatus
  BY <1>5, EditKeeps
<1>6. CASE StopCatalog
  BY <1>6, StopKeeps
<1>7. CASE UNCHANGED menuVars
  BY <1>7 DEF menuVars, MenuInv, MenuTypeOK
<1>8. QED
  BY <1>1, <1>2, <1>3, <1>4, <1>5, <1>6, <1>7 DEF MenuNext

\* A process serves only from a table that from_nodes would accept, and only the
\* status of its rows differs from what it knows (AccessCatalog::load).
THEOREM CatalogInvariance == MenuSpec => []MenuInv
<1>1. MenuInit => MenuInv
  BY MenuStart
<1>2. MenuInv /\ [MenuNext]_menuVars => MenuInv'
  BY MenuStep
<1>3. QED
  BY <1>1, <1>2, PTL DEF MenuSpec

-----------------------------------------------------------------------------
(* What the properties promise.                                            *)

LEMMA OneMeaning == MenuInv => CatalogHasOneMeaning
<1> SUFFICES ASSUME MenuInv PROVE CatalogHasOneMeaning
  OBVIOUS
<1>1. IsCatalog(index)
  BY DEF MenuInv, MenuTypeOK, IsCatalog
<1>2. EveryMenuReachable
  <2>1. Below(DOMAIN index, index, NoMenu) = {m \in DOMAIN index : Ancestors(index, m) \subseteq DOMAIN index}
    BY <1>1, TreeOfKept
  <2>2. \A m \in DOMAIN index : Ancestors(index, m) \subseteq DOMAIN index
    BY <1>1, WhatIsAbove
  <2>3. QED
    BY <2>1, <2>2 DEF EveryMenuReachable
<1>3. PolicyAgreesWithCatalog
  BY <1>1, SamePermissions DEF PolicyAgreesWithCatalog
<1>4. QED
  BY <1>2, <1>3 DEF CatalogHasOneMeaning, MenuInv

\* A table that is served from has one meaning: a tree that reaches every row, and
\* the same enabled permissions in the process and in the database (from_nodes and
\* policy_facts).
THEOREM CatalogMeaning == MenuSpec => []CatalogHasOneMeaning
BY CatalogInvariance, OneMeaning, PTL

\* Normalizing enabled permissions adds enabled ones, and leaves no action without its page.
LEMMA NormalizedLoads ==
    ASSUME NEW t, IsCatalog(t), NEW requested, requested \subseteq EnabledPermissions(t)
    PROVE  /\ Normalize(t, requested) \subseteq EnabledPermissions(t)
           /\ \A x \in ActionPages(t) : x[1] \in Normalize(t, requested) => x[2] \in Normalize(t, requested)
<1> DEFINE actions == {x \in DOMAIN t : t[x].type = "action" /\ t[x].permission \in requested}
           pages == {t[t[m].parent].permission : m \in actions}
<1>1. Normalize(t, requested) = requested \cup pages
  BY DEF Normalize
<1>2. ASSUME NEW m \in actions
      PROVE  t[t[m].parent].permission \in EnabledPermissions(t)
  <2>1. EffectivelyEnabled(t, m)
    BY EnabledCode
  <2>2. t[m].parent \in DOMAIN t /\ t[t[m].parent].permission # NoPermission /\ EffectivelyEnabled(t, t[m].parent)
    BY <2>1, PageOfAction
  <2>3. QED
    BY <2>2 DEF EnabledPermissions, EnabledMenus
<1>3. ASSUME NEW x \in ActionPages(t), x[1] \in requested \cup pages
      PROVE  x[2] \in requested \cup pages
  <2>1. PICK a \in DOMAIN t : /\ t[a].type = "action" /\ x = <<t[a].permission, t[t[a].parent].permission>>
    BY DEF ActionPages
  <2>2. x[1] = t[a].permission /\ x[2] = t[t[a].parent].permission
    BY <2>1
  <2>3. CASE t[a].permission \in requested
    BY <2>1, <2>2, <2>3
  <2>4. CASE t[a].permission \notin requested
    <3>1. PICK m \in actions : t[a].permission = t[t[m].parent].permission
      BY <1>3, <2>2, <2>4
    <3>2. t[m].parent \in DOMAIN t /\ t[t[m].parent].type = "page" /\ t[t[m].parent].permission # NoPermission
      BY PageOfAction
    <3>3. t[m].parent = a
      BY <3>1, <3>2 DEF IsCatalog, Storable
    <3>4. QED
      BY <2>1, <3>2, <3>3
  <2>5. QED
    BY <2>3, <2>4
<1> HIDE DEF actions, pages
<1>4. pages \subseteq EnabledPermissions(t)
  BY <1>2 DEF pages
<1>5. QED
  BY <1>1, <1>3, <1>4

LEMMA GrantsLoad ==
    ASSUME MenuInv, [MenuNext]_menuVars, granted' # granted, table = index
    PROVE  /\ granted' \subseteq SqlPermissions(table)
           /\ \A x \in ActionPages(table) : x[1] \in granted' => x[2] \in granted'
<1>1. GrantAccess
  BY DEF MenuNext, menuVars, Migrate, LoadCatalog, ShowMenu, EditStatus, StopCatalog
<1>2. PICK requested \in SUBSET Permissions : Grantable(index, requested) /\ granted' = Normalize(index, requested)
  BY <1>1 DEF GrantAccess
<1>3. IsCatalog(table)
  BY <1>1, TableServed DEF GrantAccess
<1>4. requested \subseteq EnabledPermissions(table) /\ granted' = Normalize(table, requested)
  BY <1>2 DEF Grantable
<1>5. SqlPermissions(table) = EnabledPermissions(table)
  BY <1>3, SamePermissions
<1>6. QED
  BY <1>3, <1>4, <1>5, NormalizedLoads

\* What replace_access stores passes the policy check of the next reload, for any
\* catalog and any request (normalize_role_access).
THEOREM GrantsLoadable == MenuSpec => GrantsAreLoadable
<1>1. MenuInv /\ [MenuNext]_menuVars =>
          (granted' # granted /\ table = index =>
              /\ granted' \subseteq SqlPermissions(table)
              /\ \A x \in ActionPages(table) : x[1] \in granted' => x[2] \in granted')
  BY GrantsLoad
<1>2. QED
  BY <1>1, CatalogInvariance, PTL DEF MenuSpec, GrantsAreLoadable

-----------------------------------------------------------------------------
(* What is navigated.                                                      *)

\* The pages that a role's permissions lead to.
GrantedPages(t, permissions) ==
    {m \in EnabledMenus(t) : t[m].type = "page" /\ t[m].permission \in permissions}

LEMMA Navigated ==
    ASSUME NEW t, IsCatalog(t), NEW permissions
    PROVE  /\ NavigationMenus(t, permissions) =
                  GrantedPages(t, permissions) \cup UNION {Ancestors(t, m) : m \in GrantedPages(t, permissions)}
           /\ \A m \in GrantedPages(t, permissions) : m \in DOMAIN t /\ Ancestors(t, m) \subseteq DOMAIN t
           /\ \A m \in GrantedPages(t, permissions) : \A a \in Ancestors(t, m) : t[a].type = "directory"
<1>1. ASSUME NEW m \in GrantedPages(t, permissions)
      PROVE  /\ m \in DOMAIN t /\ Ancestors(t, m) \subseteq EnabledMenus(t) /\ Ancestors(t, m) \subseteq DOMAIN t
             /\ \A a \in Ancestors(t, m) : t[a].type = "directory"
  <2>1. m \in DOMAIN t /\ EffectivelyEnabled(t, m) /\ t[m].type = "page"
    BY DEF GrantedPages, EnabledMenus
  <2>2. Ancestors(t, m) \subseteq DOMAIN t /\ \A a \in Ancestors(t, m) : t[a].type = "directory"
    BY <2>1, WhatIsAbove
  <2>3. \A a \in Ancestors(t, m) : EffectivelyEnabled(t, a)
    BY <2>1, EnabledAbove
  <2>4. QED
    BY <2>1, <2>2, <2>3 DEF EnabledMenus
<1> DEFINE P == GrantedPages(t, permissions)
           above == UNION {Ancestors(t, m) : m \in P}
<1>2. NavigationMenus(t, permissions) = P \cup (above \cap EnabledMenus(t))
  BY DEF NavigationMenus, GrantedPages
<1>3. above \subseteq EnabledMenus(t)
  BY <1>1
<1>4. NavigationMenus(t, permissions) = P \cup above
  <2> HIDE DEF P, above
  <2>1. QED
    BY <1>2, <1>3
<1>5. QED
  BY <1>1, <1>4

LEMMA ShownPages ==
    ASSUME MenuInv, ShowMenu
    PROVE  LET pages == {m \in tree'.menus : table[m].type = "page"}
           IN  /\ pages = {m \in DOMAIN table : table[m].type = "page"
                              /\ table[m].permission \in
                                     granted \cap EnabledPermissions(index) \cap SqlPermissions(table)}
               /\ table = index => tree'.menus = pages \cup UNION {Ancestors(table, m) : m \in pages}
<1> DEFINE allowed == NavigationMenus(index, granted)
           kept == Kept(table, allowed)
           P == GrantedPages(index, granted)
           Displayed == {m \in kept : Ancestors(table, m) \subseteq kept}
           pages == {m \in Displayed : table[m].type = "page"}
           due == {m \in DOMAIN table : table[m].type = "page"
                      /\ table[m].permission \in
                             granted \cap EnabledPermissions(index) \cap SqlPermissions(table)}
<1>1. IsCatalog(index) /\ IsCatalog(table) /\ SameRows(table, index)
      /\ \A m \in DOMAIN table : Ancestors(table, m) = Ancestors(index, m)
  BY TableServed DEF ShowMenu
<1>2. kept \in SUBSET DOMAIN table
  BY DEF Kept
<1>3. tree'.menus = Displayed
  <2>1. tree'.menus = Below(kept, table, NoMenu)
    BY DEF ShowMenu
  <2> HIDE DEF kept
  <2>2. QED
    BY <1>1, <1>2, <2>1, TreeOfKept
<1>4. SqlPermissions(table) = EnabledPermissions(table)
  BY <1>1, SamePermissions
<1>5. /\ allowed = P \cup UNION {Ancestors(index, m) : m \in P}
      /\ \A m \in P : m \in DOMAIN index /\ Ancestors(index, m) \subseteq DOMAIN index
      /\ \A m \in P : \A a \in Ancestors(index, m) : index[a].type = "directory"
  BY <1>1, Navigated
<1>6. \A m \in kept : m \in DOMAIN table /\ m \in allowed /\ table[m].enabled /\ table[m].type # "action"
  BY DEF Kept
<1>7. \A m \in DOMAIN table : m \in allowed /\ table[m].enabled /\ table[m].type # "action" => m \in kept
  BY DEF Kept
<1>8. \A m \in P : /\ m \in EnabledMenus(index) /\ index[m].type = "page" /\ index[m].permission \in granted
  BY DEF GrantedPages
<1>9. \A m \in EnabledMenus(index) : index[m].type = "page" /\ index[m].permission \in granted => m \in P
  BY DEF GrantedPages
<1> HIDE DEF allowed, kept, P
<1>10. \A m \in DOMAIN table : table[m].type = "page" => table[m].permission # NoPermission
  <2>1. Storable(table)
    BY <1>1 DEF IsCatalog
  <2>2. \A m \in DOMAIN table : table[m].type = "directory" <=> table[m].permission = NoPermission
    BY <2>1, StorableRows
  <2>3. QED
    BY <2>2
<1>11. ASSUME NEW m \in pages
       PROVE  m \in due /\ m \in P
  <2>1. /\ m \in kept /\ m \in DOMAIN table /\ m \in allowed /\ table[m].enabled /\ table[m].type = "page"
        /\ Ancestors(table, m) \subseteq kept
    BY <1>6
  <2>2. m \in DOMAIN index /\ index[m].type = "page" /\ index[m].permission = table[m].permission
    BY <1>1, <2>1 DEF SameRows
  <2>3. m \in P
    <3>1. \A x \in P : m \notin Ancestors(index, x)
      BY <1>5, <2>2
    <3>2. QED
      BY <1>5, <2>1, <3>1
  <2>4. m \in EnabledMenus(index) /\ index[m].permission \in granted
    BY <1>8, <2>3
  <2>5. table[m].permission # NoPermission
    BY <1>10, <2>1
  <2>6. table[m].permission \in EnabledPermissions(index)
    BY <2>2, <2>4, <2>5 DEF EnabledPermissions
  <2>7. ~OnCycle(table, m)
    BY <1>1, <2>1 DEF IsCatalog, Accepted, ValidNode
  <2>8. \A a \in Ancestors(table, m) : table[a].enabled
    BY <1>6, <2>1
  <2>9. m \in EnabledMenus(table)
    BY <2>1, <2>7, <2>8 DEF EffectivelyEnabled, EnabledMenus
  <2>10. table[m].permission \in EnabledPermissions(table)
    BY <2>5, <2>9 DEF EnabledPermissions
  <2>11. QED
    BY <1>4, <2>1, <2>2, <2>3, <2>4, <2>6, <2>10
<1>12. ASSUME NEW m \in due
       PROVE  m \in pages
  <2>1. /\ m \in DOMAIN table /\ table[m].type = "page" /\ table[m].permission \in granted
        /\ table[m].permission \in EnabledPermissions(index)
        /\ table[m].permission \in EnabledPermissions(table)
    BY <1>4
  <2>2. m \in DOMAIN index /\ index[m].type = "page" /\ index[m].permission = table[m].permission
    BY <1>1, <2>1 DEF SameRows
  <2>3. EffectivelyEnabled(index, m)
    BY <1>1, <2>1, <2>2, EnabledCode
  <2>4. EffectivelyEnabled(table, m)
    BY <1>1, <2>1, EnabledCode
  <2>5. m \in P
    BY <1>9, <2>1, <2>2, <2>3 DEF EnabledMenus
  <2>6. m \in kept
    <3>1. table[m].enabled /\ m \in allowed
      BY <1>5, <2>4, <2>5 DEF EffectivelyEnabled
    <3>2. QED
      BY <1>7, <2>1, <3>1
  <2>7. ASSUME NEW a \in Ancestors(table, m)
        PROVE  a \in kept
    <3>1. a \in Ancestors(index, m)
      BY <1>1, <2>1
    <3>2. a \in allowed /\ a \in DOMAIN index /\ index[a].type = "directory"
      BY <1>5, <2>5, <3>1
    <3>3. a \in DOMAIN table /\ table[a].type = "directory"
      BY <1>1, <3>2 DEF SameRows
    <3>4. table[a].enabled
      BY <2>4 DEF EffectivelyEnabled
    <3>5. QED
      BY <1>7, <3>2, <3>3, <3>4
  <2>8. QED
    BY <2>1, <2>6, <2>7
<1>13. pages = due
  <2> HIDE DEF pages, due
  <2>1. due \subseteq pages /\ pages \subseteq due
    BY <1>11, <1>12
  <2>2. QED
    BY <2>1
<1>14. ASSUME table = index
       PROVE  Displayed = pages \cup UNION {Ancestors(table, m) : m \in pages}
  <2>1. P \subseteq pages
    <3>1. ASSUME NEW m \in P PROVE m \in due
      <4>1. m \in DOMAIN table /\ table[m].type = "page" /\ table[m].permission \in granted /\ m \in EnabledMenus(table)
        BY <1>5, <1>8, <1>14
      <4>2. table[m].permission \in EnabledPermissions(table)
        BY <1>10, <4>1 DEF EnabledPermissions
      <4>3. QED
        BY <1>4, <1>14, <4>1, <4>2
    <3> HIDE DEF pages, due
    <3>2. QED
      BY <1>13, <3>1
  <2>2. pages \subseteq P
    <3> HIDE DEF pages, due
    <3>1. QED
      BY <1>11
  <2>3. allowed = pages \cup UNION {Ancestors(table, m) : m \in pages}
    <3>1. pages = P
      <4> HIDE DEF pages
      <4>1. QED
        BY <2>1, <2>2
    <3> HIDE DEF pages
    <3>2. QED
      BY <1>5, <1>14, <3>1
  <2>4. Displayed \subseteq allowed
    BY <1>6
  <2>5. ASSUME NEW m \in pages, NEW a \in Ancestors(table, m)
        PROVE  a \in Displayed
    <3>1. m \in DOMAIN table /\ Ancestors(table, m) \subseteq kept
      BY <1>2
    <3>2. Ancestors(table, a) \subseteq Ancestors(table, m)
      BY <1>1, <3>1, WhatIsAbove
    <3>3. QED
      BY <3>1, <3>2
  <2>6. pages \subseteq Displayed
    OBVIOUS
  <2> HIDE DEF pages, Displayed
  <2>7. QED
    BY <2>3, <2>4, <2>5, <2>6
<1>15. pages = {m \in tree'.menus : table[m].type = "page"}
  BY <1>3
<1> HIDE DEF pages, Displayed
<1>16. QED
  BY <1>3, <1>13, <1>14, <1>15 DEF due

\* A user is shown the pages that are granted and enabled with all that is above
\* them, and no others, in the process and in the database, for a table of any depth
\* (MenuService::current, build_tree).
THEOREM NavigationMeaning == MenuSpec => NavigationShowsGrantedPages
<1>1. MenuInv /\ [MenuNext]_menuVars =>
          (ShowMenu =>
              LET pages == {m \in tree'.menus : table[m].type = "page"}
              IN  /\ pages = {m \in DOMAIN table : table[m].type = "page"
                                 /\ table[m].permission \in
                                        granted \cap EnabledPermissions(index) \cap SqlPermissions(table)}
                  /\ table = index => tree'.menus = pages \cup UNION {Ancestors(table, m) : m \in pages})
  BY ShownPages
<1>2. QED
  BY <1>1, CatalogInvariance, PTL DEF MenuSpec, NavigationShowsGrantedPages

=============================================================================
