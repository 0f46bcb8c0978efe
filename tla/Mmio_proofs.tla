----------------------------- MODULE Mmio_proofs ----------------------------
(***************************************************************************)
(* Proofs about the registry of device regions, for any number of drivers, *)
(* resources and requests: its trees stay trees, no request is granted     *)
(* that overlaps a busy region of the tree, references are counted         *)
(* exactly, and the pages of an activated region are mapped as far as      *)
(* there was memory for their tables.                                      *)
(***************************************************************************)
EXTENDS Mmio, FiniteSetTheorems, WellFoundedInduction, TLAPS

-----------------------------------------------------------------------------
(* Walks *)

LEMMA ReachRules ==
  ASSUME NEW n \in Nodes, NEW steps
  PROVE  /\ n \in Reach(n, steps) /\ Reach(n, steps) \subseteq Nodes
         /\ \A e \in steps : e[1] \in Reach(n, steps) /\ e[2] \in Nodes => e[2] \in Reach(n, steps)
         /\ \A S \in SUBSET Nodes :
              n \in S /\ (\A e \in steps : e[1] \in S => e[2] \in S) => Reach(n, steps) \subseteq S
<1> DEFINE ends   == ({n} \cup {e[2] : e \in steps}) \cap Nodes
           closed == {S \in SUBSET ends : n \in S /\ \A e \in steps : e[1] \in S => e[2] \in S}
<1>4. Reach(n, steps) = {m \in ends : \A S \in closed : m \in S}
  BY DEF Reach
<1>5. n \in ends /\ ends \subseteq Nodes /\ \A e \in steps : e[2] \in Nodes => e[2] \in ends
  OBVIOUS
<1>1. n \in Reach(n, steps) /\ Reach(n, steps) \subseteq Nodes
  BY <1>4, <1>5
<1>2. \A e \in steps : e[1] \in Reach(n, steps) /\ e[2] \in Nodes => e[2] \in Reach(n, steps)
  BY <1>4, <1>5
<1>3. ASSUME NEW S \in SUBSET Nodes, n \in S, \A e \in steps : e[1] \in S => e[2] \in S
      PROVE  Reach(n, steps) \subseteq S
  <2>1. S \cap ends \in closed
    <3>1. ASSUME NEW e \in steps, e[1] \in S PROVE e[2] \in S \cap ends
      BY <1>3, <1>5, <3>1
    <3> QED
      BY <1>3, <1>5, <3>1
  <2> QED
    BY <1>4, <2>1
<1> QED
  BY <1>1, <1>2, <1>3

\* The walk down lists of children ch, and the walk up to the parents pa.
Tree(ch, n) == Reach(n, UNION {{<<m, k>> : k \in ToSet(ch[m])} : m \in Nodes})
Line(pa, n) == Reach(n, {<<k, pa[k]>> : k \in {m \in Nodes : pa[m] # None}})

LEMMA TreeRules ==
  ASSUME NEW ch \in [Nodes -> Seq(Slots)], NEW n \in Nodes
  PROVE  /\ n \in Tree(ch, n) /\ Tree(ch, n) \subseteq Nodes
         /\ \A m \in Tree(ch, n) : ToSet(ch[m]) \subseteq Tree(ch, n)
         /\ \A S \in SUBSET Nodes :
              n \in S /\ (\A m \in S : ToSet(ch[m]) \subseteq S) => Tree(ch, n) \subseteq S
<1> DEFINE steps == UNION {{<<m, k>> : k \in ToSet(ch[m])} : m \in Nodes}
<1>1. \A m \in Nodes : ToSet(ch[m]) \subseteq Nodes
  BY DEF ToSet, Nodes
<1>2. \A m \in Nodes : \A k \in ToSet(ch[m]) : <<m, k>> \in steps
  OBVIOUS
<1>3. \A e \in steps : \E m \in Nodes : \E k \in ToSet(ch[m]) : e = <<m, k>>
  OBVIOUS
<1>4. Tree(ch, n) = Reach(n, steps)
  BY DEF Tree
<1> HIDE DEF steps
<1>5. n \in Tree(ch, n) /\ Tree(ch, n) \subseteq Nodes
  BY <1>4, ReachRules
<1>6. ASSUME NEW m \in Tree(ch, n), NEW k \in ToSet(ch[m]) PROVE k \in Tree(ch, n)
  <2>1. <<m, k>> \in steps /\ k \in Nodes
    BY <1>1, <1>2, <1>5
  <2>2. <<m, k>>[1] = m /\ <<m, k>>[2] = k
    OBVIOUS
  <2> QED
    BY <1>4, <2>1, <2>2, ReachRules
<1>7. ASSUME NEW S \in SUBSET Nodes, n \in S, \A m \in S : ToSet(ch[m]) \subseteq S
      PROVE  Tree(ch, n) \subseteq S
  <2>1. \A e \in steps : e[1] \in S => e[2] \in S
    BY <1>3, <1>7
  <2> QED
    BY <1>4, <1>7, <2>1, ReachRules
<1> QED
  BY <1>5, <1>6, <1>7

LEMMA LineRules ==
  ASSUME NEW pa \in [Nodes -> Nodes \cup {None}], NEW n \in Nodes
  PROVE  /\ n \in Line(pa, n) /\ Line(pa, n) \subseteq Nodes
         /\ \A m \in Line(pa, n) : pa[m] # None => pa[m] \in Line(pa, n)
         /\ \A S \in SUBSET Nodes :
              n \in S /\ (\A m \in S : pa[m] # None => pa[m] \in S) => Line(pa, n) \subseteq S
<1> DEFINE steps == {<<k, pa[k]>> : k \in {m \in Nodes : pa[m] # None}}
<1>2. \A m \in Nodes : pa[m] # None => <<m, pa[m]>> \in steps /\ pa[m] \in Nodes
  OBVIOUS
<1>3. \A e \in steps : \E m \in Nodes : pa[m] # None /\ e = <<m, pa[m]>>
  OBVIOUS
<1>4. Line(pa, n) = Reach(n, steps)
  BY DEF Line
<1> HIDE DEF steps
<1>5. n \in Line(pa, n) /\ Line(pa, n) \subseteq Nodes
  BY <1>4, ReachRules
<1>6. ASSUME NEW m \in Line(pa, n), pa[m] # None PROVE pa[m] \in Line(pa, n)
  <2>1. <<m, pa[m]>> \in steps /\ pa[m] \in Nodes
    BY <1>2, <1>5, <1>6
  <2>2. <<m, pa[m]>>[1] = m /\ <<m, pa[m]>>[2] = pa[m]
    OBVIOUS
  <2> QED
    BY <1>4, <2>1, <2>2, ReachRules
<1>7. ASSUME NEW S \in SUBSET Nodes, n \in S, \A m \in S : pa[m] # None => pa[m] \in S
      PROVE  Line(pa, n) \subseteq S
  <2>1. \A e \in steps : e[1] \in S => e[2] \in S
    BY <1>3, <1>7
  <2> QED
    BY <1>4, <1>7, <2>1, ReachRules
<1> QED
  BY <1>5, <1>6, <1>7

LEMMA LineLeast ==
  ASSUME NEW pa, pa \in [Nodes -> Nodes \cup {None}], NEW n \in Nodes, NEW S,
         S \subseteq Nodes, n \in S, \A m \in S : pa[m] # None => pa[m] \in S
  PROVE  Line(pa, n) \subseteq S
BY LineRules

-----------------------------------------------------------------------------
(* Trees *)

Distinct(list) == \A i, j \in 1 .. Len(list) : list[i] = list[j] => i = j

\* Every resource on a list of children is in use, names the owner of the list as
\* its parent, and belongs to the same root.  Also those that dropped out of the
\* tree are linked like that to what they have below.
WellLinked(ch, pa, al, re) ==
  /\ ch \in [Nodes -> Seq(Slots)] /\ pa \in [Nodes -> Nodes \cup {None}] /\ al \subseteq Slots
  /\ \A n \in Nodes : \A m \in ToSet(ch[n]) : m \in al /\ pa[m] = n /\ re[m].root = re[n].root
  /\ \A n \in Nodes \ (al \cup Roots) : ch[n] = <<>>
  /\ \A n \in Nodes : Distinct(ch[n])
  /\ \A root \in Roots : pa[root] = None /\ re[root].root = root

\* What is in a tree is in use, belongs to its root, and has its parent and all its
\* ancestors there.
LEMMA InsideTree ==
  ASSUME NEW ch, NEW pa, NEW al, NEW re, WellLinked(ch, pa, al, re), NEW root \in Roots
  PROVE  \A n \in Tree(ch, root) :
           /\ n \in al \cup Roots /\ re[n].root = root
           /\ n \in Roots => n = root
           /\ n # root => \E m \in Tree(ch, root) : m # n /\ n \in ToSet(ch[m]) /\ pa[n] = m
           /\ Line(pa, n) \subseteq Tree(ch, root)
<1>1. /\ ch \in [Nodes -> Seq(Slots)] /\ pa \in [Nodes -> Nodes \cup {None}] /\ al \subseteq Slots
      /\ \A n \in Nodes : \A m \in ToSet(ch[n]) : m \in al /\ pa[m] = n /\ re[m].root = re[n].root
      /\ \A k \in Roots : pa[k] = None /\ re[k].root = k
  BY DEF WellLinked
<1>2. root \in Nodes /\ al \cup Roots \subseteq Nodes /\ al \cap Roots = {}
  BY <1>1, MmioAssumption DEF Nodes
<1>3. Tree(ch, root) \subseteq al \cup Roots
  <2>1. \A m \in al \cup Roots : ToSet(ch[m]) \subseteq al \cup Roots
    BY <1>1, <1>2
  <2> QED
    BY <1>1, <1>2, <2>1, TreeRules
<1>4. \A n \in Tree(ch, root) : re[n].root = root
  <2> DEFINE S == {n \in Nodes : re[n].root = root}
  <2>1. root \in S
    BY <1>1, <1>2
  <2>2. ASSUME NEW m \in S, NEW k \in ToSet(ch[m]) PROVE k \in S
    BY <1>1, <1>2
  <2>3. Tree(ch, root) \subseteq S
    <3> HIDE DEF S
    <3>1. S \in SUBSET Nodes
      BY DEF S
    <3> QED
      BY <1>1, <1>2, <2>1, <2>2, <3>1, TreeRules
  <2> QED
    BY <2>3
<1>5. ASSUME NEW n \in Tree(ch, root), n # root
      PROVE  \E m \in Tree(ch, root) : m # n /\ n \in ToSet(ch[m]) /\ pa[n] = m
  <2>1. SUFFICES ASSUME \A m \in Tree(ch, root) : m # n => n \notin ToSet(ch[m])
                 PROVE  FALSE
    <3>1. ASSUME NEW m \in Tree(ch, root), n \in ToSet(ch[m]) PROVE pa[n] = m
      BY <1>1, <1>2, <1>3, <3>1
    <3> QED
      BY <3>1
  <2> DEFINE S == Tree(ch, root) \ {n}
  <2>2. S \in SUBSET Nodes /\ root \in S
    BY <1>1, <1>2, <1>5, TreeRules
  <2>3. \A m \in S : ToSet(ch[m]) \subseteq S
    <3>1. \A m \in Tree(ch, root) : ToSet(ch[m]) \subseteq Tree(ch, root)
      BY <1>1, <1>2, TreeRules
    <3> QED
      BY <2>1, <3>1
  <2>4. Tree(ch, root) \subseteq S
    <3> HIDE DEF S
    <3> QED
      BY <1>1, <1>2, <2>2, <2>3, TreeRules
  <2> QED
    BY <1>5, <2>4
<1>6. ASSUME NEW n \in Tree(ch, root) PROVE Line(pa, n) \subseteq Tree(ch, root)
  <2>1. \A m \in Tree(ch, root) : pa[m] # None => pa[m] \in Tree(ch, root)
    BY <1>1, <1>5
  <2>2. Tree(ch, root) \in SUBSET Nodes /\ n \in Nodes
    BY <1>2, <1>3
  <2> QED
    BY <1>1, <2>1, <2>2, LineRules
<1> QED
  BY <1>1, <1>3, <1>4, <1>5, <1>6

\* The ancestors of an ancestor.
LEMMA LineOfAncestor ==
  ASSUME NEW pa \in [Nodes -> Nodes \cup {None}], NEW n \in Nodes, NEW a \in Line(pa, n)
  PROVE  Line(pa, a) \subseteq Line(pa, n)
<1>1. a \in Nodes /\ Line(pa, n) \in SUBSET Nodes
  BY LineRules
<1>2. \A m \in Line(pa, n) : pa[m] # None => pa[m] \in Line(pa, n)
  BY LineRules
<1> QED
  BY <1>1, <1>2, LineRules

-----------------------------------------------------------------------------
(* Lists *)

LEMMA ConcatRules ==
  ASSUME NEW a \in Seq(Slots), NEW b \in Seq(Slots)
  PROVE  /\ a \o b \in Seq(Slots) /\ Len(a \o b) = Len(a) + Len(b)
         /\ \A k \in 1 .. Len(a) + Len(b) :
              (a \o b)[k] = IF k <= Len(a) THEN a[k] ELSE b[k - Len(a)]
<1>1. a \o b \in Seq(Slots) /\ Len(a \o b) = Len(a) + Len(b)
  OBVIOUS
<1>2. \A k \in 1 .. Len(a) + Len(b) :
        (a \o b)[k] = IF k <= Len(a) THEN a[k] ELSE b[k - Len(a)]
  OBVIOUS
<1> QED
  BY <1>1, <1>2

\* A list with the elements from i up to the one in front of j replaced by mid.
Splice(list, i, mid, j) == SubSeq(list, 1, i - 1) \o mid \o SubSeq(list, j, Len(list))

LEMMA SpliceElements ==
  ASSUME NEW list \in Seq(Slots), NEW mid \in Seq(Slots),
         NEW i \in 1 .. Len(list) + 1, NEW j \in i .. Len(list) + 1
  PROVE  /\ Splice(list, i, mid, j) \in Seq(Slots)
         /\ Len(Splice(list, i, mid, j)) = (i - 1) + Len(mid) + (Len(list) - j + 1)
         /\ \A k \in 1 .. Len(Splice(list, i, mid, j)) :
              Splice(list, i, mid, j)[k] =
                IF k < i THEN list[k]
                ELSE IF k < i + Len(mid) THEN mid[k - (i - 1)]
                ELSE list[k - (i - 1) - Len(mid) + (j - 1)]
<1> DEFINE front == SubSeq(list, 1, i - 1)
           back  == SubSeq(list, j, Len(list))
<1>0. Len(list) \in Nat /\ Len(mid) \in Nat /\ i \in Int /\ j \in Int /\ 1 <= i /\ i <= j
      /\ j <= Len(list) + 1
  OBVIOUS
<1>1. /\ front \in Seq(Slots) /\ Len(front) = i - 1
      /\ \A k \in 1 .. i - 1 : front[k] = list[k]
  BY <1>0
<1>2. /\ back \in Seq(Slots) /\ Len(back) = Len(list) - j + 1
      /\ \A k \in 1 .. Len(list) - j + 1 : back[k] = list[j + k - 1]
  BY <1>0
<1>3. Splice(list, i, mid, j) = (front \o mid) \o back
  BY DEF Splice
<1> HIDE DEF front, back
<1>4. /\ front \o mid \in Seq(Slots) /\ Len(front \o mid) = (i - 1) + Len(mid)
      /\ \A k \in 1 .. (i - 1) + Len(mid) :
           (front \o mid)[k] = IF k < i THEN list[k] ELSE mid[k - (i - 1)]
  <2>1. /\ front \o mid \in Seq(Slots) /\ Len(front \o mid) = Len(front) + Len(mid)
        /\ \A k \in 1 .. Len(front) + Len(mid) :
             (front \o mid)[k] = IF k <= Len(front) THEN front[k] ELSE mid[k - Len(front)]
    BY <1>1, ConcatRules
  <2>2. Len(front \o mid) = (i - 1) + Len(mid)
    BY <1>1, <2>1
  <2>3. ASSUME NEW k \in 1 .. (i - 1) + Len(mid)
        PROVE  (front \o mid)[k] = IF k < i THEN list[k] ELSE mid[k - (i - 1)]
    <3>1. (front \o mid)[k] = IF k <= i - 1 THEN front[k] ELSE mid[k - (i - 1)]
      BY <1>1, <2>1
    <3>2. k <= i - 1 <=> k < i
      BY <1>0
    <3>3. k < i => front[k] = list[k]
      BY <1>0, <1>1
    <3> QED
      BY <3>1, <3>2, <3>3
  <2> QED
    BY <2>1, <2>2, <2>3
<1> DEFINE half == front \o mid
<1>5. half \in Seq(Slots) /\ Splice(list, i, mid, j) = half \o back
  BY <1>3, <1>4
<1>6. /\ Len(half) = (i - 1) + Len(mid)
      /\ \A k \in 1 .. (i - 1) + Len(mid) :
           half[k] = IF k < i THEN list[k] ELSE mid[k - (i - 1)]
  BY <1>4
<1> HIDE DEF half
<1>7. /\ half \o back \in Seq(Slots) /\ Len(half \o back) = Len(half) + Len(back)
      /\ \A k \in 1 .. Len(half) + Len(back) :
           (half \o back)[k] = IF k <= Len(half) THEN half[k] ELSE back[k - Len(half)]
  BY <1>2, <1>5, ConcatRules
<1>8. ASSUME NEW k \in 1 .. Len(half) + Len(back)
      PROVE  (half \o back)[k] =
                IF k < i THEN list[k]
                ELSE IF k < i + Len(mid) THEN mid[k - (i - 1)]
                ELSE list[k - (i - 1) - Len(mid) + (j - 1)]
  <2>1. CASE k <= Len(half)
    BY <1>0, <1>6, <1>7, <2>1
  <2>2. CASE k > Len(half)
    <3>1. k - Len(half) \in 1 .. Len(list) - j + 1
      BY <1>0, <1>2, <1>6, <2>2
    <3>2. back[k - Len(half)] = list[j + (k - Len(half)) - 1]
      BY <1>2, <3>1
    <3>3. j + (k - Len(half)) - 1 = k - (i - 1) - Len(mid) + (j - 1)
      BY <1>0, <1>6
    <3>4. ~(k < i) /\ ~(k < i + Len(mid)) /\ ~(k <= Len(half))
      BY <1>0, <1>6, <2>2
    <3> QED
      BY <1>7, <3>2, <3>3, <3>4
  <2> QED
    BY <1>0, <1>6, <2>1, <2>2
<1> QED
  BY <1>2, <1>5, <1>6, <1>7, <1>8

\* What splicing keeps: each element is there once.
LEMMA SpliceRules ==
  ASSUME NEW list \in Seq(Slots), NEW mid \in Seq(Slots), Distinct(list), Distinct(mid),
         ToSet(mid) \cap ToSet(list) = {},
         NEW i \in 1 .. Len(list) + 1, NEW j \in i .. Len(list) + 1
  PROVE  /\ Splice(list, i, mid, j) \in Seq(Slots) /\ Distinct(Splice(list, i, mid, j))
         /\ \A x \in ToSet(Splice(list, i, mid, j)) :
              \/ x \in ToSet(mid)
              \/ \E k \in 1 .. Len(list) : (k < i \/ k >= j) /\ x = list[k]
<1> DEFINE L == Splice(list, i, mid, j)
           Old(k) == IF k < i THEN k ELSE k - (i - 1) - Len(mid) + (j - 1)
<1>0. Len(list) \in Nat /\ Len(mid) \in Nat /\ i \in Int /\ j \in Int /\ 1 <= i /\ i <= j
      /\ j <= Len(list) + 1
  OBVIOUS
<1>1. L \in Seq(Slots) /\ Len(L) = (i - 1) + Len(mid) + (Len(list) - j + 1)
  BY SpliceElements
<1>2. ASSUME NEW k \in 1 .. Len(L)
      PROVE  \/ k - (i - 1) \in 1 .. Len(mid) /\ L[k] = mid[k - (i - 1)]
             \/ /\ k < i \/ k >= i + Len(mid)
                /\ Old(k) \in 1 .. Len(list) /\ (Old(k) < i \/ Old(k) >= j) /\ L[k] = list[Old(k)]
  <2>1. L[k] = IF k < i THEN list[k]
               ELSE IF k < i + Len(mid) THEN mid[k - (i - 1)]
               ELSE list[k - (i - 1) - Len(mid) + (j - 1)]
    BY SpliceElements
  <2>2. k \in Int /\ 1 <= k /\ k <= (i - 1) + Len(mid) + (Len(list) - j + 1)
    BY <1>1
  <2> HIDE DEF L
  <2>3. CASE k < i
    BY <1>0, <2>1, <2>2, <2>3
  <2>4. CASE ~(k < i) /\ k < i + Len(mid)
    <3>1. k - (i - 1) \in 1 .. Len(mid)
      BY <1>0, <2>2, <2>4
    <3> QED
      BY <2>1, <2>4, <3>1
  <2>5. CASE ~(k < i) /\ ~(k < i + Len(mid))
    <3>1. /\ Old(k) \in 1 .. Len(list) /\ Old(k) >= j /\ k >= i + Len(mid)
          /\ Old(k) = k - (i - 1) - Len(mid) + (j - 1)
      BY <1>0, <2>2, <2>5
    <3> QED
      BY <2>1, <2>5, <3>1
  <2> QED
    BY <2>3, <2>4, <2>5
<1>3. Distinct(L)
  <2> SUFFICES ASSUME NEW k \in 1 .. Len(L), NEW l \in 1 .. Len(L), L[k] = L[l] PROVE k = l
    BY DEF Distinct
  <2> HIDE DEF L, Old
  <2>1. \A x \in 1 .. Len(mid), y \in 1 .. Len(list) : mid[x] # list[y]
    <3>1. \A x \in 1 .. Len(mid) : mid[x] \in ToSet(mid)
      BY DEF ToSet
    <3>2. \A y \in 1 .. Len(list) : list[y] \in ToSet(list)
      BY DEF ToSet
    <3> QED
      BY <3>1, <3>2
  <2>2. CASE k - (i - 1) \in 1 .. Len(mid) /\ L[k] = mid[k - (i - 1)]
    <3>1. l - (i - 1) \in 1 .. Len(mid) /\ L[l] = mid[l - (i - 1)]
      BY <1>2, <2>1, <2>2
    <3>2. k - (i - 1) = l - (i - 1)
      BY <2>2, <3>1 DEF Distinct
    <3> QED
      BY <1>0, <1>1, <3>2
  <2>3. CASE /\ k < i \/ k >= i + Len(mid)
             /\ Old(k) \in 1 .. Len(list) /\ L[k] = list[Old(k)]
    <3>1. /\ l < i \/ l >= i + Len(mid)
          /\ Old(l) \in 1 .. Len(list) /\ L[l] = list[Old(l)]
      BY <1>2, <2>1, <2>3
    <3>2. Old(k) = Old(l)
      BY <2>3, <3>1 DEF Distinct
    <3>3. k \in Int /\ l \in Int
      BY <1>1
    <3> QED
      BY <1>0, <2>3, <3>1, <3>2, <3>3 DEF Old
  <2> QED
    BY <1>2, <2>2, <2>3
<1>4. ASSUME NEW x \in ToSet(L)
      PROVE  \/ x \in ToSet(mid)
             \/ \E k \in 1 .. Len(list) : (k < i \/ k >= j) /\ x = list[k]
  <2> HIDE DEF L, Old
  <2>1. PICK k \in 1 .. Len(L) : x = L[k]
    BY <1>1 DEF ToSet
  <2>2. \A y \in 1 .. Len(mid) : mid[y] \in ToSet(mid)
    BY DEF ToSet
  <2> QED
    BY <1>2, <2>1, <2>2
<1> QED
  BY <1>1, <1>3, <1>4

LEMMA MinMember ==
  ASSUME NEW S \in SUBSET Nat, S # {}
  PROVE  Min(S) \in S
<1> DEFINE Less == {ss \in Nat \X Nat : ss[1] < ss[2]}
<1>1. IsWellFoundedOn(Less, Nat)
  BY NatLessThanWellFounded DEF OpToRel
<1> HIDE DEF Less
<1>2. \E p \in S : \A q \in S : ~(<<q, p>> \in Less)
  BY <1>1, WFMin
<1>3. \E p \in S : \A q \in S : ~(q < p)
  BY <1>2 DEF Less
<1>4. \E p \in S : \A q \in S : p <= q
  BY <1>3
<1> QED
  BY <1>4 DEF Min

\* Wherever the new resource is put among its siblings, it is there once.
LEMMA InsertRules ==
  ASSUME NEW list \in Seq(Slots), Distinct(list), NEW s \in Slots, s \notin ToSet(list), NEW start
  PROVE  /\ InsertSorted(list, s, start) \in Seq(Slots) /\ Distinct(InsertSorted(list, s, start))
         /\ ToSet(InsertSorted(list, s, start)) \subseteq ToSet(list) \cup {s}
<1> DEFINE one == <<s>>
<1>1. one \in Seq(Slots) /\ Len(one) = 1 /\ ToSet(one) = {s} /\ Distinct(one)
  BY DEF ToSet, Distinct
<1> HIDE DEF one
<1>2. ASSUME NEW i \in 1 .. Len(list) + 1
      PROVE  /\ Splice(list, i, one, i) \in Seq(Slots) /\ Distinct(Splice(list, i, one, i))
             /\ ToSet(Splice(list, i, one, i)) \subseteq ToSet(list) \cup {s}
  <2>1. ToSet(one) \cap ToSet(list) = {}
    BY <1>1
  <2>2. i \in i .. Len(list) + 1
    OBVIOUS
  <2>3. /\ Splice(list, i, one, i) \in Seq(Slots) /\ Distinct(Splice(list, i, one, i))
        /\ \A x \in ToSet(Splice(list, i, one, i)) :
             x \in ToSet(one) \/ \E k \in 1 .. Len(list) : (k < i \/ k >= i) /\ x = list[k]
    <3>1. one \in Seq(Slots) /\ Distinct(one)
      BY <1>1
    <3> QED
      BY <2>1, <2>2, <3>1, SpliceRules
  <2>4. \A k \in 1 .. Len(list) : list[k] \in ToSet(list)
    BY DEF ToSet
  <2> QED
    BY <1>1, <2>3, <2>4
<1>3. CASE list = <<>>
  <2>1. InsertSorted(list, s, start) = one
    BY <1>3 DEF InsertSorted, one
  <2> QED
    BY <1>1, <2>1
<1> DEFINE later == {i \in 2 .. Len(list) : region[list[i]].start > start}
<1>4. CASE list # <<>> /\ later = {}
  <2>1. InsertSorted(list, s, start) = Append(list, s)
    BY <1>4 DEF InsertSorted
  <2>2. Append(list, s) = Splice(list, Len(list) + 1, one, Len(list) + 1)
    BY DEF Splice, one
  <2>3. Len(list) + 1 \in 1 .. Len(list) + 1
    OBVIOUS
  <2> QED
    BY <1>2, <2>1, <2>2, <2>3
<1>5. CASE list # <<>> /\ later # {}
  <2>1. InsertSorted(list, s, start) = InsertAt(list, Min(later), s)
    BY <1>5 DEF InsertSorted
  <2>2. InsertAt(list, Min(later), s) = Splice(list, Min(later), one, Min(later))
    BY DEF InsertAt, Splice, one
  <2>3. Min(later) \in later
    <3>1. later \in SUBSET Nat
      OBVIOUS
    <3> HIDE DEF later
    <3> QED
      BY <1>5, <3>1, MinMember
  <2>4. Min(later) \in 1 .. Len(list) + 1
    <3>1. Min(later) \in 2 .. Len(list)
      BY <2>3
    <3> QED
      BY <3>1
  <2> QED
    BY <1>2, <2>1, <2>2, <2>4
<1> QED
  BY <1>3, <1>4, <1>5

Linked == WellLinked(children, parent, alive, region)

LEMMA BelowIsTree ==
  ASSUME NEW n PROVE Below(n) = Tree(children, n) /\ Ancestry(n) = Line(parent, n)
BY DEF Below, Tree, Ancestry, Line

\* _find_shared returns a child of the root.
LEMMA FindSharedChild ==
  ASSUME Linked, NEW q \in Requests, FindShared(q) # None
  PROVE  FindShared(q) \in alive
<1>1. q.root \in Nodes
  BY MmioAssumption DEF Request, Nodes
<1> DEFINE list == children[q.root]
           I == {i \in 1 .. Len(list) : \E m \in Below(list[i]) : MatchesShared(m, q)}
<1>2. list \in Seq(Slots)
  BY <1>1 DEF Linked, WellLinked
<1>3. FindShared(q) = (IF (IF I # {} THEN Min(I) ELSE 0) = 0 THEN None
                       ELSE list[IF I # {} THEN Min(I) ELSE 0])
  BY DEF FindShared, SelectInSeq
<1>4. I # {}
  BY <1>3
<1>5. I \in SUBSET Nat
  BY <1>2
<1>6. Min(I) \in I
  BY <1>4, <1>5, MinMember
<1>7. Min(I) \in 1 .. Len(list)
  BY <1>6
<1>8. FindShared(q) = list[Min(I)]
  <2> HIDE DEF I, list
  <2> QED
    BY <1>2, <1>3, <1>4, <1>7
<1>9. list[Min(I)] \in ToSet(list)
  <2> HIDE DEF I, list
  <2> QED
    BY <1>2, <1>7 DEF ToSet
<1> QED
  BY <1>1, <1>8, <1>9 DEF Linked, WellLinked

\* _add_nested comes to an end, and the place it finds is in the tree of the root:
\* going down along first children, it can meet no resource twice.
LEMMA PlaceInTree ==
  ASSUME Linked, NEW q \in Requests
  PROVE  Place(q) \in Below(q.root)
<1>1. q.root \in Roots /\ q.root \in Nodes /\ IsFiniteSet(Nodes)
  <2>1. IsFiniteSet({MemRoot, PortRoot})
    <3>1. IsFiniteSet({MemRoot}) /\ IsFiniteSet({PortRoot})
      BY FS_Singleton
    <3>2. IsFiniteSet({MemRoot} \cup {PortRoot})
      BY <3>1, FS_Union
    <3>3. {MemRoot} \cup {PortRoot} = {MemRoot, PortRoot}
      OBVIOUS
    <3> QED
      BY <3>2, <3>3
  <2>2. IsFiniteSet(Roots \cup Slots)
    BY <2>1, FS_Union, MmioAssumption DEF Roots
  <2> QED
    BY <2>2, MmioAssumption DEF Request, Nodes
<1>2. /\ children \in [Nodes -> Seq(Slots)] /\ alive \subseteq Slots
      /\ \A n \in Nodes : \A m \in ToSet(children[n]) : m \in alive /\ parent[m] = n
  BY DEF Linked, WellLinked
<1> DEFINE steps == {<<n, children[n][1]>> : n \in {m \in Nodes : ~StopsAt(m, q)}}
           D == Descent(q)
<1>3. D = Reach(q.root, steps)
  BY DEF Descent
<1>4. \A n \in Nodes : ~StopsAt(n, q) =>
        /\ children[n][1] \in ToSet(children[n]) /\ children[n][1] \in alive
        /\ children[n][1] \in Nodes /\ parent[children[n][1]] = n
        /\ <<n, children[n][1]>> \in steps
  <2>1. ASSUME NEW n \in Nodes, ~StopsAt(n, q) PROVE children[n][1] \in ToSet(children[n])
    <3>1. children[n] # <<>> /\ children[n] \in Seq(Slots)
      BY <1>2, <2>1 DEF StopsAt
    <3>2. 1 \in DOMAIN children[n]
      BY <3>1
    <3> QED
      BY <3>2 DEF ToSet
  <2> QED
    BY <1>2, <2>1 DEF Nodes
<1>5. \A e \in steps : \E n \in Nodes : ~StopsAt(n, q) /\ e = <<n, children[n][1]>>
  OBVIOUS
<1> HIDE DEF steps
<1>6. q.root \in D /\ D \subseteq Nodes
  BY <1>1, <1>3, ReachRules
<1>7. ASSUME NEW n \in D, ~StopsAt(n, q) PROVE children[n][1] \in D
  <2>1. <<n, children[n][1]>> \in steps /\ children[n][1] \in Nodes
    BY <1>4, <1>6, <1>7
  <2>2. <<n, children[n][1]>>[1] = n /\ <<n, children[n][1]>>[2] = children[n][1]
    OBVIOUS
  <2> QED
    BY <1>1, <1>3, <2>1, <2>2, ReachRules
<1>8. D \subseteq Below(q.root)
  <2>1. /\ q.root \in Tree(children, q.root) /\ Tree(children, q.root) \in SUBSET Nodes
        /\ \A m \in Tree(children, q.root) : ToSet(children[m]) \subseteq Tree(children, q.root)
    BY <1>1, <1>2, TreeRules
  <2>2. \A e \in steps : e[1] \in Tree(children, q.root) => e[2] \in Tree(children, q.root)
    BY <1>4, <1>5, <2>1
  <2> QED
    BY <1>1, <1>3, <2>1, <2>2, ReachRules, BelowIsTree
<1>9. \E n \in D : StopsAt(n, q)
  <2>1. SUFFICES ASSUME \A n \in D : ~StopsAt(n, q) PROVE FALSE
    OBVIOUS
  <2> DEFINE T == D \ {q.root}
             f == [n \in D |-> children[n][1]]
  <2>2. IsFiniteSet(D) /\ IsFiniteSet(T) /\ Cardinality(T) = Cardinality(D) - 1
    BY <1>1, <1>6, FS_Subset, FS_RemoveElement
  <2>3. Cardinality(T) < Cardinality(D)
    <3>1. Cardinality(D) \in Nat
      BY <2>2, FS_CardinalityType
    <3> HIDE DEF T, D
    <3> QED
      BY <2>2, <3>1
  <2>4. f \in [D -> T]
    <3>1. ASSUME NEW n \in D PROVE children[n][1] \in T
      <4>1. children[n][1] \in D /\ children[n][1] \in alive
        BY <1>4, <1>6, <1>7, <2>1
      <4>2. q.root \notin alive
        BY <1>1, <1>2, MmioAssumption
      <4> QED
        BY <4>1, <4>2
    <3> QED
      BY <3>1
  <2>5. \A x, y \in D : f[x] = f[y] => x = y
    BY <1>4, <1>6, <2>1
  <2> HIDE DEF T, f, D
  <2> QED
    BY <2>2, <2>3, <2>4, <2>5, FS_PigeonHole
<1> QED
  BY <1>8, <1>9 DEF Place

-----------------------------------------------------------------------------
(* References *)

Holders(h, r) == {c \in Clients : h[c] = r}

Exact(h, rc, al) ==
  \A r \in Slots : IF r \in al THEN rc[r] = Cardinality(Holders(h, r)) ELSE Holders(h, r) = {}

LEMMA RefcountIsExact ==
  /\ RefcountExact <=> Exact(handle, refcount, alive)
  /\ RefcountExact' <=> Exact(handle', refcount', alive')
<1>1. RefcountExact <=> Exact(handle, refcount, alive)
  BY DEF RefcountExact, Exact, Holders
<1>2. RefcountExact' <=> Exact(handle', refcount', alive')
  BY DEF RefcountExact, Exact, Holders
<1> QED
  BY <1>1, <1>2

LEMMA HoldersFinite ==
  ASSUME NEW h, NEW r
  PROVE  IsFiniteSet(Holders(h, r)) /\ Cardinality(Holders(h, r)) \in Nat
<1>1. Holders(h, r) \subseteq Clients
  BY DEF Holders
<1>2. IsFiniteSet(Clients)
  BY MmioAssumption
<1> QED
  BY <1>1, <1>2, FS_Subset, FS_CardinalityType

\* Client c, which held x, holds y from now on; None is nothing.
Passes(h, g, c, x, y) ==
  h[c] = x /\ g[c] = y /\ \A d \in Clients : d # c => g[d] = h[d]

LEMMA HoldersGain ==
  ASSUME NEW h, NEW g, NEW c \in Clients, NEW r \in Slots, Passes(h, g, c, None, r)
  PROVE  /\ Cardinality(Holders(g, r)) = Cardinality(Holders(h, r)) + 1
         /\ \A x \in Slots : x # r => Holders(g, x) = Holders(h, x)
<1>1. r # None /\ \A x \in Slots : x # None
  BY MmioAssumption DEF Nodes
<1>2. Holders(g, r) = Holders(h, r) \cup {c} /\ c \notin Holders(h, r)
  BY <1>1 DEF Holders, Passes
<1>3. \A x \in Slots : x # r => Holders(g, x) = Holders(h, x)
  BY <1>1 DEF Holders, Passes
<1>4. Cardinality(Holders(h, r) \cup {c}) = Cardinality(Holders(h, r)) + 1
  BY <1>2, HoldersFinite, FS_AddElement
<1> QED
  BY <1>2, <1>3, <1>4, Zenon

\* One holder of r less.
Dropped(h, g, r) ==
  /\ Cardinality(Holders(g, r)) = Cardinality(Holders(h, r)) - 1
  /\ Cardinality(Holders(h, r)) < 2 => Holders(g, r) = {}
  /\ \A x \in Slots : x # r => Holders(g, x) = Holders(h, x)

LEMMA HoldersDrop ==
  ASSUME NEW h, NEW g, NEW c \in Clients, NEW r \in Slots, Passes(h, g, c, r, None)
  PROVE  Dropped(h, g, r)
<1>1. r # None /\ \A x \in Slots : x # None
  BY MmioAssumption DEF Nodes
<1>2. Holders(g, r) = Holders(h, r) \ {c} /\ c \in Holders(h, r)
  BY <1>1 DEF Holders, Passes
<1>3. \A x \in Slots : x # r => Holders(g, x) = Holders(h, x)
  BY <1>1 DEF Holders, Passes
<1>4. Cardinality(Holders(h, r) \ {c}) = Cardinality(Holders(h, r)) - 1
  BY <1>2, HoldersFinite, FS_RemoveElement
<1>5. Cardinality(Holders(g, r)) = Cardinality(Holders(h, r)) - 1
  BY <1>2, <1>4, Zenon
<1>6. Cardinality(Holders(g, r)) \in Nat /\ Cardinality(Holders(h, r)) \in Nat
      /\ IsFiniteSet(Holders(g, r))
  BY HoldersFinite
<1>7. Cardinality(Holders(h, r)) < 2 => Holders(g, r) = {}
  <2>1. Cardinality(Holders(h, r)) < 2 => Cardinality(Holders(g, r)) = 0
    BY <1>5, <1>6
  <2> QED
    BY <1>6, <2>1, FS_EmptySet
<1> QED
  BY <1>3, <1>5, <1>7 DEF Dropped

-----------------------------------------------------------------------------
(* The invariant *)

Types ==
  /\ region \in [Nodes -> Request] /\ refcount \in [Nodes -> Int]
  /\ mapped \subseteq Slots
  /\ want \in [Clients -> Requests \cup {None}] /\ handle \in [Clients -> Slots \cup {None}]

Counting == RefcountExact /\ \A c \in Clients : want[c] # None => handle[c] = None

Covers(y, x) == Inside(x, y) /\ y.start % PageSize = 0

\* A region that was nested properly stays so when others are added and when its
\* ancestors are released.
Nested ==
  \A n \in alive \ loose : InTree(n) =>
    \A a \in Ancestry(n) \ {n} : a \notin loose /\ Covers(region[a], region[n])

MmioInv == Types /\ Linked /\ Counting /\ TreeExclusive /\ Nested /\ ActivatedMapped

LEMMA MmioInvInit == Init => MmioInv
<1> SUFFICES ASSUME Init PROVE MmioInv
  OBVIOUS
<1>1. Types
  <2>1. \A n \in Roots : Limit[n] \in Nat
    BY MmioAssumption
  <2>2. Unused \in Request /\ \A n \in Roots : [Unused EXCEPT !.root = n, !.range = Limit[n]] \in Request
    BY <2>1 DEF Unused, Request, Roots
  <2>3. region \in [Nodes -> Request]
    <3>1. ASSUME NEW n \in Nodes
          PROVE  (IF n \in Roots THEN [Unused EXCEPT !.root = n, !.range = Limit[n]] ELSE Unused)
                   \in Request
      BY <2>2
    <3>2. region = [n \in Nodes |-> IF n \in Roots
                                    THEN [Unused EXCEPT !.root = n, !.range = Limit[n]]
                                    ELSE Unused]
      BY DEF Init
    <3> QED
      BY <3>1, <3>2, Zenon
  <2>4. refcount \in [Nodes -> Int] /\ mapped \subseteq Slots
    <3>1. refcount = [n \in Nodes |-> IF n \in Roots THEN 1 ELSE 0] /\ mapped = {}
      BY DEF Init
    <3> QED
      BY <3>1
  <2>5. want \in [Clients -> Requests \cup {None}] /\ handle \in [Clients -> Slots \cup {None}]
    BY DEF Init
  <2> QED
    BY <2>3, <2>4, <2>5 DEF Types
<1>2. Linked
  <2>1. \A n \in Nodes : children[n] = <<>> /\ parent[n] = None
    BY DEF Init
  <2>2. children \in [Nodes -> Seq(Slots)] /\ parent \in [Nodes -> Nodes \cup {None}]
        /\ alive \subseteq Slots
    <3>1. children = [n \in Nodes |-> <<>>] /\ parent = [n \in Nodes |-> None] /\ alive = {}
      BY DEF Init
    <3>2. <<>> \in Seq(Slots)
      OBVIOUS
    <3> QED
      BY <3>1, <3>2, Zenon
  <2>3. \A root \in Roots : region[root].root = root /\ parent[root] = None
    <3>1. \A root \in Roots : region[root] = [Unused EXCEPT !.root = root, !.range = Limit[root]]
      BY DEF Init, Nodes
    <3>2. \A root \in Roots : [Unused EXCEPT !.root = root, !.range = Limit[root]].root = root
      BY DEF Unused
    <3> QED
      BY <2>1, <3>1, <3>2 DEF Nodes
  <2>4. ToSet(<<>>) = {} /\ Distinct(<<>>)
    BY DEF ToSet, Distinct
  <2> QED
    BY <2>1, <2>2, <2>3, <2>4 DEF Linked, WellLinked
<1>3. Counting
  <2>1. \A r \in Slots : r # None
    BY MmioAssumption DEF Nodes
  <2> QED
    BY <2>1 DEF Counting, RefcountExact, Init
<1>4. TreeExclusive
  <2>1. ASSUME NEW root \in Roots, NEW n \in Below(root) PROVE n = root
    <3>1. alive = {}
      BY DEF Init
    <3>2. n \in Tree(children, root)
      BY <2>1, BelowIsTree
    <3>3. n \in alive \cup Roots /\ (n \in Roots => n = root)
      BY <1>2, <3>2, InsideTree DEF Linked
    <3> QED
      BY <3>1, <3>3
  <2> QED
    BY <2>1 DEF TreeExclusive
<1>5. Nested /\ ActivatedMapped
  BY DEF Nested, ActivatedMapped, Init
<1> QED
  BY <1>1, <1>2, <1>3, <1>4, <1>5 DEF MmioInv

\* A step that leaves the trees alone.
SameTree == UNCHANGED <<children, parent, alive, region, loose>>

LEMMA SameTreeKeeps ==
  ASSUME SameTree
  PROVE  /\ Linked => Linked'
         /\ TreeExclusive => TreeExclusive'
         /\ Nested => Nested'
         /\ \A n : InTree(n)' = InTree(n) /\ LoopPages(n)' = LoopPages(n)
         /\ \A n : Ancestry(n)' = Ancestry(n)
<1>1. \A n : Below(n)' = Below(n) /\ Ancestry(n)' = Ancestry(n)
  BY DEF SameTree, Below, Ancestry
<1>2. Linked => Linked'
  BY DEF SameTree, Linked
<1>3. TreeExclusive => TreeExclusive'
  BY <1>1 DEF SameTree, TreeExclusive
<1>4. \A n : InTree(n)' = InTree(n)
  BY <1>1 DEF InTree
<1>5. \A n : LoopPages(n)' = LoopPages(n)
  BY DEF SameTree, LoopPages
<1>6. Nested => Nested'
  BY <1>1, <1>4 DEF SameTree, Nested
<1> QED
  BY <1>1, <1>2, <1>3, <1>4, <1>5, <1>6

-----------------------------------------------------------------------------
(* A resource joins a tree *)

\* s is put on the list of p.
Joined(ch, pa, re, s, p, q, ch2, pa2, re2) ==
  /\ ch2 \in [Nodes -> Seq(Slots)] /\ Distinct(ch2[p]) /\ ch2[s] = <<>>
  /\ ToSet(ch2[p]) \subseteq ToSet(ch[p]) \cup {s}
  /\ \A n \in Nodes : n # p /\ n # s => ch2[n] = ch[n]
  /\ pa2 \in [Nodes -> Nodes \cup {None}] /\ pa2[s] = p
  /\ \A n \in Nodes : n # s => pa2[n] = pa[n]
  /\ re2[s] = q /\ \A n \in Nodes : n # s => re2[n] = re[n]

LEMMA JoinLinked ==
  ASSUME NEW ch, NEW pa, NEW al, NEW re, WellLinked(ch, pa, al, re),
         NEW s \in Slots, s \notin al, NEW p \in al \cup Roots, NEW q, re[p].root = q.root,
         NEW ch2, NEW pa2, NEW re2, Joined(ch, pa, re, s, p, q, ch2, pa2, re2)
  PROVE  WellLinked(ch2, pa2, al \cup {s}, re2)
<1>1. /\ ch \in [Nodes -> Seq(Slots)] /\ pa \in [Nodes -> Nodes \cup {None}] /\ al \subseteq Slots
      /\ \A n \in Nodes : \A m \in ToSet(ch[n]) : m \in al /\ pa[m] = n /\ re[m].root = re[n].root
      /\ \A n \in Nodes \ (al \cup Roots) : ch[n] = <<>>
      /\ \A n \in Nodes : Distinct(ch[n])
      /\ \A root \in Roots : pa[root] = None /\ re[root].root = root
  BY DEF WellLinked
<1>2. s \in Nodes /\ s \notin Roots /\ p \in Nodes /\ p # s
  BY <1>1, MmioAssumption DEF Nodes
<1>3. Distinct(<<>>) /\ ToSet(<<>>) = {}
  BY DEF Distinct, ToSet
<1>4. /\ ch2 \in [Nodes -> Seq(Slots)] /\ Distinct(ch2[p]) /\ ch2[s] = <<>>
      /\ ToSet(ch2[p]) \subseteq ToSet(ch[p]) \cup {s}
      /\ \A n \in Nodes : n # p /\ n # s => ch2[n] = ch[n]
  BY DEF Joined
<1>5. /\ pa2 \in [Nodes -> Nodes \cup {None}] /\ pa2[s] = p
      /\ \A n \in Nodes : n # s => pa2[n] = pa[n]
  BY DEF Joined
<1>6. re2[s] = q /\ \A n \in Nodes : n # s => re2[n] = re[n]
  BY DEF Joined
<1>7. ASSUME NEW n \in Nodes, NEW m \in ToSet(ch2[n])
      PROVE  m \in al \cup {s} /\ pa2[m] = n /\ re2[m].root = re2[n].root
  <2>1. CASE n = p
    <3>1. CASE m = s
      BY <1>2, <1>5, <1>6, <2>1, <3>1
    <3>2. CASE m # s
      <4>1. m \in ToSet(ch[p])
        BY <1>4, <1>7, <2>1, <3>2
      <4>2. m \in al /\ pa[m] = p /\ re[m].root = re[p].root /\ m \in Nodes
        BY <1>1, <1>2, <4>1 DEF Nodes
      <4> QED
        BY <1>2, <1>5, <1>6, <2>1, <3>2, <4>2
    <3> QED
      BY <3>1, <3>2
  <2>2. CASE n = s
    BY <1>3, <1>4, <1>7, <2>2
  <2>3. CASE n # p /\ n # s
    <3>1. m \in ToSet(ch[n])
      BY <1>4, <1>7, <2>3
    <3>2. m \in al /\ pa[m] = n /\ re[m].root = re[n].root /\ m \in Nodes /\ m # s
      BY <1>1, <3>1 DEF Nodes
    <3> QED
      BY <1>5, <1>6, <2>3, <3>2
  <2> QED
    BY <2>1, <2>2, <2>3
<1>8. \A n \in Nodes \ ((al \cup {s}) \cup Roots) : ch2[n] = <<>>
  BY <1>1, <1>2, <1>4
<1>9. \A n \in Nodes : Distinct(ch2[n])
  BY <1>1, <1>3, <1>4
<1>10. \A root \in Roots : pa2[root] = None /\ re2[root].root = root
  BY <1>1, <1>2, <1>5, <1>6 DEF Nodes
<1> QED
  BY <1>1, <1>4, <1>5, <1>7, <1>8, <1>9, <1>10 DEF WellLinked

\* The tree of its root grows by that resource, and nobody else gets another
\* ancestor.
LEMMA JoinReach ==
  ASSUME NEW ch, NEW pa, NEW al, NEW re, WellLinked(ch, pa, al, re),
         NEW s \in Slots, s \notin al, NEW p \in al \cup Roots, NEW q, re[p].root = q.root,
         NEW ch2, NEW pa2, NEW re2, Joined(ch, pa, re, s, p, q, ch2, pa2, re2),
         NEW root \in Roots
  PROVE  /\ \A n \in Tree(ch2, root) : n \in Tree(ch, root) \/ (n = s /\ root = q.root)
         /\ \A n \in Tree(ch, root) : Line(pa2, n) \subseteq Line(pa, n)
         /\ p \in Tree(ch, root) => Line(pa2, s) \subseteq Line(pa, p) \cup {s}
<1>1. /\ ch \in [Nodes -> Seq(Slots)] /\ pa \in [Nodes -> Nodes \cup {None}] /\ al \subseteq Slots
  BY DEF WellLinked
<1>2. s \in Nodes /\ s \notin Roots /\ p \in Nodes /\ p # s /\ root \in Nodes
  BY <1>1, MmioAssumption DEF Nodes
<1>3. ToSet(<<>>) = {}
  BY DEF ToSet
<1>4. /\ ch2 \in [Nodes -> Seq(Slots)] /\ ch2[s] = <<>>
      /\ ToSet(ch2[p]) \subseteq ToSet(ch[p]) \cup {s}
      /\ \A n \in Nodes : n # p /\ n # s => ch2[n] = ch[n]
  BY DEF Joined
<1>5. /\ pa2 \in [Nodes -> Nodes \cup {None}] /\ pa2[s] = p
      /\ \A n \in Nodes : n # s => pa2[n] = pa[n]
  BY DEF Joined
<1>6. /\ root \in Tree(ch, root) /\ Tree(ch, root) \subseteq Nodes
      /\ \A m \in Tree(ch, root) : ToSet(ch[m]) \subseteq Tree(ch, root)
  BY <1>1, <1>2, TreeRules
<1>7. /\ s \notin Tree(ch, root)
      /\ p \in Tree(ch, root) => root = q.root
      /\ \A n \in Tree(ch, root) : Line(pa, n) \subseteq Tree(ch, root)
  BY <1>2, InsideTree
<1>8. \A n \in Tree(ch2, root) : n \in Tree(ch, root) \/ (n = s /\ root = q.root)
  <2> DEFINE S == {n \in Nodes : n \in Tree(ch, root) \/ (n = s /\ root = q.root)}
  <2>1. S \in SUBSET Nodes /\ root \in S
    BY <1>2, <1>6
  <2>2. ASSUME NEW m \in S, NEW k \in ToSet(ch2[m]) PROVE k \in S
    <3>1. CASE m = s
      BY <1>3, <1>4, <2>2, <3>1
    <3>2. CASE m = p
      <4>1. m \in Tree(ch, root) /\ root = q.root
        BY <1>2, <1>7, <3>2
      <4>2. k \in ToSet(ch[p]) \/ k = s
        BY <1>4, <2>2, <3>2
      <4> QED
        BY <1>2, <1>6, <3>2, <4>1, <4>2
    <3>3. CASE m # s /\ m # p
      <4>1. m \in Tree(ch, root) /\ k \in ToSet(ch[m])
        BY <1>4, <2>2, <3>3
      <4> QED
        BY <1>6, <4>1
    <3> QED
      BY <3>1, <3>2, <3>3
  <2>3. Tree(ch2, root) \subseteq S
    <3> HIDE DEF S
    <3> QED
      BY <1>2, <1>4, <2>1, <2>2, TreeRules
  <2> QED
    BY <2>3
<1>9. ASSUME NEW n \in Tree(ch, root) PROVE Line(pa2, n) \subseteq Line(pa, n)
  <2>1. /\ n \in Nodes /\ n \in Line(pa, n) /\ Line(pa, n) \in SUBSET Nodes
        /\ \A m \in Line(pa, n) : pa[m] # None => pa[m] \in Line(pa, n)
    BY <1>1, <1>6, LineRules
  <2>2. \A m \in Line(pa, n) : pa2[m] # None => pa2[m] \in Line(pa, n)
    BY <1>5, <1>7, <2>1
  <2> QED
    BY <1>5, <2>1, <2>2, LineLeast
<1>10. ASSUME p \in Tree(ch, root) PROVE Line(pa2, s) \subseteq Line(pa, p) \cup {s}
  <2>1. /\ p \in Line(pa, p) /\ Line(pa, p) \in SUBSET Nodes
        /\ \A m \in Line(pa, p) : pa[m] # None => pa[m] \in Line(pa, p)
    BY <1>1, <1>2, LineRules
  <2>2. \A m \in Line(pa, p) \cup {s} : pa2[m] # None => pa2[m] \in Line(pa, p) \cup {s}
    BY <1>5, <2>1
  <2> QED
    <3> DEFINE S == Line(pa, p) \cup {s}
    <3>1. S \subseteq Nodes /\ s \in S /\ \A m \in S : pa2[m] # None => pa2[m] \in S
      BY <1>2, <2>1, <2>2
    <3>2. Line(pa2, s) \subseteq S
      <4> HIDE DEF S
      <4> QED
        BY <1>2, <1>5, <3>1, LineLeast
    <3> QED
      BY <3>2
<1> QED
  BY <1>8, <1>9, <1>10

-----------------------------------------------------------------------------
(* A resource leaves its tree *)

\* r is taken off the list of p, and the resources below it come in its place, or
\* on no list.
Left(ch, pa, re, r, p, ch2, pa2, re2) ==
  /\ ch2 \in [Nodes -> Seq(Slots)] /\ Distinct(ch2[p]) /\ ch2[r] = <<>>
  /\ \A m \in ToSet(ch2[p]) : (m \in ToSet(ch[p]) /\ m # r) \/ m \in ToSet(ch[r])
  /\ \A n \in Nodes : n # p /\ n # r => ch2[n] = ch[n]
  /\ pa2 \in [Nodes -> Nodes \cup {None}]
  /\ \A n \in Nodes : pa2[n] = IF n \in ToSet(ch[r]) THEN p ELSE pa[n]
  /\ \A n \in Nodes : n # r => re2[n] = re[n]

LEMMA LeaveLinked ==
  ASSUME NEW ch, NEW pa, NEW al, NEW re, WellLinked(ch, pa, al, re),
         NEW r \in al, NEW p \in al \cup Roots, p # r, r \in ToSet(ch[p]),
         NEW ch2, NEW pa2, NEW re2, Left(ch, pa, re, r, p, ch2, pa2, re2)
  PROVE  WellLinked(ch2, pa2, al \ {r}, re2)
<1>1. /\ ch \in [Nodes -> Seq(Slots)] /\ pa \in [Nodes -> Nodes \cup {None}] /\ al \subseteq Slots
      /\ \A n \in Nodes : \A m \in ToSet(ch[n]) : m \in al /\ pa[m] = n /\ re[m].root = re[n].root
      /\ \A n \in Nodes \ (al \cup Roots) : ch[n] = <<>>
      /\ \A n \in Nodes : Distinct(ch[n])
      /\ \A root \in Roots : pa[root] = None /\ re[root].root = root
  BY DEF WellLinked
<1>2. r \in Nodes /\ r \notin Roots /\ p \in Nodes /\ al \subseteq Nodes /\ al \cap Roots = {}
  BY <1>1, MmioAssumption DEF Nodes
<1>3. Distinct(<<>>) /\ ToSet(<<>>) = {}
  BY DEF Distinct, ToSet
<1>4. /\ ch2 \in [Nodes -> Seq(Slots)] /\ Distinct(ch2[p]) /\ ch2[r] = <<>>
      /\ \A m \in ToSet(ch2[p]) : (m \in ToSet(ch[p]) /\ m # r) \/ m \in ToSet(ch[r])
      /\ \A n \in Nodes : n # p /\ n # r => ch2[n] = ch[n]
  BY DEF Left
<1>5. /\ pa2 \in [Nodes -> Nodes \cup {None}]
      /\ \A n \in Nodes : pa2[n] = IF n \in ToSet(ch[r]) THEN p ELSE pa[n]
  BY DEF Left
<1>6. \A n \in Nodes : n # r => re2[n] = re[n]
  BY DEF Left
<1>7. /\ pa[r] = p /\ re[r].root = re[p].root
      /\ \A m \in ToSet(ch[r]) : m \in al /\ m # r /\ re[m].root = re[p].root
  BY <1>1, <1>2
<1>8. ASSUME NEW n \in Nodes, NEW m \in ToSet(ch2[n])
      PROVE  m \in al \ {r} /\ pa2[m] = n /\ re2[m].root = re2[n].root
  <2>1. CASE n = p
    <3>1. m \in al /\ m # r /\ re[m].root = re[p].root /\ (m \in ToSet(ch[r]) \/ pa[m] = p)
      BY <1>1, <1>2, <1>4, <1>7, <1>8, <2>1
    <3>2. m \in Nodes
      BY <1>2, <3>1
    <3>3. pa2[m] = p
      BY <1>5, <3>1, <3>2
    <3> QED
      BY <1>2, <1>6, <2>1, <3>1, <3>2, <3>3
  <2>2. CASE n = r
    BY <1>3, <1>4, <1>8, <2>2
  <2>3. CASE n # p /\ n # r
    <3>1. m \in al /\ pa[m] = n /\ re[m].root = re[n].root /\ m \in Nodes
      BY <1>1, <1>2, <1>4, <1>8, <2>3
    <3>2. m # r /\ m \notin ToSet(ch[r])
      BY <1>1, <1>2, <1>7, <2>3, <3>1
    <3> QED
      BY <1>5, <1>6, <2>3, <3>1, <3>2
  <2> QED
    BY <2>1, <2>2, <2>3
<1>9. \A n \in Nodes \ ((al \ {r}) \cup Roots) : ch2[n] = <<>>
  BY <1>1, <1>2, <1>4
<1>10. \A n \in Nodes : Distinct(ch2[n])
  BY <1>1, <1>3, <1>4
<1>11. \A root \in Roots : pa2[root] = None /\ re2[root].root = root
  BY <1>1, <1>2, <1>5, <1>6, <1>7 DEF Nodes
<1> QED
  BY <1>1, <1>4, <1>5, <1>8, <1>9, <1>10, <1>11 DEF WellLinked

\* No tree grows, and nobody gets another ancestor.
LEMMA LeaveReach ==
  ASSUME NEW ch, NEW pa, NEW al, NEW re, WellLinked(ch, pa, al, re),
         NEW r \in al, NEW p \in al \cup Roots, p # r, r \in ToSet(ch[p]),
         NEW ch2, NEW pa2, NEW re2, Left(ch, pa, re, r, p, ch2, pa2, re2)
  PROVE  /\ \A root \in Roots : Tree(ch2, root) \subseteq Tree(ch, root)
         /\ \A n \in Nodes : Line(pa2, n) \subseteq Line(pa, n)
<1>1. /\ ch \in [Nodes -> Seq(Slots)] /\ pa \in [Nodes -> Nodes \cup {None}] /\ al \subseteq Slots
      /\ \A n \in Nodes : \A m \in ToSet(ch[n]) : m \in al /\ pa[m] = n
  BY DEF WellLinked
<1>2. r \in Nodes /\ p \in Nodes
  BY <1>1 DEF Nodes
<1>3. ToSet(<<>>) = {}
  BY DEF ToSet
<1>4. /\ ch2 \in [Nodes -> Seq(Slots)] /\ ch2[r] = <<>>
      /\ \A m \in ToSet(ch2[p]) : m \in ToSet(ch[p]) \/ m \in ToSet(ch[r])
      /\ \A n \in Nodes : n # p /\ n # r => ch2[n] = ch[n]
  BY DEF Left
<1>5. /\ pa2 \in [Nodes -> Nodes \cup {None}]
      /\ \A n \in Nodes : pa2[n] = IF n \in ToSet(ch[r]) THEN p ELSE pa[n]
  BY DEF Left
<1>6. ASSUME NEW root \in Roots PROVE Tree(ch2, root) \subseteq Tree(ch, root)
  <2>0. root \in Nodes
    BY DEF Nodes
  <2>1. /\ root \in Tree(ch, root) /\ Tree(ch, root) \in SUBSET Nodes
        /\ \A m \in Tree(ch, root) : ToSet(ch[m]) \subseteq Tree(ch, root)
    BY <1>1, <2>0, TreeRules
  <2>2. ASSUME NEW m \in Tree(ch, root), NEW k \in ToSet(ch2[m]) PROVE k \in Tree(ch, root)
    <3>1. CASE m = r
      BY <1>3, <1>4, <2>2, <3>1
    <3>2. CASE m = p
      BY <1>4, <2>1, <2>2, <3>2
    <3>3. CASE m # r /\ m # p
      BY <1>4, <2>1, <2>2, <3>3
    <3> QED
      BY <3>1, <3>2, <3>3
  <2> QED
    BY <1>4, <2>0, <2>1, <2>2, TreeRules
<1>7. ASSUME NEW n \in Nodes PROVE Line(pa2, n) \subseteq Line(pa, n)
  <2>1. /\ n \in Line(pa, n) /\ Line(pa, n) \subseteq Nodes
        /\ \A m \in Line(pa, n) : pa[m] # None => pa[m] \in Line(pa, n)
    BY <1>1, LineRules
  <2>2. ASSUME NEW m \in Line(pa, n), pa2[m] # None PROVE pa2[m] \in Line(pa, n)
    <3>1. CASE m \in ToSet(ch[r])
      <4>1. pa[m] = r /\ pa[r] = p /\ pa2[m] = p
        BY <1>1, <1>2, <1>5, <2>1, <3>1
      <4>2. r # None /\ p # None
        BY <1>2, MmioAssumption
      <4> QED
        BY <2>1, <4>1, <4>2
    <3>2. CASE m \notin ToSet(ch[r])
      BY <1>5, <2>1, <2>2, <3>2
    <3> QED
      BY <3>1, <3>2
  <2> QED
    BY <1>5, <2>1, <2>2, LineLeast
<1> QED
  BY <1>6, <1>7

-----------------------------------------------------------------------------
(* request_region *)

LEMMA NoCollision ==
  ASSUME NEW n \in Nodes, region[n] \in Request, NEW q \in Request, ~Collides(n, q),
         Overlap(q, region[n]) \/ Overlap(region[n], q)
  PROVE  Inside(q, region[n]) /\ ~region[n].busy
<1>1. PICK x \in Request : x = region[n]
  OBVIOUS
<1>2. /\ ~(q.start < x.start /\ q.range > x.start)
      /\ ~(q.start < x.range /\ q.range > x.range)
      /\ ~(q.start >= x.start /\ q.range <= x.range /\ x.busy)
  BY <1>1 DEF Collides
<1>3. q.start < x.range /\ x.start < q.range
  BY <1>1 DEF Overlap
<1>4. q.start \in Nat /\ q.range \in Nat /\ x.start \in Nat /\ x.range \in Nat
  BY DEF Request
<1>5. q.start >= x.start /\ q.range <= x.range
  BY <1>2, <1>3, <1>4
<1> QED
  BY <1>1, <1>2, <1>5 DEF Inside

LEMMA GrantedStep ==
  ASSUME MmioInv, NEW c \in Clients, NEW s \in Slots, request_granted(c, s)
  PROVE  MmioInv'
<1>1. Types /\ Linked /\ Counting /\ TreeExclusive /\ Nested /\ ActivatedMapped
  BY DEF MmioInv
<1>2. PICK q \in Requests : q = want[c]
  BY <1>1 DEF request_granted, Working, Types
<1>3. PICK p : p = Place(q)
  OBVIOUS
<1>4. /\ ~CheckResource(q) /\ s \notin alive
      /\ region' = [region EXCEPT ![s] = q] /\ parent' = [parent EXCEPT ![s] = p]
      /\ children' = [children EXCEPT ![p] = InsertSorted(children[p], s, q.start), ![s] = <<>>]
      /\ refcount' = [refcount EXCEPT ![s] = 1]
      /\ loose' = IF Firm(q, p) THEN loose \ {s} ELSE loose \cup {s}
      /\ mapped' = mapped \ {s} /\ alive' = alive \cup {s}
      /\ handle' = [handle EXCEPT ![c] = s] /\ want' = [want EXCEPT ![c] = None]
      /\ vmap' = vmap /\ unbacked' = unbacked /\ want[c] # None
  BY <1>2, <1>3 DEF request_granted, Working
<1>5. q \in Request /\ q.root \in Roots /\ s \in Nodes /\ s \notin Roots
  BY MmioAssumption DEF Request, Nodes
<1>6. WellLinked(children, parent, alive, region) /\ region \in [Nodes -> Request]
  BY <1>1 DEF Linked, Types
<1>7. p \in Tree(children, q.root)
  BY <1>1, <1>3, PlaceInTree, BelowIsTree
<1>8. p \in alive \cup Roots /\ region[p].root = q.root
  BY <1>5, <1>6, <1>7, InsideTree
<1>9. /\ children \in [Nodes -> Seq(Slots)] /\ parent \in [Nodes -> Nodes \cup {None}]
      /\ alive \subseteq Slots /\ ToSet(children[p]) \subseteq alive /\ Distinct(children[p])
      /\ p \in Nodes /\ p # s
  <2>1. alive \subseteq Slots
    BY <1>6 DEF WellLinked
  <2>2. p \in Nodes /\ p # s
    BY <1>4, <1>5, <1>8, <2>1 DEF Nodes
  <2> QED
    BY <1>6, <2>1, <2>2 DEF WellLinked
<1>10. PICK list : list = InsertSorted(children[p], s, q.start)
  OBVIOUS
<1>11. list \in Seq(Slots) /\ Distinct(list) /\ ToSet(list) \subseteq ToSet(children[p]) \cup {s}
  BY <1>4, <1>9, <1>10, InsertRules
<1>12. children' = [children EXCEPT ![p] = list, ![s] = <<>>]
  BY <1>4, <1>10
<1>13. /\ children' \in [Nodes -> Seq(Slots)] /\ children'[p] = list /\ children'[s] = <<>>
       /\ \A n \in Nodes : n # p /\ n # s => children'[n] = children[n]
  <2>1. <<>> \in Seq(Slots)
    OBVIOUS
  <2> QED
    BY <1>5, <1>9, <1>11, <1>12, <2>1
<1>14. /\ parent' \in [Nodes -> Nodes \cup {None}] /\ parent'[s] = p
       /\ \A n \in Nodes : n # s => parent'[n] = parent[n]
  BY <1>4, <1>5, <1>9
<1>15. region'[s] = q /\ \A n \in Nodes : n # s => region'[n] = region[n]
  BY <1>4, <1>5, <1>6
<1>16. Joined(children, parent, region, s, p, q, children', parent', region')
  BY <1>11, <1>13, <1>14, <1>15 DEF Joined
<1>17. s \notin alive
  BY <1>4
<1>18. Linked'
  <2>1. WellLinked(children', parent', alive \cup {s}, region')
    BY <1>6, <1>8, <1>16, <1>17, JoinLinked
  <2> QED
    BY <1>4, <2>1 DEF Linked
<1>19. ASSUME NEW root \in Roots
       PROVE  /\ \A n \in Tree(children', root) :
                   n \in Tree(children, root) \/ (n = s /\ root = q.root)
              /\ \A n \in Tree(children, root) : Line(parent', n) \subseteq Line(parent, n)
              /\ p \in Tree(children, root) => Line(parent', s) \subseteq Line(parent, p) \cup {s}
  <2>1. p \in alive \cup Roots /\ region[p].root = q.root
    BY <1>8
  <2>2. WellLinked(children, parent, alive, region)
    BY <1>6
  <2> QED
    BY <1>16, <1>17, <2>1, <2>2, JoinReach
<1>20. ASSUME NEW root \in Roots
       PROVE  /\ Tree(children, root) \subseteq Nodes \ {s}
              /\ \A n \in Tree(children, root) : Line(parent, n) \subseteq Tree(children, root)
  <2>1. \A n \in Tree(children, root) : /\ n \in alive \cup Roots
                                        /\ Line(parent, n) \subseteq Tree(children, root)
    BY <1>6, InsideTree
  <2> QED
    BY <1>4, <1>5, <1>9, <2>1 DEF Nodes
<1>21. \A n : /\ Below(n) = Tree(children, n) /\ Below(n)' = Tree(children', n)
              /\ Ancestry(n) = Line(parent, n) /\ Ancestry(n)' = Line(parent', n)
  BY DEF Below, Ancestry, Tree, Line
<1>22. Types'
  <2>1. region' \in [Nodes -> Request] /\ refcount' \in [Nodes -> Int] /\ mapped' \subseteq Slots
    BY <1>1, <1>4, <1>5 DEF Types
  <2>2. want' \in [Clients -> Requests \cup {None}] /\ handle' \in [Clients -> Slots \cup {None}]
    BY <1>1, <1>4 DEF Types
  <2> QED
    BY <2>1, <2>2 DEF Types
<1>23. Counting'
  <2>1. handle[c] = None /\ handle \in [Clients -> Slots \cup {None}]
    BY <1>1, <1>4 DEF Counting, Types
  <2>2. /\ Cardinality(Holders(handle', s)) = Cardinality(Holders(handle, s)) + 1
        /\ \A x \in Slots : x # s => Holders(handle', x) = Holders(handle, x)
    <3>1. Passes(handle, handle', c, None, s)
      BY <1>4, <2>1 DEF Passes
    <3> QED
      BY <3>1, HoldersGain
  <2>3. Exact(handle, refcount, alive)
    BY <1>1, RefcountIsExact DEF Counting
  <2>4. Cardinality(Holders(handle', s)) = 1
    <3>1. Holders(handle, s) = {}
      BY <1>4, <2>3 DEF Exact
    <3>2. Cardinality(Holders(handle, s)) = 0
      BY <3>1, FS_EmptySet, Zenon
    <3> QED
      BY <2>2, <3>2
  <2>5. refcount'[s] = 1 /\ \A x \in Slots : x # s => refcount'[x] = refcount[x]
    BY <1>1, <1>4, <1>5 DEF Types, Nodes
  <2>6. Exact(handle', refcount', alive')
    BY <1>4, <2>2, <2>3, <2>4, <2>5 DEF Exact
  <2>7. \A d \in Clients : want'[d] # None => handle'[d] = None
    BY <1>1, <1>4 DEF Counting, Types
  <2> QED
    BY <2>6, <2>7, RefcountIsExact DEF Counting
<1>24. TreeExclusive'
  <2> SUFFICES ASSUME NEW root \in Roots, NEW m \in Tree(children', root),
                      NEW n \in Tree(children', root), m # n, Overlap(region'[m], region'[n])
               PROVE  \/ Inside(region'[m], region'[n]) /\ ~region'[n].busy
                      \/ Inside(region'[n], region'[m]) /\ ~region'[m].busy
    BY <1>21 DEF TreeExclusive
  <2>1. ASSUME NEW x \in Tree(children, root), root = q.root,
               Overlap(q, region[x]) \/ Overlap(region[x], q)
        PROVE  Inside(q, region[x]) /\ ~region[x].busy
    <3>1. ~Collides(x, q)
      BY <1>4, <1>21, <2>1 DEF CheckResource
    <3>2. x \in Nodes /\ region[x] \in Request
      BY <1>6, <1>20
    <3> QED
      BY <1>5, <2>1, <3>1, <3>2, NoCollision
  <2>2. CASE m # s /\ n # s
    <3>1. m \in Tree(children, root) /\ n \in Tree(children, root)
      BY <1>19, <2>2
    <3>2. region'[m] = region[m] /\ region'[n] = region[n]
      BY <1>15, <1>20, <2>2, <3>1
    <3> QED
      BY <1>1, <1>21, <3>1, <3>2 DEF TreeExclusive
  <2>3. CASE m = s
    <3>1. n \in Tree(children, root) /\ root = q.root
      BY <1>19, <1>20, <2>3
    <3>2. region'[m] = q /\ region'[n] = region[n]
      BY <1>15, <1>20, <2>3, <3>1
    <3> QED
      BY <2>1, <3>1, <3>2
  <2>4. CASE n = s
    <3>1. m \in Tree(children, root) /\ root = q.root
      BY <1>19, <1>20, <2>4
    <3>2. region'[n] = q /\ region'[m] = region[m]
      BY <1>15, <1>20, <2>4, <3>1
    <3> QED
      BY <2>1, <3>1, <3>2
  <2> QED
    BY <2>2, <2>3, <2>4
<1>25. Nested'
  <2> SUFFICES ASSUME NEW n \in alive' \ loose', NEW root \in Roots, n \in Tree(children', root),
                      NEW a \in Line(parent', n) \ {n}
               PROVE  a \notin loose' /\ Covers(region'[a], region'[n])
    BY <1>21 DEF Nested, InTree, Covers, Inside
  <2>1. CASE n # s
    <3>1. n \in alive /\ n \notin loose /\ n \in Tree(children, root)
      BY <1>4, <1>19, <2>1
    <3>2. a \in Line(parent, n) \ {n} /\ a \in Tree(children, root)
      BY <1>19, <1>20, <3>1
    <3>3. a \notin loose /\ Covers(region[a], region[n])
      BY <1>1, <1>21, <3>1, <3>2 DEF Nested, InTree
    <3>4. a # s /\ region'[a] = region[a] /\ region'[n] = region[n]
      BY <1>15, <1>20, <2>1, <3>1, <3>2
    <3> QED
      BY <1>4, <3>3, <3>4
  <2>2. CASE n = s
    <3>1. Firm(q, p)
      BY <1>4, <2>2
    <3>2. a \in Line(parent, p) /\ a \in Tree(children, q.root)
      BY <1>5, <1>7, <1>19, <1>20, <2>2
    <3>3. a \notin loose /\ Inside(q, region[a]) /\ region[a].start % PageSize = 0
      BY <1>21, <3>1, <3>2 DEF Firm
    <3>4. a # s /\ region'[a] = region[a] /\ region'[n] = q
      BY <1>5, <1>15, <1>20, <2>2, <3>2
    <3> QED
      BY <1>4, <3>3, <3>4 DEF Covers
  <2> QED
    BY <2>1, <2>2
<1>26. ActivatedMapped'
  <2> SUFFICES ASSUME NEW n \in (mapped' \cap alive') \ loose', NEW root \in Roots,
                      n \in Tree(children', root)
               PROVE  LoopPages(n)' \subseteq vmap' \cup unbacked'
    BY <1>21 DEF ActivatedMapped, InTree
  <2>1. n # s /\ n \in (mapped \cap alive) \ loose /\ n \in Tree(children, root)
    BY <1>4, <1>19
  <2>2. region'[n] = region[n]
    BY <1>15, <1>20, <2>1
  <2>3. LoopPages(n)' = LoopPages(n)
    BY <2>2 DEF LoopPages
  <2>4. LoopPages(n) \subseteq vmap \cup unbacked
    BY <1>1, <1>21, <2>1 DEF ActivatedMapped, InTree
  <2> QED
    BY <1>4, <2>3, <2>4
<1> QED
  BY <1>18, <1>22, <1>23, <1>24, <1>25, <1>26 DEF MmioInv

LEMMA SharedStep ==
  ASSUME MmioInv, NEW c \in Clients, NEW q \in Requests, request_shared(c, q)
  PROVE  MmioInv'
<1>1. Types /\ Linked /\ Counting /\ TreeExclusive /\ Nested /\ ActivatedMapped
  BY DEF MmioInv
<1>2. PICK r : r = FindShared(q)
  OBVIOUS
<1>3. /\ handle[c] = None /\ want[c] = None /\ r # None
      /\ refcount' = [refcount EXCEPT ![r] = refcount[r] + 1]
      /\ handle' = [handle EXCEPT ![c] = r]
      /\ UNCHANGED <<region, mapped, parent, children, alive, vmap, unbacked, want, loose>>
  BY <1>2 DEF request_shared
<1>4. r \in alive /\ r \in Slots /\ r \in Nodes
  BY <1>1, <1>2, <1>3, FindSharedChild DEF Linked, WellLinked, Nodes
<1>5. SameTree
  BY <1>3 DEF SameTree
<1>6. Types'
  BY <1>1, <1>3, <1>4 DEF Types
<1>7. Counting'
  <2>1. Passes(handle, handle', c, None, r)
    BY <1>1, <1>3 DEF Passes, Types
  <2>2. /\ Cardinality(Holders(handle', r)) = Cardinality(Holders(handle, r)) + 1
        /\ \A x \in Slots : x # r => Holders(handle', x) = Holders(handle, x)
    BY <1>4, <2>1, HoldersGain
  <2>3. Exact(handle, refcount, alive)
    BY <1>1, RefcountIsExact DEF Counting
  <2>4. refcount'[r] = refcount[r] + 1 /\ \A x \in Slots : x # r => refcount'[x] = refcount[x]
    BY <1>1, <1>3, <1>4 DEF Types, Nodes
  <2>5. Exact(handle', refcount', alive')
    BY <1>3, <1>4, <2>2, <2>3, <2>4 DEF Exact
  <2>6. \A d \in Clients : want'[d] # None => handle'[d] = None
    BY <1>1, <1>3 DEF Counting, Types
  <2> QED
    BY <2>5, <2>6, RefcountIsExact DEF Counting
<1>8. ActivatedMapped'
  BY <1>1, <1>3, <1>5, SameTreeKeeps DEF ActivatedMapped
<1> QED
  BY <1>1, <1>5, <1>6, <1>7, <1>8, SameTreeKeeps DEF MmioInv

\* The steps of request_region that give out nothing, and release_lost.
LEMMA IdleStep ==
  ASSUME MmioInv, NEW c \in Clients, UNCHANGED tree, UNCHANGED handle,
         \/ UNCHANGED want
         \/ want' = [want EXCEPT ![c] = None]
         \/ handle[c] = None /\ \E q \in Requests : want' = [want EXCEPT ![c] = q]
  PROVE  MmioInv'
<1>1. Types /\ Linked /\ Counting /\ TreeExclusive /\ Nested /\ ActivatedMapped
  BY DEF MmioInv
<1>2. UNCHANGED <<region, mapped, refcount, parent, children, alive, vmap, unbacked, loose>>
  BY DEF tree
<1>3. SameTree
  BY <1>2 DEF SameTree
<1>4. want' \in [Clients -> Requests \cup {None}]
  BY <1>1 DEF Types
<1>5. Types'
  BY <1>1, <1>2, <1>4 DEF Types
<1>6. \A d \in Clients : want'[d] # None => handle'[d] = None
  BY <1>1 DEF Counting, Types
<1>7. RefcountExact'
  BY <1>1, <1>2, RefcountIsExact DEF Counting
<1>8. ActivatedMapped'
  BY <1>1, <1>2, <1>3, SameTreeKeeps DEF ActivatedMapped
<1> QED
  BY <1>1, <1>3, <1>5, <1>6, <1>7, <1>8, SameTreeKeeps DEF MmioInv, Counting

-----------------------------------------------------------------------------
(* release_region *)

\* A handle is a resource in use.
LEMMA HeldAlive ==
  ASSUME MmioInv, NEW c \in Clients, handle[c] # None
  PROVE  /\ handle[c] \in alive /\ handle[c] \in Slots /\ handle[c] \in Nodes
         /\ refcount[handle[c]] = Cardinality(Holders(handle, handle[c]))
<1>1. handle[c] \in Slots /\ Exact(handle, refcount, alive)
  BY RefcountIsExact DEF MmioInv, Types, Counting
<1>2. c \in Holders(handle, handle[c])
  BY DEF Holders
<1> QED
  BY <1>1, <1>2 DEF Exact, Nodes

LEMMA ReleaseSharedStep ==
  ASSUME MmioInv, NEW c \in Clients, release_shared(c)
  PROVE  MmioInv'
<1>1. Types /\ Linked /\ Counting /\ TreeExclusive /\ Nested /\ ActivatedMapped
  BY DEF MmioInv
<1>2. PICK r : r = handle[c]
  OBVIOUS
<1>3. /\ r # None
      /\ refcount' = [refcount EXCEPT ![r] = refcount[r] - 1]
      /\ handle' = [handle EXCEPT ![c] = None]
      /\ UNCHANGED <<region, mapped, parent, children, alive, vmap, unbacked, want, loose>>
  BY <1>2 DEF release_shared, Holds, LetGo
<1>4. r \in alive /\ r \in Slots /\ r \in Nodes
  BY <1>2, <1>3, HeldAlive
<1>5. SameTree
  BY <1>3 DEF SameTree
<1>6. Types'
  BY <1>1, <1>3, <1>4 DEF Types
<1>7. Counting'
  <2>1. Passes(handle, handle', c, r, None)
    BY <1>1, <1>2, <1>3 DEF Passes, Types
  <2>2. Dropped(handle, handle', r)
    <3>1. r \in Slots
      BY <1>4
    <3> QED
      BY <2>1, <3>1, HoldersDrop
  <2>3. Exact(handle, refcount, alive)
    BY <1>1, RefcountIsExact DEF Counting
  <2>4. refcount'[r] = refcount[r] - 1 /\ \A x \in Slots : x # r => refcount'[x] = refcount[x]
    BY <1>1, <1>3, <1>4 DEF Types, Nodes
  <2>5. Exact(handle', refcount', alive')
    BY <1>3, <1>4, <2>2, <2>3, <2>4 DEF Exact, Dropped
  <2>6. \A d \in Clients : want'[d] # None => handle'[d] = None
    BY <1>1, <1>3 DEF Counting, Types
  <2> QED
    BY <2>5, <2>6, RefcountIsExact DEF Counting
<1>8. ActivatedMapped'
  BY <1>1, <1>3, <1>5, SameTreeKeeps DEF ActivatedMapped
<1> QED
  BY <1>1, <1>5, <1>6, <1>7, <1>8, SameTreeKeeps DEF MmioInv

LEMMA ReleaseLastStep ==
  ASSUME MmioInv, NEW c \in Clients, release_last(c)
  PROVE  MmioInv'
<1>1. Types /\ Linked /\ Counting /\ TreeExclusive /\ Nested /\ ActivatedMapped
  BY DEF MmioInv
<1>2. PICK r : r = handle[c]
  OBVIOUS
<1>3. PICK p : p = parent[r]
  OBVIOUS
<1>4. PICK i : i = CHOOSE j \in 1 .. Len(children[p]) : children[p][j] = r
  OBVIOUS
<1>5. PICK mid : mid = IF Len(children[r]) > 1 THEN children[r] ELSE <<>>
  OBVIOUS
<1>6. /\ r # None /\ Listed(r) /\ refcount[r] < 2
      /\ parent' = [n \in Nodes |-> IF n \in ToSet(children[r]) THEN p ELSE parent[n]]
      /\ children' = [children EXCEPT ![p] = Splice(children[p], i, mid, i + 1), ![r] = <<>>]
      /\ refcount' = [refcount EXCEPT ![r] = 0]
      /\ alive' = alive \ {r} /\ loose' = loose \ {r}
      /\ region' = [region EXCEPT ![r] = Unused]
      /\ handle' = [handle EXCEPT ![c] = None]
      /\ UNCHANGED <<mapped, vmap, unbacked, want>>
  BY <1>2, <1>3, <1>4, <1>5 DEF release_last, Holds, LetGo, ReleaseResource, Splice
<1>7. r \in alive /\ r \in Slots /\ r \in Nodes /\ refcount[r] = Cardinality(Holders(handle, r))
  BY <1>2, <1>6, HeldAlive
<1>8. WellLinked(children, parent, alive, region) /\ region \in [Nodes -> Request]
  BY <1>1 DEF Linked, Types
<1>9. p \in alive \cup Roots /\ p # r /\ r \in ToSet(children[p])
  <2>1. PICK m \in Nodes \ {r} : r \in ToSet(children[m])
    BY <1>6 DEF Listed
  <2>2. parent[r] = m
    BY <1>8, <2>1 DEF WellLinked
  <2>3. m \in alive \cup Roots
    <3>1. ToSet(<<>>) = {}
      BY DEF ToSet
    <3> QED
      BY <1>8, <2>1, <3>1 DEF WellLinked
  <2> QED
    BY <1>3, <2>1, <2>2, <2>3
<1>10. /\ children \in [Nodes -> Seq(Slots)] /\ parent \in [Nodes -> Nodes \cup {None}]
       /\ alive \subseteq Slots /\ p \in Nodes
       /\ Distinct(children[p]) /\ Distinct(children[r])
       /\ \A m \in ToSet(children[r]) : parent[m] = r
       /\ \A m \in ToSet(children[p]) : parent[m] = p
  <2>1. alive \subseteq Slots
    BY <1>8 DEF WellLinked
  <2>2. p \in Nodes
    BY <1>9, <2>1 DEF Nodes
  <2> QED
    BY <1>7, <1>8, <2>1, <2>2 DEF WellLinked
<1>11. PICK old \in Seq(Slots) : old = children[p]
  BY <1>10
<1>12. i \in 1 .. Len(old) /\ old[i] = r
  <2>1. \E j \in 1 .. Len(old) : old[j] = r
    BY <1>9, <1>11 DEF ToSet
  <2> QED
    BY <1>4, <1>11, <2>1
<1>13. mid \in Seq(Slots) /\ Distinct(mid) /\ ToSet(mid) \subseteq ToSet(children[r])
  <2>1. CASE Len(children[r]) > 1
    BY <1>5, <1>7, <1>10, <2>1
  <2>2. CASE ~(Len(children[r]) > 1)
    <3>1. mid = <<>>
      BY <1>5, <2>2
    <3>2. ToSet(<<>>) = {} /\ Distinct(<<>>) /\ <<>> \in Seq(Slots)
      BY DEF ToSet, Distinct
    <3> QED
      BY <3>1, <3>2
  <2> QED
    BY <2>1, <2>2
<1>14. PICK list : list = Splice(old, i, mid, i + 1)
  OBVIOUS
<1>15. /\ list \in Seq(Slots) /\ Distinct(list)
       /\ \A m \in ToSet(list) : (m \in ToSet(old) /\ m # r) \/ m \in ToSet(children[r])
  <2>1. ToSet(mid) \cap ToSet(old) = {}
    BY <1>9, <1>10, <1>11, <1>13
  <2>2. Len(old) \in Nat /\ i \in 1 .. Len(old) + 1 /\ i + 1 \in i .. Len(old) + 1
    BY <1>12
  <2>3. Distinct(old)
    BY <1>10, <1>11
  <2>4. /\ list \in Seq(Slots) /\ Distinct(list)
        /\ \A x \in ToSet(list) :
             \/ x \in ToSet(mid)
             \/ \E k \in 1 .. Len(old) : (k < i \/ k >= i + 1) /\ x = old[k]
    BY <1>13, <1>14, <2>1, <2>2, <2>3, SpliceRules
  <2>5. ASSUME NEW k \in 1 .. Len(old), k < i \/ k >= i + 1
        PROVE  old[k] \in ToSet(old) /\ old[k] # r
    <3>1. old[k] \in ToSet(old)
      BY DEF ToSet
    <3>2. k # i
      BY <1>12, <2>5
    <3> QED
      BY <1>12, <2>3, <3>1, <3>2 DEF Distinct
  <2> QED
    BY <1>13, <2>4, <2>5
<1>16. Left(children, parent, region, r, p, children', parent', region')
  <2>1. children' = [children EXCEPT ![p] = list, ![r] = <<>>]
    BY <1>6, <1>11, <1>14
  <2>2. /\ children' \in [Nodes -> Seq(Slots)] /\ children'[p] = list /\ children'[r] = <<>>
        /\ \A n \in Nodes : n # p /\ n # r => children'[n] = children[n]
    <3>1. <<>> \in Seq(Slots)
      OBVIOUS
    <3> QED
      BY <1>7, <1>9, <1>10, <1>15, <2>1, <3>1
  <2>3. /\ parent' \in [Nodes -> Nodes \cup {None}]
        /\ \A n \in Nodes : parent'[n] = IF n \in ToSet(children[r]) THEN p ELSE parent[n]
    BY <1>6, <1>10
  <2>4. \A n \in Nodes : n # r => region'[n] = region[n]
    BY <1>6, <1>8
  <2>5. /\ Distinct(children'[p])
        /\ \A m \in ToSet(children'[p]) : (m \in ToSet(children[p]) /\ m # r) \/ m \in ToSet(children[r])
    BY <1>11, <1>15, <2>2
  <2> QED
    BY <2>2, <2>3, <2>4, <2>5 DEF Left
<1>17. Linked'
  <2>1. WellLinked(children', parent', alive \ {r}, region')
    BY <1>7, <1>8, <1>9, <1>16, LeaveLinked
  <2> QED
    BY <1>6, <2>1 DEF Linked
<1>18. /\ \A root \in Roots : Tree(children', root) \subseteq Tree(children, root)
       /\ \A n \in Nodes : Line(parent', n) \subseteq Line(parent, n)
  BY <1>7, <1>8, <1>9, <1>16, LeaveReach
<1>19. ASSUME NEW root \in Roots, NEW n \in Tree(children', root)
       PROVE  /\ n \in Nodes /\ n # r /\ region'[n] = region[n]
              /\ Line(parent', n) \subseteq Tree(children', root)
  <2>1. /\ n \in alive' \cup Roots
        /\ Line(parent', n) \subseteq Tree(children', root)
    <3>1. WellLinked(children', parent', alive', region')
      BY <1>17 DEF Linked
    <3> QED
      BY <3>1, InsideTree
  <2>2. n # r /\ n \in Nodes
    BY <1>6, <1>7, <1>10, <2>1, MmioAssumption DEF Nodes
  <2>3. region'[n] = region[n]
    BY <1>16, <2>2 DEF Left
  <2> QED
    BY <2>1, <2>2, <2>3
<1>20. \A n : /\ Below(n) = Tree(children, n) /\ Below(n)' = Tree(children', n)
              /\ Ancestry(n) = Line(parent, n) /\ Ancestry(n)' = Line(parent', n)
  BY DEF Below, Ancestry, Tree, Line
<1>21. Types'
  <2>1. Unused \in Request
    BY DEF Unused, Request, Roots
  <2>2. region' \in [Nodes -> Request] /\ refcount' \in [Nodes -> Int] /\ mapped' \subseteq Slots
    BY <1>1, <1>6, <1>7, <2>1 DEF Types
  <2>3. want' \in [Clients -> Requests \cup {None}] /\ handle' \in [Clients -> Slots \cup {None}]
    BY <1>1, <1>6 DEF Types
  <2> QED
    BY <2>2, <2>3 DEF Types
<1>22. Counting'
  <2>1. Passes(handle, handle', c, r, None)
    BY <1>1, <1>2, <1>6 DEF Passes, Types
  <2>2. Dropped(handle, handle', r)
    <3>1. r \in Slots
      BY <1>7
    <3> QED
      BY <2>1, <3>1, HoldersDrop
  <2>3. Exact(handle, refcount, alive)
    BY <1>1, RefcountIsExact DEF Counting
  <2>4. \A x \in Slots : x # r => refcount'[x] = refcount[x]
    BY <1>1, <1>6 DEF Types, Nodes
  <2>5. Holders(handle', r) = {}
    BY <1>6, <1>7, <2>2 DEF Dropped
  <2>6. Exact(handle', refcount', alive')
    BY <1>6, <2>2, <2>3, <2>4, <2>5 DEF Exact, Dropped
  <2>7. \A d \in Clients : want'[d] # None => handle'[d] = None
    BY <1>1, <1>6 DEF Counting, Types
  <2> QED
    BY <2>6, <2>7, RefcountIsExact DEF Counting
<1>23. TreeExclusive'
  <2> SUFFICES ASSUME NEW root \in Roots, NEW m \in Tree(children', root),
                      NEW n \in Tree(children', root), m # n, Overlap(region'[m], region'[n])
               PROVE  \/ Inside(region'[m], region'[n]) /\ ~region'[n].busy
                      \/ Inside(region'[n], region'[m]) /\ ~region'[m].busy
    BY <1>20 DEF TreeExclusive
  <2>1. region'[m] = region[m] /\ region'[n] = region[n]
    BY <1>19
  <2>2. m \in Tree(children, root) /\ n \in Tree(children, root)
    BY <1>18
  <2> QED
    BY <1>1, <1>20, <2>1, <2>2 DEF TreeExclusive
<1>24. Nested'
  <2> SUFFICES ASSUME NEW n \in alive' \ loose', NEW root \in Roots, n \in Tree(children', root),
                      NEW a \in Line(parent', n) \ {n}
               PROVE  a \notin loose' /\ Covers(region'[a], region'[n])
    BY <1>20 DEF Nested, InTree, Covers, Inside
  <2>1. n \in Nodes /\ n # r /\ region'[n] = region[n] /\ region'[a] = region[a]
    BY <1>19
  <2>2. n \in alive /\ n \notin loose /\ n \in Tree(children, root) /\ a \in Line(parent, n) \ {n}
    BY <1>6, <1>18, <2>1
  <2>3. a \notin loose /\ Covers(region[a], region[n])
    BY <1>1, <1>20, <2>2 DEF Nested, InTree
  <2> QED
    BY <1>6, <2>1, <2>3
<1>25. ActivatedMapped'
  <2> SUFFICES ASSUME NEW n \in (mapped' \cap alive') \ loose', NEW root \in Roots,
                      n \in Tree(children', root)
               PROVE  LoopPages(n)' \subseteq vmap' \cup unbacked'
    BY <1>20 DEF ActivatedMapped, InTree
  <2>1. n # r /\ region'[n] = region[n] /\ n \in Tree(children, root)
    BY <1>18, <1>19
  <2>2. LoopPages(n)' = LoopPages(n)
    BY <2>1 DEF LoopPages
  <2>3. n \in (mapped \cap alive) \ loose
    BY <1>6, <2>1
  <2>4. LoopPages(n) \subseteq vmap \cup unbacked
    BY <1>1, <1>20, <2>1, <2>3 DEF ActivatedMapped, InTree
  <2> QED
    BY <1>6, <2>2, <2>4
<1> QED
  BY <1>17, <1>21, <1>22, <1>23, <1>24, <1>25 DEF MmioInv

-----------------------------------------------------------------------------
(* activate_region *)

\* The pages of numbers, for a page size P.
LEMMA Division ==
  ASSUME NEW P \in Nat \ {0}, NEW a \in Nat
  PROVE  a \div P \in Nat /\ a % P \in 0 .. P - 1 /\ a = P * (a \div P) + (a % P)
<1>1. a \div P \in Int /\ a % P \in 0 .. P - 1
  OBVIOUS
<1>2. a = P * (a \div P) + (a % P)
  OBVIOUS
<1>3. a \div P >= 0
  BY SMTT(20)
<1> QED
  BY <1>1, <1>2, <1>3

LEMMA DivisionOfMultiple ==
  ASSUME NEW P \in Nat \ {0}, NEW k \in Nat
  PROVE  (P * k) % P = 0 /\ (P * k) \div P = k
<1>1. (P * k) % P = 0
  BY SMTT(20)
<1>2. (P * k) \div P = k
  BY SMTT(20)
<1> QED
  BY <1>1, <1>2

LEMMA MultipleBelow ==
  ASSUME NEW P \in Nat \ {0}, NEW m \in Int, NEW d \in Int, NEW r \in 0 .. P - 1,
         P * m <= P * d + r
  PROVE  m <= d
<1>1. ASSUME m >= d + 1 PROVE FALSE
  <2>1. P * (m - d - 1) >= 0
    BY <1>1
  <2>2. P * (m - d - 1) = P * m - P * d - P
    OBVIOUS
  <2> QED
    BY <2>1, <2>2
<1> QED
  BY <1>1

\* The page of an address b is reached in steps of a page from the start s of a
\* page, at an address not above b.
LEMMA PageReached ==
  ASSUME NEW P \in Nat \ {0}, NEW s \in Nat, s % P = 0, NEW b \in Nat, s <= b
  PROVE  \E e \in Nat : s <= e /\ e <= b /\ (e - s) % P = 0 /\ e \div P = b \div P
<1> DEFINE k == b \div P
           m == s \div P
<1>1. k \in Nat /\ b % P \in 0 .. P - 1 /\ b = P * k + (b % P)
  BY Division
<1>2. m \in Nat /\ s = P * m
  <2>1. m \in Nat /\ s = P * m + (s % P)
    BY Division
  <2>2. P * m \in Int
    BY <2>1
  <2> QED
    BY <2>1, <2>2
<1> HIDE DEF k, m
<1>3. m <= k
  BY <1>1, <1>2, MultipleBelow
<1>4. PICK d \in Nat : d = k - m
  BY <1>1, <1>2, <1>3
<1>5. P * k \in Nat /\ P * k = P * m + P * d /\ P * d \in Nat
  <2>1. P * k \in Nat /\ P * d \in Nat /\ P * m \in Nat
    BY <1>1, <1>2
  <2>2. P * k = P * m + P * d
    BY <1>1, <1>2, <1>4
  <2> QED
    BY <2>1, <2>2
<1>6. (P * d) % P = 0 /\ (P * k) \div P = k
  BY <1>1, DivisionOfMultiple
<1>7. PICK e \in Nat : e = P * k
  BY <1>5
<1>8. s <= e /\ e <= b /\ e - s = P * d
  <2>1. PICK f \in Nat : f = P * d
    BY <1>5
  <2> QED
    BY <1>1, <1>2, <1>5, <1>7, <2>1
<1>9. e \div P = b \div P /\ (e - s) % P = 0
  BY <1>6, <1>7, <1>8 DEF k
<1> QED
  BY <1>8, <1>9

\* The loop over an outer region that starts with a page maps all that the loop
\* over the inner one would.
LEMMA CoverPages ==
  ASSUME NEW a \in Nodes, NEW r \in Nodes, region[a] \in Request, region[r] \in Request,
         Covers(region[a], region[r])
  PROVE  LoopPages(r) \subseteq LoopPages(a)
<1>1. PICK x \in Request : x = region[r]
  OBVIOUS
<1>2. PICK y \in Request : y = region[a]
  OBVIOUS
<1>3. x.start >= y.start /\ x.range <= y.range /\ y.start % PageSize = 0
  BY <1>1, <1>2 DEF Covers, Inside
<1>4. x.start \in Nat /\ x.range \in Nat /\ y.start \in Nat /\ y.range \in Nat
  BY DEF Request
<1>5. PageSize \in Nat \ {0}
  BY MmioAssumption
<1> SUFFICES ASSUME NEW g \in LoopPages(r) PROVE g \in LoopPages(a)
  OBVIOUS
<1>6. PICK b \in x.start .. x.range - 1 : g = b \div PageSize
  BY <1>1 DEF LoopPages
<1>7. b \in Nat /\ y.start <= b /\ b <= y.range - 1
  BY <1>3, <1>4
<1>8. PICK e \in Nat : y.start <= e /\ e <= b /\ (e - y.start) % PageSize = 0
                       /\ e \div PageSize = b \div PageSize
  BY <1>3, <1>4, <1>5, <1>7, PageReached
<1>9. e \in y.start .. y.range - 1
  BY <1>4, <1>7, <1>8
<1> QED
  BY <1>2, <1>6, <1>8, <1>9 DEF LoopPages

LEMMA ActivateStep ==
  ASSUME MmioInv, NEW c \in Clients, activate_region(c)
  PROVE  MmioInv'
<1>1. Types /\ Linked /\ Counting /\ TreeExclusive /\ Nested /\ ActivatedMapped
  BY DEF MmioInv
<1>2. PICK r : r = handle[c]
  OBVIOUS
<1>3. /\ r # None
      /\ UNCHANGED <<region, refcount, parent, children, alive, want, handle, loose>>
      /\ \/ UNCHANGED <<mapped, vmap, unbacked>>
         \/ /\ vmap \subseteq vmap' /\ unbacked' = (unbacked \cup NewPages(r)) \ vmap'
            /\ mapped' = mapped \cup {r}
  BY <1>2 DEF activate_region, Holds
<1>4. r \in alive /\ r \in Slots /\ r \in Nodes
  BY <1>2, <1>3, HeldAlive
<1>5. SameTree
  BY <1>3 DEF SameTree
<1>6. Types'
  BY <1>1, <1>3, <1>4 DEF Types
<1>7. Counting'
  <2>1. RefcountExact'
    BY <1>1, <1>3, RefcountIsExact DEF Counting
  <2> QED
    BY <1>1, <1>3, <2>1 DEF Counting
<1>8. ASSUME NEW n \in mapped, n \in alive, n \notin loose, InTree(n)
      PROVE  LoopPages(n) \subseteq vmap \cup unbacked
  BY <1>1, <1>8 DEF ActivatedMapped
<1>9. ASSUME r \notin loose, InTree(r) PROVE LoopPages(r) \subseteq vmap \cup unbacked \cup NewPages(r)
  <2>1. CASE Ancestry(r) \cap mapped = {}
    BY <2>1 DEF NewPages
  <2>2. CASE r \in mapped
    BY <1>4, <1>8, <1>9, <2>2
  <2>3. CASE r \notin mapped /\ Ancestry(r) \cap mapped # {}
    <3>1. PICK a \in Ancestry(r) : a \in mapped
      BY <2>3
    <3>2. a # r /\ a \notin loose /\ Covers(region[a], region[r])
      BY <1>1, <1>4, <1>9, <2>3, <3>1 DEF Nested
    <3>3. PICK root \in Roots : r \in Tree(children, root)
      BY <1>9, BelowIsTree DEF InTree
    <3>4. a \in Tree(children, root)
      <4>1. a \in Line(parent, r)
        BY <3>1, BelowIsTree
      <4> QED
        BY <1>1, <3>3, <4>1, InsideTree DEF Linked
    <3>5. a \in alive /\ a \in Nodes
      <4>1. a \in alive \cup Roots
        BY <1>1, <3>4, InsideTree DEF Linked
      <4>2. a \in Slots
        BY <1>1, <3>1 DEF Types
      <4> QED
        BY <4>1, <4>2, MmioAssumption DEF Nodes
    <3>6. InTree(a)
      BY <3>4, BelowIsTree DEF InTree
    <3>7. LoopPages(a) \subseteq vmap \cup unbacked
      BY <1>8, <3>1, <3>2, <3>5, <3>6
    <3>8. LoopPages(r) \subseteq LoopPages(a)
      BY <1>1, <1>4, <3>2, <3>5, CoverPages DEF Types
    <3> QED
      BY <3>7, <3>8
  <2> QED
    BY <2>1, <2>2, <2>3
<1>10. ActivatedMapped'
  <2> SUFFICES ASSUME NEW n \in (mapped' \cap alive) \ loose, InTree(n)
               PROVE  LoopPages(n) \subseteq vmap' \cup unbacked'
    BY <1>3, <1>5, SameTreeKeeps DEF ActivatedMapped
  <2>1. CASE n \in mapped
    BY <1>3, <1>8, <2>1
  <2>2. CASE n \notin mapped
    BY <1>3, <1>9, <2>2
  <2> QED
    BY <2>1, <2>2
<1> QED
  BY <1>1, <1>5, <1>6, <1>7, <1>10, SameTreeKeeps DEF MmioInv

-----------------------------------------------------------------------------
(* Theorems *)

LEMMA MmioInvNext == MmioInv /\ [Next]_vars => MmioInv'
<1> SUFFICES ASSUME MmioInv, [Next]_vars PROVE MmioInv'
  OBVIOUS
<1>1. CASE UNCHANGED vars
  <2>1. UNCHANGED <<region, mapped, refcount, parent, children, alive, vmap, unbacked, loose, want, handle>>
    BY <1>1 DEF vars
  <2>2. SameTree
    BY <2>1 DEF SameTree
  <2>3. Types' /\ (\A d \in Clients : want'[d] # None => handle'[d] = None)
    BY <2>1 DEF MmioInv, Types, Counting
  <2>4. RefcountExact'
    BY <2>1, RefcountIsExact DEF MmioInv, Counting
  <2>5. ActivatedMapped'
    BY <2>1, <2>2, SameTreeKeeps DEF MmioInv, ActivatedMapped
  <2> QED
    BY <2>2, <2>3, <2>4, <2>5, SameTreeKeeps DEF MmioInv, Counting
<1>2. ASSUME NEW c \in Clients, NEW q \in Requests, request_region(c, q) PROVE MmioInv'
  BY <1>2, IdleStep DEF request_region
<1>3. ASSUME NEW c \in Clients, NEW q \in Requests, request_shared(c, q) PROVE MmioInv'
  BY <1>3, SharedStep
<1>4. ASSUME NEW c \in Clients, request_no_memory(c) PROVE MmioInv'
  BY <1>4, IdleStep DEF request_no_memory, Halt
<1>5. ASSUME NEW c \in Clients, request_refused(c) PROVE MmioInv'
  BY <1>5, IdleStep DEF request_refused
<1>6. ASSUME NEW c \in Clients, request_outside(c) PROVE MmioInv'
  BY <1>6, IdleStep DEF request_outside, Halt
<1>7. ASSUME NEW c \in Clients, NEW s \in Slots, request_granted(c, s) PROVE MmioInv'
  BY <1>7, GrantedStep
<1>8. ASSUME NEW c \in Clients, release_shared(c) PROVE MmioInv'
  BY <1>8, ReleaseSharedStep
<1>9. ASSUME NEW c \in Clients, release_last(c) PROVE MmioInv'
  BY <1>9, ReleaseLastStep
<1>10. ASSUME NEW c \in Clients, release_lost(c) PROVE MmioInv'
  BY <1>10, IdleStep DEF release_lost
<1>11. ASSUME NEW c \in Clients, activate_region(c) PROVE MmioInv'
  BY <1>11, ActivateStep
<1> QED
  BY <1>1, <1>2, <1>3, <1>4, <1>5, <1>6, <1>7, <1>8, <1>9, <1>10, <1>11 DEF Next

\* The inductive invariant of the registry holds throughout: whatever clients
\* request, share, release and activate, in whatever order they take the lock.
THEOREM MmioInvariant == Spec => []MmioInv
<1>1. Init => MmioInv
  BY MmioInvInit
<1>2. MmioInv /\ [Next]_vars => MmioInv'
  BY MmioInvNext
<1> QED
  BY <1>1, <1>2, PTL DEF Spec

\* Two regions of a tree overlap only if one lies inside of the other and the outer
\* one is not busy: the check of request_region looks at every resource of the tree,
\* and it does so in the critical section that inserts the new one (mmio.cc:229-235).
\* Nothing is said of regions that dropped out of the tree (mmio.cc:186): the check
\* does not find them, and grants their ranges again while their drivers hold them.
THEOREM TreesAlwaysExclusive == Spec => []TreeExclusive
<1>1. MmioInv => TreeExclusive
  BY DEF MmioInv
<1> QED
  BY <1>1, MmioInvariant, PTL

\* The trees stay trees of live resources, with each on the list of its parent
\* alone, through _add_nested and _release_resource.
THEOREM TreesAlwaysWellFormed == Spec => []TreeWellFormed
<1>1. MmioInv => TreeWellFormed
  <2> SUFFICES ASSUME MmioInv, NEW root \in Roots, NEW n \in Below(root)
               PROVE  /\ n \in alive \cup Roots
                      /\ \A i, j \in 1 .. Len(children[n]) : i # j => children[n][i] # children[n][j]
                      /\ \A m \in ToSet(children[n]) : parent[m] = n
    BY DEF TreeWellFormed
  <2>1. WellLinked(children, parent, alive, region)
    BY DEF MmioInv, Linked
  <2>2. n \in Tree(children, root)
    BY BelowIsTree
  <2>3. n \in alive \cup Roots
    BY <2>1, <2>2, InsideTree
  <2>4. n \in Nodes
    BY <2>1, <2>3 DEF WellLinked, Nodes
  <2>5. \A i, j \in 1 .. Len(children[n]) : i # j => children[n][i] # children[n][j]
    BY <2>1, <2>4 DEF WellLinked, Distinct
  <2>6. \A m \in ToSet(children[n]) : parent[m] = n
    BY <2>1, <2>4 DEF WellLinked
  <2> QED
    BY <2>3, <2>5, <2>6
<1> QED
  BY <1>1, MmioInvariant, PTL

\* refcount is the number of handles to a region, so that it is deleted by the
\* release of the last one and never before.
THEOREM RefcountAlwaysExact == Spec => []RefcountExact
<1>1. MmioInv => RefcountExact
  BY DEF MmioInv, Counting
<1> QED
  BY <1>1, MmioInvariant, PTL

\* After activate_region every page of a properly nested region in a tree is mapped,
\* or map_fixed failed for it (mmio.cc:277): also when an ancestor's Mapped flag made
\* the call do nothing, and also after the ancestor is gone.
THEOREM ActivatedAlwaysMapped == Spec => []ActivatedMapped
<1>1. MmioInv => ActivatedMapped
  BY DEF MmioInv
<1> QED
  BY <1>1, MmioInvariant, PTL
=============================================================================
