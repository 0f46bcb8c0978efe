---------------------------- MODULE KList_proofs ----------------------------
(***************************************************************************)
(* Proofs about the linked lists, for any heads and any finite set of      *)
(* elements: the links stand for sequences that change as ListSeqs says,   *)
(* they read the same backwards, and a loop that deletes where it is       *)
(* visits every element.                                                   *)
(***************************************************************************)
EXTENDS KList, FiniteSetTheorems, WellFoundedInduction, TLAPS

Memory == Heads \cup Elems

-----------------------------------------------------------------------------
(* Sequences *)

Distinct(s) == \A i, j \in 1 .. Len(s) : s[i] = s[j] => i = j

\* s with e behind its first p elements, and s without its element p.
Insert(s, p, e) ==
  [i \in 1 .. Len(s) + 1 |-> IF i <= p THEN s[i] ELSE IF i = p + 1 THEN e ELSE s[i - 1]]
Drop(s, p) == [i \in 1 .. Len(s) - 1 |-> IF i < p THEN s[i] ELSE s[i + 1]]

LEMMA InsertRules ==
  ASSUME NEW s \in Seq(Elems), NEW p \in 0 .. Len(s), NEW e \in Elems
  PROVE  /\ Insert(s, p, e) \in Seq(Elems) /\ Len(Insert(s, p, e)) = Len(s) + 1
         /\ \A i \in 1 .. Len(s) + 1 :
              Insert(s, p, e)[i] =
                IF i <= p THEN s[i] ELSE IF i = p + 1 THEN e ELSE s[i - 1]
<1>1. Len(s) + 1 \in Nat /\ Len(s) \in Nat /\ p \in Int
  OBVIOUS
<1>2. ASSUME NEW i \in 1 .. Len(s) + 1
      PROVE  (IF i <= p THEN s[i] ELSE IF i = p + 1 THEN e ELSE s[i - 1]) \in Elems
  <2>1. CASE i <= p
    BY <1>1, <2>1
  <2>2. CASE ~(i <= p) /\ i = p + 1
    BY <2>2
  <2>3. CASE ~(i <= p) /\ i # p + 1
    <3>1. i - 1 \in 1 .. Len(s)
      BY <1>1, <2>3
    <3> QED
      BY <2>3, <3>1
  <2> QED
    BY <2>1, <2>2, <2>3
<1>3. Insert(s, p, e) \in [1 .. Len(s) + 1 -> Elems]
  BY <1>2 DEF Insert
<1> QED
  BY <1>1, <1>3 DEF Insert

LEMMA DropRules ==
  ASSUME NEW s \in Seq(Elems), NEW p \in 1 .. Len(s)
  PROVE  /\ Drop(s, p) \in Seq(Elems) /\ Len(Drop(s, p)) = Len(s) - 1
         /\ \A i \in 1 .. Len(s) - 1 : Drop(s, p)[i] = IF i < p THEN s[i] ELSE s[i + 1]
<1>1. Len(s) - 1 \in Nat /\ Len(s) \in Nat /\ p \in Int
  OBVIOUS
<1>2. ASSUME NEW i \in 1 .. Len(s) - 1
      PROVE  (IF i < p THEN s[i] ELSE s[i + 1]) \in Elems
  BY <1>1
<1>3. Drop(s, p) \in [1 .. Len(s) - 1 -> Elems]
  BY <1>2 DEF Drop
<1> QED
  BY <1>1, <1>3 DEF Drop

\* A sequence without repetitions is no longer than there are elements.
LEMMA DistinctBound ==
  ASSUME NEW s \in Seq(Elems), Distinct(s)
  PROVE  Len(s) <= Cardinality(Elems) /\ Cardinality(Elems) \in Nat
<1>1. Len(s) \in Nat /\ s \in [1 .. Len(s) -> Elems]
  OBVIOUS
<1>2. IsFiniteSet(Elems) /\ Cardinality(Elems) \in Nat
  BY ListAssumption, FS_CardinalityType
<1>3. IsFiniteSet(1 .. Len(s)) /\ Cardinality(1 .. Len(s)) = Len(s)
  <2>1. 1 \in Int /\ Len(s) \in Int
    BY <1>1
  <2>2. Cardinality(1 .. Len(s)) = IF 1 > Len(s) THEN 0 ELSE Len(s) - 1 + 1
    BY <2>1, FS_Interval
  <2> QED
    BY <1>1, <2>1, <2>2, FS_Interval
<1>4. s \in Injection(1 .. Len(s), Elems)
  BY <1>1 DEF Injection, IsInjective, Distinct
<1>5. Cardinality(1 .. Len(s)) <= Cardinality(Elems)
  BY <1>2, <1>4, FS_Injection DEF ExistsInjection
<1> QED
  BY <1>2, <1>3, <1>5

LEMMA LeastMember ==
  ASSUME NEW S \in SUBSET Nat, S # {}
  PROVE  \E p \in S : \A q \in S : ~(q < p)
<1> DEFINE Less == {ss \in Nat \X Nat : ss[1] < ss[2]}
<1>1. IsWellFoundedOn(Less, Nat)
  BY NatLessThanWellFounded DEF OpToRel
<1> HIDE DEF Less
<1>2. PICK p \in S : \A q \in S : ~(<<q, p>> \in Less)
  BY <1>1, WFMin
<1>3. \A q \in S : ~(q < p)
  BY <1>2 DEF Less
<1> QED
  BY <1>3

-----------------------------------------------------------------------------
(* Lists of links *)

\* Node i of a list s: its head is node 0, and what its last link leads to is end.
Node(h, s, end, i) == IF i = 0 THEN h ELSE IF i <= Len(s) THEN s[i] ELSE end

\* The links lead from h through s to end.
Leads(links, h, s, end) ==
  \A i \in 0 .. Len(s) : links[Node(h, s, end, i)] = Node(h, s, end, i + 1)

LEMMA NodeRules ==
  ASSUME NEW h, NEW s \in Seq(Elems), NEW end
  PROVE  /\ Node(h, s, end, 0) = h /\ Node(h, s, end, Len(s) + 1) = end
         /\ \A i \in 1 .. Len(s) : Node(h, s, end, i) = s[i] /\ s[i] \in Elems
BY DEF Node

\* Links that lead through a sequence without repetitions to something else than
\* an element stand for that sequence.
LEMMA FollowLeads ==
  ASSUME NEW links, NEW h, NEW s \in Seq(Elems), NEW end, end \notin Elems, Distinct(s),
         Leads(links, h, s, end)
  PROVE  Follow(links, h) = s
<1> DEFINE C == Cardinality(Elems)
           n == Len(s)
<1>1. n \in Nat /\ C \in Nat /\ n <= C /\ \A i \in 1 .. n : s[i] \in Elems
  BY DistinctBound
<1> HIDE DEF C
<1>2. n = 0 => links[h] = end
  BY DEF Leads, Node
<1>3. n > 0 => links[h] = s[1]
  BY <1>1 DEF Leads, Node
<1>4. \A i \in 2 .. n : links[s[i - 1]] = s[i]
  <2> TAKE i \in 2 .. n
  <2>1. i - 1 \in 0 .. n /\ i - 1 # 0 /\ i - 1 <= n /\ i <= n /\ i # 0 /\ (i - 1) + 1 = i
    BY <1>1
  <2> QED
    BY <2>1 DEF Leads, Node
<1>5. n > 0 => links[s[n]] = end
  BY <1>1 DEF Leads, Node
<1>6. CASE n = 0
  <2>1. s = <<>>
    BY <1>6
  <2> QED
    BY <1>2, <1>6, <2>1 DEF Follow
<1>7. CASE n > 0
  <2>1. links[h] \in Elems
    BY <1>1, <1>3, <1>7
  <2>2. s \in SeqOf(Elems, C + 1)
    <3>1. s \in [1 .. n -> Elems] /\ n \in 0 .. C + 1
      BY <1>1
    <3> QED
      BY <3>1 DEF SeqOf
  <2>3. Walk(links, h, s)
    <3>1. \A i \in 1 .. Len(s) : s[i] = links[IF i = 1 THEN h ELSE s[i - 1]]
      <4> TAKE i \in 1 .. Len(s)
      <4>1. CASE i = 1
        BY <1>3, <1>7, <4>1
      <4>2. CASE i # 1
        <5>1. i \in 2 .. n
          BY <1>1, <4>2
        <5> QED
          BY <1>4, <4>2, <5>1
      <4> QED
        BY <4>1, <4>2
    <3>2. s # <<>> /\ Last(s) = s[n]
      BY <1>7 DEF Last
    <3>3. links[IF s = <<>> THEN h ELSE Last(s)] \notin Elems
      BY <1>5, <1>7, <3>2
    <3> QED
      BY <3>1, <3>3 DEF Walk
  <2>4. ASSUME NEW t \in SeqOf(Elems, C + 1), Walk(links, h, t) PROVE t = s
    <3>1. t \in Seq(Elems) /\ Len(t) \in Nat /\ Len(t) <= C + 1 /\ t \in [1 .. Len(t) -> Elems]
      <4>1. PICK m \in 0 .. C + 1 : t \in [1 .. m -> Elems]
        BY DEF SeqOf
      <4>2. m \in Nat /\ m <= C + 1
        BY <1>1
      <4>3. t \in Seq(Elems) /\ Len(t) = m
        BY <4>1, <4>2
      <4> QED
        BY <4>1, <4>2, <4>3
    <3>2. \A i \in 1 .. Len(t) : t[i] = links[IF i = 1 THEN h ELSE t[i - 1]]
      BY <2>4 DEF Walk
    <3>3. Len(t) <= C => links[IF t = <<>> THEN h ELSE Last(t)] \notin Elems
      BY <2>4 DEF Walk, C
    <3>4. \A i \in 1 .. Len(t) : i <= n => t[i] = s[i]
      <4> DEFINE least == IF Len(t) <= n THEN Len(t) ELSE n
      <4>1. least \in Nat /\ least <= n /\ least <= Len(t)
            /\ \A i \in 1 .. Len(t) : i <= n => i \in 1 .. least
        BY <1>1, <3>1
      <4> HIDE DEF least
      <4>2. SUFFICES ASSUME \E i \in 1 .. least : t[i] # s[i] PROVE FALSE
        BY <4>1
      <4>3. PICK i \in 1 .. least : t[i] # s[i] /\ \A j \in 1 .. i - 1 : t[j] = s[j]
        <5> DEFINE S == {i \in 1 .. least : t[i] # s[i]}
        <5>1. S \subseteq Nat /\ S # {}
          BY <4>1, <4>2
        <5> HIDE DEF S
        <5>2. PICK i \in S : \A j \in S : ~(j < i)
          BY <5>1, LeastMember
        <5>3. \A j \in 1 .. i - 1 : j \in 1 .. least /\ j \notin S
          BY <4>1, <5>1, <5>2 DEF S
        <5> QED
          BY <5>2, <5>3 DEF S
      <4>4. i \in 1 .. Len(t) /\ i \in 1 .. n
        BY <1>1, <3>1, <4>1
      <4>5. CASE i = 1
        BY <1>3, <1>7, <3>2, <4>3, <4>4, <4>5
      <4>6. CASE i # 1
        <5>1. i - 1 \in 1 .. i - 1 /\ i \in 2 .. n
          BY <4>4, <4>6
        <5>2. t[i] = links[t[i - 1]] /\ t[i - 1] = s[i - 1]
          BY <3>2, <4>3, <4>4, <4>6, <5>1
        <5> QED
          BY <1>4, <4>3, <5>1, <5>2
      <4> QED
        BY <4>5, <4>6
    <3>5. ~(Len(t) < n)
      <4> SUFFICES ASSUME Len(t) < n PROVE FALSE
        OBVIOUS
      <4>1. links[IF t = <<>> THEN h ELSE Last(t)] \notin Elems
        BY <1>1, <3>1, <3>3
      <4>2. CASE Len(t) = 0
        BY <2>1, <3>1, <4>1, <4>2
      <4>3. CASE Len(t) # 0
        <5>1. t # <<>> /\ Last(t) = t[Len(t)] /\ Len(t) \in 1 .. Len(t) /\ Len(t) <= n
          BY <3>1, <4>3 DEF Last
        <5>2. Last(t) = s[Len(t)]
          BY <3>4, <5>1
        <5>3. Len(t) + 1 \in 2 .. n /\ (Len(t) + 1) - 1 = Len(t) /\ Len(t) + 1 \in 1 .. n
          BY <1>1, <3>1, <4>3
        <5>4. links[s[Len(t)]] = s[Len(t) + 1]
          BY <1>4, <5>3
        <5> QED
          BY <1>1, <4>1, <5>1, <5>2, <5>3, <5>4
      <4> QED
        BY <4>2, <4>3
    <3>6. ~(Len(t) > n)
      <4> SUFFICES ASSUME Len(t) > n PROVE FALSE
        OBVIOUS
      <4>1. n + 1 \in 1 .. Len(t) /\ n + 1 # 1 /\ n \in 1 .. Len(t) /\ (n + 1) - 1 = n
        BY <1>1, <1>7, <3>1
      <4>2. t[n + 1] = links[t[n]] /\ t[n] = s[n]
        BY <3>2, <3>4, <4>1
      <4>3. t[n + 1] \in Elems
        BY <3>1, <4>1
      <4> QED
        BY <1>5, <1>7, <4>2, <4>3
    <3>7. Len(t) = n
      BY <1>1, <3>1, <3>5, <3>6
    <3>8. s \in [1 .. n -> Elems] /\ t \in [1 .. n -> Elems] /\ \A i \in 1 .. n : t[i] = s[i]
      BY <1>1, <3>1, <3>4, <3>7
    <3> QED
      BY <3>8
  <2>5. Follow(links, h) = CHOOSE t \in SeqOf(Elems, C + 1) : Walk(links, h, t)
    BY <2>1 DEF Follow, C
  <2> QED
    BY <2>2, <2>3, <2>4, <2>5
<1> QED
  BY <1>1, <1>6, <1>7

-----------------------------------------------------------------------------
(* The shape of memory *)

EndOf(k, h) == IF k = "hlist" THEN Null ELSE h
At(k, L, h, i) == Node(h, L[h], EndOf(k, h), i)

In(L, e) == \E h \in Heads : \E i \in 1 .. Len(L[h]) : L[h][i] = e
Apart(L) ==
  \A g, h \in Heads : \A i \in 1 .. Len(L[g]), j \in 1 .. Len(L[h]) :
    L[g][i] = L[h][j] => g = h /\ i = j

\* Whether the link from node i of a list with n elements has a link back.
Mirrored(k, i, n) == k = "list" \/ (k = "hlist" /\ i < n)

Links == [Memory -> Memory \cup {Null}]

\* The links nx and pv of a kind k of lists stand for the sequences L: no element is
\* on two of them or twice on one, and those on none have no links.
Shape(k, nx, pv, L) ==
  /\ k \in {"list", "slist", "hlist"} /\ nx \in Links /\ pv \in Links
  /\ L \in [Heads -> Seq(Elems)]
  /\ Apart(L)
  /\ \A h \in Heads : \A i \in 0 .. Len(L[h]) : nx[At(k, L, h, i)] = At(k, L, h, i + 1)
  /\ \A h \in Heads : \A i \in 0 .. Len(L[h]) :
       Mirrored(k, i, Len(L[h])) => pv[At(k, L, h, i + 1)] = At(k, L, h, i)
  /\ \A e \in Elems : ~In(L, e) => nx[e] = Null /\ pv[e] = Null
  /\ k = "slist" => \A n \in Memory : pv[n] = Null

LEMMA AtRules ==
  ASSUME NEW k, NEW L \in [Heads -> Seq(Elems)], NEW h \in Heads
  PROVE  /\ Len(L[h]) \in Nat /\ At(k, L, h, 0) = h
         /\ At(k, L, h, Len(L[h]) + 1) = EndOf(k, h) /\ EndOf(k, h) \notin Elems
         /\ \A i \in 1 .. Len(L[h]) :
              At(k, L, h, i) = L[h][i] /\ L[h][i] \in Elems /\ In(L, L[h][i])
         /\ \A i \in 0 .. Len(L[h]) : At(k, L, h, i) \in Memory
<1>1. L[h] \in Seq(Elems) /\ Len(L[h]) \in Nat
  OBVIOUS
<1>2. EndOf(k, h) \notin Elems
  BY ListAssumption DEF EndOf
<1>3. /\ At(k, L, h, 0) = h /\ At(k, L, h, Len(L[h]) + 1) = EndOf(k, h)
      /\ \A i \in 1 .. Len(L[h]) : At(k, L, h, i) = L[h][i] /\ L[h][i] \in Elems
  BY <1>1, NodeRules DEF At
<1>4. \A i \in 1 .. Len(L[h]) : In(L, L[h][i])
  BY DEF In
<1>5. \A i \in 0 .. Len(L[h]) : i = 0 \/ i \in 1 .. Len(L[h])
  BY <1>1
<1> QED
  BY <1>1, <1>2, <1>3, <1>4, <1>5 DEF Memory

\* No two links lead from the same node, and no two mirrored ones to the same.
Separate(k, L) ==
  \A g, h \in Heads : \A i \in 0 .. Len(L[g]), j \in 0 .. Len(L[h]) :
    /\ At(k, L, g, i) = At(k, L, h, j) => g = h /\ i = j
    /\ Mirrored(k, i, Len(L[g])) =>
         /\ At(k, L, g, i + 1) \in Memory
         /\ At(k, L, g, i + 1) = At(k, L, h, j + 1) => g = h /\ i = j

LEMMA AllSeparate ==
  ASSUME NEW k, NEW L, L \in [Heads -> Seq(Elems)], Apart(L)
  PROVE  Separate(k, L)
<1> SUFFICES ASSUME NEW g \in Heads, NEW h \in Heads,
                    NEW i \in 0 .. Len(L[g]), NEW j \in 0 .. Len(L[h])
             PROVE  /\ At(k, L, g, i) = At(k, L, h, j) => g = h /\ i = j
                    /\ Mirrored(k, i, Len(L[g])) =>
                         /\ At(k, L, g, i + 1) \in Memory
                         /\ At(k, L, g, i + 1) = At(k, L, h, j + 1) => g = h /\ i = j
  BY DEF Separate
<1> DEFINE m == Len(L[g])
           n == Len(L[h])
<1>1. m \in Nat /\ n \in Nat /\ Heads \cap Elems = {} /\ Null \notin Elems /\ Null \notin Heads
  BY AtRules, ListAssumption
<1>2. \A x \in 1 .. m, y \in 1 .. n : At(k, L, g, x) = At(k, L, h, y) => g = h /\ x = y
  BY AtRules DEF Apart
<1>3. /\ At(k, L, g, 0) = g /\ At(k, L, h, 0) = h
      /\ At(k, L, g, m + 1) = EndOf(k, g) /\ At(k, L, h, n + 1) = EndOf(k, h)
      /\ \A x \in 1 .. m : At(k, L, g, x) \in Elems
      /\ \A y \in 1 .. n : At(k, L, h, y) \in Elems
  BY AtRules
<1> HIDE DEF m, n
<1>4. i \in 0 .. m /\ j \in 0 .. n
  BY DEF m, n
<1>5. At(k, L, g, i) = At(k, L, h, j) => g = h /\ i = j
  <2>1. i = 0 \/ i \in 1 .. m
    BY <1>1, <1>4
  <2>2. j = 0 \/ j \in 1 .. n
    BY <1>1, <1>4
  <2> QED
    BY <1>1, <1>2, <1>3, <2>1, <2>2
<1>6. ASSUME Mirrored(k, i, m)
      PROVE  /\ At(k, L, g, i + 1) \in Memory
             /\ At(k, L, g, i + 1) = At(k, L, h, j + 1) => g = h /\ i = j
  <2>1. i + 1 \in 1 .. m \/ (i = m /\ k = "list")
    BY <1>1, <1>4, <1>6 DEF Mirrored
  <2>2. j + 1 \in 1 .. n \/ j = n
    BY <1>1, <1>4
  <2>3. EndOf(k, h) = Null \/ EndOf(k, h) = h
    BY DEF EndOf
  <2>4. k = "list" => EndOf(k, g) = g /\ EndOf(k, h) = h
    BY DEF EndOf
  <2>5. At(k, L, g, i + 1) \in Memory
    BY <1>3, <2>1, <2>4 DEF Memory
  <2>6. ASSUME At(k, L, g, i + 1) = At(k, L, h, j + 1) PROVE g = h /\ i = j
    <3>1. CASE i + 1 \in 1 .. m /\ j + 1 \in 1 .. n
      <4>1. g = h /\ i + 1 = j + 1
        BY <1>2, <2>6, <3>1
      <4> QED
        BY <1>1, <1>4, <4>1
    <3>2. CASE i + 1 \in 1 .. m /\ j = n
      <4>1. At(k, L, g, i + 1) \in Elems /\ At(k, L, h, j + 1) = EndOf(k, h)
        BY <1>3, <3>2
      <4> QED
        BY <1>1, <2>3, <2>6, <4>1
    <3>3. CASE i = m /\ k = "list" /\ j + 1 \in 1 .. n
      <4>1. At(k, L, g, i + 1) = g /\ At(k, L, h, j + 1) \in Elems
        BY <1>3, <2>4, <3>3
      <4> QED
        BY <1>1, <2>6, <4>1
    <3>4. CASE i = m /\ k = "list" /\ j = n
      <4>1. At(k, L, g, i + 1) = g /\ At(k, L, h, j + 1) = h
        BY <1>3, <2>4, <3>4
      <4>2. g = h
        BY <2>6, <4>1
      <4> QED
        BY <3>4, <4>2 DEF m, n
    <3> QED
      BY <2>1, <2>2, <3>1, <3>2, <3>3, <3>4
  <2> QED
    BY <2>5, <2>6
<1> QED
  BY <1>5, <1>6 DEF m

\* Memory of that shape is read as the sequences it stands for.
LEMMA ShapeItems ==
  ASSUME NEW k, NEW nx, NEW pv, NEW L, Shape(k, nx, pv, L)
  PROVE  [h \in Heads |-> Follow(nx, h)] = L
<1>1. L \in [Heads -> Seq(Elems)] /\ Apart(L)
  BY DEF Shape
<1>2. ASSUME NEW h \in Heads PROVE Follow(nx, h) = L[h]
  <2>1. Distinct(L[h])
    BY <1>1 DEF Apart, Distinct
  <2>2. Leads(nx, h, L[h], EndOf(k, h))
    BY DEF Shape, Leads, At
  <2>3. L[h] \in Seq(Elems) /\ EndOf(k, h) \notin Elems
    BY <1>1, AtRules
  <2> QED
    BY <2>1, <2>2, <2>3, FollowLeads
<1> QED
  BY <1>1, <1>2

-----------------------------------------------------------------------------
(* Putting an element on a list *)

\* An element that is on no list is linked in behind node p of the list of h.
Joined(k, nx, pv, L, h, p, e, nx2, pv2, L2) ==
  /\ h \in Heads /\ p \in 0 .. Len(L[h]) /\ e \in Elems /\ ~In(L, e)
  /\ nx2 \in Links /\ nx2[e] = At(k, L, h, p + 1) /\ nx2[At(k, L, h, p)] = e
  /\ \A m \in Memory : m # e /\ m # At(k, L, h, p) => nx2[m] = nx[m]
  /\ pv2 \in Links /\ (k = "slist" => pv2 = pv)
  /\ k # "slist" =>
       /\ pv2[e] = At(k, L, h, p) /\ (At(k, L, h, p + 1) # Null => pv2[At(k, L, h, p + 1)] = e)
       /\ \A m \in Memory : m # e /\ m # At(k, L, h, p + 1) => pv2[m] = pv[m]
  /\ L2 \in [Heads -> Seq(Elems)] /\ L2[h] = Insert(L[h], p, e)
  /\ \A g \in Heads : g # h => L2[g] = L[g]

Longer(k, L, h, p, e, L2) ==
  /\ Len(L2[h]) = Len(L[h]) + 1
  /\ \A i \in 1 .. Len(L[h]) + 1 :
       L2[h][i] = IF i <= p THEN L[h][i] ELSE IF i = p + 1 THEN e ELSE L[h][i - 1]
  /\ \A i \in 0 .. Len(L[h]) + 2 :
       At(k, L2, h, i) = IF i <= p THEN At(k, L, h, i)
                         ELSE IF i = p + 1 THEN e ELSE At(k, L, h, i - 1)
  /\ \A g \in Heads : g # h =>
       /\ Len(L2[g]) = Len(L[g]) /\ \A i \in Nat : At(k, L2, g, i) = At(k, L, g, i)

LEMMA JoinedNodes ==
  ASSUME NEW k, NEW nx, NEW pv, NEW L, L \in [Heads -> Seq(Elems)], NEW h, NEW p, NEW e,
         NEW nx2, NEW pv2, NEW L2, Joined(k, nx, pv, L, h, p, e, nx2, pv2, L2)
  PROVE  Longer(k, L, h, p, e, L2)
<1> DEFINE n == Len(L[h])
<1>1. /\ h \in Heads /\ p \in 0 .. n /\ e \in Elems /\ L2[h] = Insert(L[h], p, e)
      /\ \A g \in Heads : g # h => L2[g] = L[g]
  BY DEF Joined
<1>2. n \in Nat /\ L[h] \in Seq(Elems) /\ p \in Nat /\ p <= n
  BY <1>1
<1>3. /\ Len(L2[h]) = n + 1
      /\ \A i \in 1 .. n + 1 :
           L2[h][i] = IF i <= p THEN L[h][i] ELSE IF i = p + 1 THEN e ELSE L[h][i - 1]
  <2>1. PICK s \in Seq(Elems) : s = L[h]
    BY <1>2
  <2>2. p \in 0 .. Len(s) /\ e \in Elems /\ L2[h] = Insert(s, p, e)
    BY <1>1, <2>1
  <2>3. /\ Len(Insert(s, p, e)) = Len(s) + 1
        /\ \A i \in 1 .. Len(s) + 1 :
             Insert(s, p, e)[i] = IF i <= p THEN s[i] ELSE IF i = p + 1 THEN e ELSE s[i - 1]
    BY <2>2, InsertRules
  <2> QED
    BY <2>1, <2>2, <2>3
<1>4. ASSUME NEW i \in 0 .. n + 2
      PROVE  At(k, L2, h, i) = IF i <= p THEN At(k, L, h, i)
                               ELSE IF i = p + 1 THEN e ELSE At(k, L, h, i - 1)
  <2> HIDE DEF n
  <2>0. i \in Int /\ n = Len(L[h])
    BY DEF n
  <2>1. CASE i = 0
    BY <1>2, <2>1 DEF At, Node
  <2>2. CASE i \in 1 .. n + 1 /\ i <= p
    <3>1. i # 0 /\ i <= Len(L2[h]) /\ i <= Len(L[h]) /\ L2[h][i] = L[h][i]
      BY <1>2, <1>3, <2>0, <2>2
    <3> QED
      BY <2>2, <3>1 DEF At, Node
  <2>3. CASE i \in 1 .. n + 1 /\ i = p + 1
    <3>1. i # 0 /\ i <= Len(L2[h]) /\ L2[h][i] = e /\ ~(i <= p)
      BY <1>2, <1>3, <2>0, <2>3
    <3> QED
      BY <2>3, <3>1 DEF At, Node
  <2>4. CASE i \in 1 .. n + 1 /\ ~(i <= p) /\ i # p + 1
    <3>1. i # 0 /\ i <= Len(L2[h]) /\ i - 1 <= Len(L[h]) /\ i - 1 # 0 /\ L2[h][i] = L[h][i - 1]
      BY <1>2, <1>3, <2>0, <2>4
    <3> QED
      BY <2>4, <3>1 DEF At, Node
  <2>5. CASE i = n + 2
    <3>1. i # 0 /\ ~(i <= Len(L2[h])) /\ ~(i - 1 <= Len(L[h])) /\ i - 1 # 0 /\ ~(i <= p) /\ i # p + 1
      BY <1>2, <1>3, <2>0, <2>5
    <3> QED
      BY <3>1 DEF At, Node
  <2>6. i = 0 \/ i \in 1 .. n + 1 \/ i = n + 2
    BY <1>2, <2>0
  <2> QED
    BY <2>1, <2>2, <2>3, <2>4, <2>5, <2>6
<1>5. \A g \in Heads : g # h =>
        Len(L2[g]) = Len(L[g]) /\ \A i \in Nat : At(k, L2, g, i) = At(k, L, g, i)
  BY <1>1 DEF At
<1> QED
  BY <1>3, <1>4, <1>5 DEF Longer

LEMMA JoinedShape ==
  ASSUME NEW k, NEW nx, NEW pv, NEW L, Shape(k, nx, pv, L), NEW h, NEW p, NEW e,
         NEW nx2, NEW pv2, NEW L2, Joined(k, nx, pv, L, h, p, e, nx2, pv2, L2)
  PROVE  Shape(k, nx2, pv2, L2)
<1>0. Longer(k, L, h, p, e, L2)
  <2>1. L \in [Heads -> Seq(Elems)]
    BY DEF Shape
  <2> QED
    BY <2>1, JoinedNodes
<1> DEFINE n == Len(L[h])
<1>1. /\ k \in {"list", "slist", "hlist"} /\ L \in [Heads -> Seq(Elems)] /\ Apart(L)
      /\ \A g \in Heads : \A i \in 0 .. Len(L[g]) : nx[At(k, L, g, i)] = At(k, L, g, i + 1)
      /\ \A g \in Heads : \A i \in 0 .. Len(L[g]) :
           Mirrored(k, i, Len(L[g])) => pv[At(k, L, g, i + 1)] = At(k, L, g, i)
      /\ \A x \in Elems : ~In(L, x) => nx[x] = Null /\ pv[x] = Null
      /\ k = "slist" => \A m \in Memory : pv[m] = Null
  BY DEF Shape
<1>2. /\ h \in Heads /\ p \in 0 .. n /\ e \in Elems /\ ~In(L, e) /\ nx2 \in Links /\ pv2 \in Links
      /\ nx2[e] = At(k, L, h, p + 1) /\ nx2[At(k, L, h, p)] = e
      /\ \A m \in Memory : m # e /\ m # At(k, L, h, p) => nx2[m] = nx[m]
      /\ k = "slist" => pv2 = pv
      /\ k # "slist" =>
           /\ pv2[e] = At(k, L, h, p)
           /\ At(k, L, h, p + 1) # Null => pv2[At(k, L, h, p + 1)] = e
           /\ \A m \in Memory : m # e /\ m # At(k, L, h, p + 1) => pv2[m] = pv[m]
      /\ L2 \in [Heads -> Seq(Elems)] /\ L2[h] = Insert(L[h], p, e)
      /\ \A g \in Heads : g # h => L2[g] = L[g]
  BY DEF Joined
<1>3. n \in Nat /\ p \in Nat /\ p <= n /\ e \in Memory /\ e \notin Heads
  BY <1>1, <1>2, ListAssumption DEF Memory
<1>4. /\ Len(L2[h]) = n + 1
      /\ \A i \in 0 .. n + 2 :
           At(k, L2, h, i) = IF i <= p THEN At(k, L, h, i)
                             ELSE IF i = p + 1 THEN e ELSE At(k, L, h, i - 1)
      /\ \A g \in Heads : g # h =>
           /\ Len(L2[g]) = Len(L[g]) /\ \A i \in Nat : At(k, L2, g, i) = At(k, L, g, i)
  BY <1>0 DEF Longer
<1>10. \A i \in 1 .. n + 1 :
         L2[h][i] = IF i <= p THEN L[h][i] ELSE IF i = p + 1 THEN e ELSE L[h][i - 1]
  BY <1>0 DEF Longer
<1> HIDE DEF n
<1>5. \A g \in Heads : \A i \in 0 .. Len(L[g]) :
        /\ At(k, L, g, i) \in Memory /\ At(k, L, g, i) # e
        /\ At(k, L, g, i) = At(k, L, h, p) => g = h /\ i = p
        /\ Mirrored(k, i, Len(L[g])) =>
             /\ At(k, L, g, i + 1) \in Memory /\ At(k, L, g, i + 1) # e
             /\ At(k, L, g, i + 1) = At(k, L, h, p + 1) => g = h /\ i = p
  <2> TAKE g \in Heads
  <2> TAKE i \in 0 .. Len(L[g])
  <2>1. \A j \in 0 .. Len(L[g]) : At(k, L, g, j) \in Memory /\ At(k, L, g, j) # e
    <3> TAKE j \in 0 .. Len(L[g])
    <3>1. j = 0 \/ j \in 1 .. Len(L[g])
      OBVIOUS
    <3>2. At(k, L, g, 0) = g /\ \A x \in 1 .. Len(L[g]) : At(k, L, g, x) = L[g][x] /\ In(L, L[g][x])
      BY <1>1, AtRules
    <3>3. At(k, L, g, j) \in Memory
      BY <1>1, AtRules
    <3> QED
      BY <1>2, <1>3, <3>1, <3>2, <3>3
  <2>2. /\ At(k, L, g, i) = At(k, L, h, p) => g = h /\ i = p
        /\ Mirrored(k, i, Len(L[g])) =>
             /\ At(k, L, g, i + 1) \in Memory
             /\ At(k, L, g, i + 1) = At(k, L, h, p + 1) => g = h /\ i = p
    <3>1. Separate(k, L)
      BY <1>1, AllSeparate
    <3>2. h \in Heads /\ p \in 0 .. Len(L[h])
      BY <1>2 DEF n
    <3> QED
      BY <3>1, <3>2 DEF Separate
  <2>3. ASSUME Mirrored(k, i, Len(L[g])) PROVE At(k, L, g, i + 1) # e
    <3>1. Len(L[g]) \in Nat /\ At(k, L, g, Len(L[g]) + 1) \notin Elems
      BY <1>1, AtRules
    <3>2. i + 1 \in 0 .. Len(L[g]) \/ i = Len(L[g])
      BY <3>1
    <3> QED
      BY <1>2, <2>1, <3>1, <3>2
  <2> QED
    BY <2>1, <2>2, <2>3
<1>6. Apart(L2)
  <2> DEFINE Old(g, i) == IF g = h /\ i > p THEN i - 1 ELSE i
  <2>2. ASSUME NEW g \in Heads, NEW i \in 1 .. Len(L2[g])
        PROVE  \/ g = h /\ i = p + 1 /\ L2[g][i] = e
               \/ ~(g = h /\ i = p + 1) /\ Old(g, i) \in 1 .. Len(L[g]) /\ L2[g][i] = L[g][Old(g, i)]
    <3>1. CASE g # h
      BY <1>2, <3>1
    <3>2. CASE g = h
      <4>1. i \in 1 .. n + 1 /\ i \in Int
        BY <1>4, <3>2
      <4>2. CASE i <= p
        <5>1. i \in 1 .. n /\ i # p + 1 /\ ~(i > p) /\ L2[h][i] = L[h][i]
          BY <1>3, <1>10, <4>1, <4>2
        <5> QED
          BY <3>2, <5>1 DEF n
      <4>3. CASE i = p + 1
        BY <1>3, <1>10, <3>2, <4>1, <4>3
      <4>4. CASE i > p + 1
        <5>1. i - 1 \in 1 .. n /\ i # p + 1 /\ i > p /\ L2[h][i] = L[h][i - 1]
          BY <1>3, <1>10, <4>1, <4>4
        <5> QED
          BY <3>2, <5>1 DEF n
      <4> QED
        BY <1>3, <4>1, <4>2, <4>3, <4>4
    <3> QED
      BY <3>1, <3>2
  <2>3. \A g \in Heads : \A i \in 1 .. Len(L[g]) : L[g][i] # e
    BY <1>2 DEF In
  <2>4. ASSUME NEW f \in Heads, NEW g \in Heads, NEW i \in 1 .. Len(L2[f]), NEW j \in 1 .. Len(L2[g]),
               L2[f][i] = L2[g][j]
        PROVE  f = g /\ i = j
    <3>1. CASE f = h /\ i = p + 1
      <4>1. L2[f][i] = e
        BY <1>3, <2>2, <3>1
      <4>2. g = h /\ j = p + 1
        <5> HIDE DEF Old
        <5> QED
          BY <2>2, <2>3, <2>4, <4>1
      <4> QED
        BY <3>1, <4>2
    <3>2. CASE ~(f = h /\ i = p + 1)
      <4>1. Old(f, i) \in 1 .. Len(L[f]) /\ L2[f][i] = L[f][Old(f, i)]
        BY <2>2, <3>2
      <4>2. ~(g = h /\ j = p + 1) /\ Old(g, j) \in 1 .. Len(L[g]) /\ L2[g][j] = L[g][Old(g, j)]
        <5> HIDE DEF Old
        <5> QED
          BY <2>2, <2>3, <2>4, <4>1
      <4>3. f = g /\ Old(f, i) = Old(g, j)
        <5> HIDE DEF Old
        <5>1. Apart(L) /\ L[f][Old(f, i)] = L[g][Old(g, j)]
          BY <1>1, <2>4, <4>1, <4>2
        <5> QED
          BY <4>1, <4>2, <5>1, Zenon DEF Apart
      <4>4. i \in Int /\ j \in Int
        OBVIOUS
      <4> QED
        BY <1>3, <3>2, <4>2, <4>3, <4>4
    <3> QED
      BY <3>1, <3>2
  <2> QED
    BY <2>4 DEF Apart
<1>7. ASSUME NEW g \in Heads, NEW i \in 0 .. Len(L2[g])
      PROVE  nx2[At(k, L2, g, i)] = At(k, L2, g, i + 1)
  <2>1. CASE g # h
    <3>1. i \in 0 .. Len(L[g]) /\ i \in Nat /\ i + 1 \in Nat
      BY <1>4, <2>1
    <3>2. At(k, L2, g, i) = At(k, L, g, i) /\ At(k, L2, g, i + 1) = At(k, L, g, i + 1)
      BY <1>4, <2>1, <3>1
    <3>3. nx2[At(k, L, g, i)] = nx[At(k, L, g, i)]
      BY <1>2, <1>5, <2>1, <3>1
    <3> QED
      BY <1>1, <3>1, <3>2, <3>3
  <2>2. CASE g = h
    <3>1. i \in 0 .. n + 1 /\ i \in Int /\ i + 1 \in 0 .. n + 2 /\ i \in 0 .. n + 2
      BY <1>3, <1>4, <2>2
    <3>2. CASE i < p
      <4>1. i \in 0 .. n /\ i # p /\ At(k, L2, h, i) = At(k, L, h, i)
            /\ At(k, L2, h, i + 1) = At(k, L, h, i + 1)
        BY <1>3, <1>4, <3>1, <3>2
      <4>2. nx2[At(k, L, h, i)] = nx[At(k, L, h, i)]
        BY <1>2, <1>5, <4>1 DEF n
      <4> QED
        BY <1>1, <1>2, <2>2, <4>1, <4>2 DEF n
    <3>3. CASE i = p
      <4>1. At(k, L2, h, i) = At(k, L, h, p) /\ At(k, L2, h, i + 1) = e
        BY <1>3, <1>4, <3>1, <3>3
      <4> QED
        BY <1>2, <2>2, <4>1
    <3>4. CASE i = p + 1
      <4>1. At(k, L2, h, i) = e /\ At(k, L2, h, i + 1) = At(k, L, h, p + 1)
        <5>1. ~(i <= p) /\ ~(i + 1 <= p) /\ i + 1 # p + 1 /\ (i + 1) - 1 = p + 1
          BY <1>3, <3>1, <3>4
        <5> QED
          BY <1>4, <3>1, <3>4, <5>1
      <4> QED
        BY <1>2, <2>2, <4>1
    <3>5. CASE i > p + 1
      <4>1. i - 1 \in 0 .. n /\ i - 1 # p /\ (i - 1) + 1 = i /\ (i + 1) - 1 = i
            /\ ~(i <= p) /\ i # p + 1 /\ ~(i + 1 <= p) /\ i + 1 # p + 1
        BY <1>3, <3>1, <3>5
      <4>2. At(k, L2, h, i) = At(k, L, h, i - 1) /\ At(k, L2, h, i + 1) = At(k, L, h, i)
        BY <1>4, <3>1, <4>1
      <4>3. nx2[At(k, L, h, i - 1)] = nx[At(k, L, h, i - 1)]
        BY <1>2, <1>5, <4>1 DEF n
      <4>4. nx[At(k, L, h, i - 1)] = At(k, L, h, i)
        BY <1>1, <1>2, <4>1 DEF n
      <4> QED
        BY <2>2, <4>2, <4>3, <4>4
    <3> QED
      BY <1>3, <3>1, <3>2, <3>3, <3>4, <3>5
  <2> QED
    BY <2>1, <2>2
<1>8. ASSUME NEW g \in Heads, NEW i \in 0 .. Len(L2[g]), Mirrored(k, i, Len(L2[g]))
      PROVE  pv2[At(k, L2, g, i + 1)] = At(k, L2, g, i)
  <2>0. k # "slist"
    BY <1>8 DEF Mirrored
  <2>1. CASE g # h
    <3>1. i \in 0 .. Len(L[g]) /\ i \in Nat /\ i + 1 \in Nat /\ Mirrored(k, i, Len(L[g]))
      BY <1>4, <1>8, <2>1
    <3>2. At(k, L2, g, i) = At(k, L, g, i) /\ At(k, L2, g, i + 1) = At(k, L, g, i + 1)
      BY <1>4, <2>1, <3>1
    <3>3. pv2[At(k, L, g, i + 1)] = pv[At(k, L, g, i + 1)]
      BY <1>2, <1>5, <2>0, <2>1, <3>1
    <3> QED
      BY <1>1, <3>1, <3>2, <3>3
  <2>2. CASE g = h
    <3>1. i \in 0 .. n + 1 /\ i \in Int /\ i + 1 \in 0 .. n + 2 /\ i \in 0 .. n + 2
      BY <1>3, <1>4, <2>2
    <3>2. \A j \in 0 .. n : j < n \/ i = j + 1 => Mirrored(k, j, n)
      BY <1>3, <1>4, <1>8, <2>0, <2>2, <3>1, <1>1 DEF Mirrored
    <3>3. CASE i < p
      <4>1. i \in 0 .. n /\ i # p /\ i < n /\ At(k, L2, h, i) = At(k, L, h, i)
            /\ At(k, L2, h, i + 1) = At(k, L, h, i + 1)
        BY <1>3, <1>4, <3>1, <3>3
      <4>2. Mirrored(k, i, n)
        BY <3>2, <4>1
      <4>3. pv2[At(k, L, h, i + 1)] = pv[At(k, L, h, i + 1)]
        BY <1>2, <1>5, <2>0, <4>1, <4>2 DEF n
      <4> QED
        BY <1>1, <1>2, <2>2, <4>1, <4>2, <4>3 DEF n
    <3>4. CASE i = p
      <4>1. At(k, L2, h, i) = At(k, L, h, p) /\ At(k, L2, h, i + 1) = e
        BY <1>3, <1>4, <3>1, <3>4
      <4> QED
        BY <1>2, <2>0, <2>2, <4>1
    <3>5. CASE i = p + 1
      <4>1. At(k, L2, h, i) = e /\ At(k, L2, h, i + 1) = At(k, L, h, p + 1)
        <5>1. ~(i <= p) /\ ~(i + 1 <= p) /\ i + 1 # p + 1 /\ (i + 1) - 1 = p + 1
          BY <1>3, <3>1, <3>5
        <5> QED
          BY <1>4, <3>1, <3>5, <5>1
      <4>2. Mirrored(k, p, n)
        BY <1>2, <3>2, <3>5
      <4>3. At(k, L, h, p + 1) \in Memory
        BY <1>2, <1>5, <4>2 DEF n
      <4>4. At(k, L, h, p + 1) # Null
        BY <4>3, ListAssumption DEF Memory
      <4> QED
        BY <1>2, <2>0, <2>2, <4>1, <4>4
    <3>6. CASE i > p + 1
      <4>1. i - 1 \in 0 .. n /\ i - 1 # p /\ (i - 1) + 1 = i /\ (i + 1) - 1 = i
            /\ ~(i <= p) /\ i # p + 1 /\ ~(i + 1 <= p) /\ i + 1 # p + 1
        BY <1>3, <3>1, <3>6
      <4>2. At(k, L2, h, i) = At(k, L, h, i - 1) /\ At(k, L2, h, i + 1) = At(k, L, h, i)
        BY <1>4, <3>1, <4>1
      <4>3. Mirrored(k, i - 1, n)
        BY <3>2, <4>1
      <4>4. pv2[At(k, L, h, i)] = pv[At(k, L, h, i)]
        <5>1. At(k, L, h, (i - 1) + 1) \in Memory /\ At(k, L, h, (i - 1) + 1) # e
              /\ At(k, L, h, (i - 1) + 1) # At(k, L, h, p + 1)
          BY <1>2, <1>5, <4>1, <4>3 DEF n
        <5> QED
          BY <1>2, <2>0, <4>1, <5>1
      <4>5. pv[At(k, L, h, i)] = At(k, L, h, i - 1)
        BY <1>1, <1>2, <4>1, <4>3 DEF n
      <4> QED
        BY <2>2, <4>2, <4>4, <4>5
    <3> QED
      BY <1>3, <3>1, <3>3, <3>4, <3>5, <3>6
  <2> QED
    BY <2>1, <2>2
<1>9. ASSUME NEW x \in Elems, ~In(L2, x) PROVE nx2[x] = Null /\ pv2[x] = Null
  <2>1. x # e
    <3>1. p + 1 \in 1 .. Len(L2[h]) /\ L2[h][p + 1] = e
      BY <1>3, <1>4, <1>10
    <3> QED
      BY <1>2, <1>9, <3>1 DEF In
  <2>2. \A g \in Heads : \A i \in 1 .. Len(L[g]) : L[g][i] # x
    <3> SUFFICES ASSUME NEW g \in Heads, NEW i \in 1 .. Len(L[g]), L[g][i] = x PROVE FALSE
      OBVIOUS
    <3>1. CASE g # h
      BY <1>2, <1>9, <3>1 DEF In
    <3>2. CASE g = h
      <4> DEFINE j == IF i <= p THEN i ELSE i + 1
      <4>1. j \in 1 .. n + 1 /\ j \in 1 .. Len(L2[h])
        BY <1>3, <1>4, <3>2 DEF n
      <4>2. L2[h][j] = IF j <= p THEN L[h][j] ELSE IF j = p + 1 THEN e ELSE L[h][j - 1]
        BY <1>10, <4>1
      <4>3. L2[h][j] = L[h][i]
        BY <1>3, <3>2, <4>2
      <4> HIDE DEF j
      <4> QED
        BY <1>2, <1>9, <3>2, <4>1, <4>3 DEF In
    <3> QED
      BY <3>1, <3>2
  <2>3. ~In(L, x)
    BY <2>2 DEF In
  <2>4. x \in Memory /\ x \notin Heads /\ x # Null
    BY ListAssumption DEF Memory
  <2>5. \A j \in 0 .. n + 1 : At(k, L, h, j) # x
    <3> TAKE j \in 0 .. n + 1
    <3>1. j = 0 \/ j \in 1 .. n \/ j = n + 1
      BY <1>3
    <3>2. /\ At(k, L, h, 0) = h /\ At(k, L, h, n + 1) \notin Elems
          /\ \A y \in 1 .. n : At(k, L, h, y) = L[h][y]
      BY <1>1, <1>2, AtRules DEF n
    <3> QED
      BY <1>2, <2>2, <2>4, <3>1, <3>2 DEF n
  <2>6. x # At(k, L, h, p) /\ x # At(k, L, h, p + 1)
    BY <1>3, <2>5
  <2>7. nx2[x] = nx[x] /\ pv2[x] = pv[x]
    BY <1>2, <2>1, <2>4, <2>6
  <2> QED
    BY <1>1, <2>3, <2>7
<1> QED
  BY <1>1, <1>2, <1>6, <1>7, <1>8, <1>9 DEF Shape

-----------------------------------------------------------------------------
(* Taking an element off a list *)

\* Node p of the list of h is linked out.
Left(k, nx, pv, L, h, p, nx2, pv2, L2) ==
  /\ h \in Heads /\ p \in 1 .. Len(L[h])
  /\ nx2 \in Links /\ nx2[At(k, L, h, p)] = Null /\ nx2[At(k, L, h, p - 1)] = At(k, L, h, p + 1)
  /\ \A m \in Memory : m # At(k, L, h, p) /\ m # At(k, L, h, p - 1) => nx2[m] = nx[m]
  /\ pv2 \in Links /\ (k = "slist" => pv2 = pv)
  /\ k # "slist" =>
       /\ pv2[At(k, L, h, p)] = Null
       /\ At(k, L, h, p + 1) # Null => pv2[At(k, L, h, p + 1)] = At(k, L, h, p - 1)
       /\ \A m \in Memory : m # At(k, L, h, p) /\ m # At(k, L, h, p + 1) => pv2[m] = pv[m]
  /\ L2 \in [Heads -> Seq(Elems)] /\ L2[h] = Drop(L[h], p)
  /\ \A g \in Heads : g # h => L2[g] = L[g]

Shorter(k, L, h, p, L2) ==
  /\ Len(L2[h]) = Len(L[h]) - 1
  /\ \A i \in 1 .. Len(L[h]) - 1 : L2[h][i] = IF i < p THEN L[h][i] ELSE L[h][i + 1]
  /\ \A i \in 0 .. Len(L[h]) :
       At(k, L2, h, i) = IF i < p THEN At(k, L, h, i) ELSE At(k, L, h, i + 1)
  /\ \A g \in Heads : g # h =>
       /\ Len(L2[g]) = Len(L[g]) /\ \A i \in Nat : At(k, L2, g, i) = At(k, L, g, i)

LEMMA LeftNodes ==
  ASSUME NEW k, NEW nx, NEW pv, NEW L, L \in [Heads -> Seq(Elems)], NEW h, NEW p,
         NEW nx2, NEW pv2, NEW L2, Left(k, nx, pv, L, h, p, nx2, pv2, L2)
  PROVE  Shorter(k, L, h, p, L2)
<1> DEFINE n == Len(L[h])
<1>1. /\ h \in Heads /\ p \in 1 .. n /\ L2[h] = Drop(L[h], p)
      /\ \A g \in Heads : g # h => L2[g] = L[g]
  BY DEF Left
<1>2. n \in Nat /\ L[h] \in Seq(Elems) /\ p \in Nat /\ p <= n /\ p >= 1
  BY <1>1
<1>3. /\ Len(L2[h]) = n - 1
      /\ \A i \in 1 .. n - 1 : L2[h][i] = IF i < p THEN L[h][i] ELSE L[h][i + 1]
  <2>1. PICK s \in Seq(Elems) : s = L[h]
    BY <1>2
  <2>2. p \in 1 .. Len(s) /\ L2[h] = Drop(s, p)
    BY <1>1, <2>1
  <2>3. /\ Len(Drop(s, p)) = Len(s) - 1
        /\ \A i \in 1 .. Len(s) - 1 : Drop(s, p)[i] = IF i < p THEN s[i] ELSE s[i + 1]
    BY <2>2, DropRules
  <2> QED
    BY <2>1, <2>2, <2>3
<1>4. ASSUME NEW i \in 0 .. n
      PROVE  At(k, L2, h, i) = IF i < p THEN At(k, L, h, i) ELSE At(k, L, h, i + 1)
  <2> HIDE DEF n
  <2>0. i \in Int /\ n = Len(L[h])
    BY DEF n
  <2>1. CASE i = 0
    BY <1>2, <2>1 DEF At, Node
  <2>2. CASE i \in 1 .. n - 1 /\ i < p
    <3>1. i # 0 /\ i <= Len(L2[h]) /\ i <= Len(L[h]) /\ L2[h][i] = L[h][i]
      BY <1>2, <1>3, <2>0, <2>2
    <3> QED
      BY <2>2, <3>1 DEF At, Node
  <2>3. CASE i \in 1 .. n - 1 /\ ~(i < p)
    <3>1. i # 0 /\ i <= Len(L2[h]) /\ i + 1 <= Len(L[h]) /\ i + 1 # 0 /\ L2[h][i] = L[h][i + 1]
      BY <1>2, <1>3, <2>0, <2>3
    <3> QED
      BY <2>3, <3>1 DEF At, Node
  <2>4. CASE i = n
    <3>1. i # 0 /\ ~(i <= Len(L2[h])) /\ ~(i + 1 <= Len(L[h])) /\ i + 1 # 0 /\ ~(i < p)
      BY <1>2, <1>3, <2>0, <2>4
    <3> QED
      BY <3>1 DEF At, Node
  <2>5. i = 0 \/ i \in 1 .. n - 1 \/ i = n
    BY <1>2, <2>0
  <2> QED
    BY <2>1, <2>2, <2>3, <2>4, <2>5
<1>5. \A g \in Heads : g # h =>
        Len(L2[g]) = Len(L[g]) /\ \A i \in Nat : At(k, L2, g, i) = At(k, L, g, i)
  BY <1>1 DEF At
<1> QED
  BY <1>3, <1>4, <1>5 DEF Shorter

LEMMA LeftShape ==
  ASSUME NEW k, NEW nx, NEW pv, NEW L, Shape(k, nx, pv, L), NEW h, NEW p,
         NEW nx2, NEW pv2, NEW L2, Left(k, nx, pv, L, h, p, nx2, pv2, L2)
  PROVE  Shape(k, nx2, pv2, L2)
<1>0. Shorter(k, L, h, p, L2)
  <2>1. L \in [Heads -> Seq(Elems)]
    BY DEF Shape
  <2> QED
    BY <2>1, LeftNodes
<1> DEFINE n == Len(L[h])
           e == At(k, L, h, p)
<1>1. /\ k \in {"list", "slist", "hlist"} /\ L \in [Heads -> Seq(Elems)] /\ Apart(L)
      /\ \A g \in Heads : \A i \in 0 .. Len(L[g]) : nx[At(k, L, g, i)] = At(k, L, g, i + 1)
      /\ \A g \in Heads : \A i \in 0 .. Len(L[g]) :
           Mirrored(k, i, Len(L[g])) => pv[At(k, L, g, i + 1)] = At(k, L, g, i)
      /\ \A x \in Elems : ~In(L, x) => nx[x] = Null /\ pv[x] = Null
      /\ k = "slist" => \A m \in Memory : pv[m] = Null
  BY DEF Shape
<1>2. /\ h \in Heads /\ p \in 1 .. n /\ nx2 \in Links /\ pv2 \in Links
      /\ nx2[e] = Null /\ nx2[At(k, L, h, p - 1)] = At(k, L, h, p + 1)
      /\ \A m \in Memory : m # e /\ m # At(k, L, h, p - 1) => nx2[m] = nx[m]
      /\ k = "slist" => pv2 = pv
      /\ k # "slist" =>
           /\ pv2[e] = Null
           /\ At(k, L, h, p + 1) # Null => pv2[At(k, L, h, p + 1)] = At(k, L, h, p - 1)
           /\ \A m \in Memory : m # e /\ m # At(k, L, h, p + 1) => pv2[m] = pv[m]
      /\ L2 \in [Heads -> Seq(Elems)]
      /\ \A g \in Heads : g # h => L2[g] = L[g]
  BY DEF Left
<1>3. n \in Nat /\ p \in Nat /\ 1 <= p /\ p <= n /\ p \in 0 .. n /\ p - 1 \in 0 .. n
      /\ (p - 1) + 1 = p
  BY <1>1, <1>2
<1>4. /\ Len(L2[h]) = n - 1
      /\ \A i \in 0 .. n : At(k, L2, h, i) = IF i < p THEN At(k, L, h, i) ELSE At(k, L, h, i + 1)
      /\ \A g \in Heads : g # h =>
           /\ Len(L2[g]) = Len(L[g]) /\ \A i \in Nat : At(k, L2, g, i) = At(k, L, g, i)
      /\ \A i \in 1 .. n - 1 : L2[h][i] = IF i < p THEN L[h][i] ELSE L[h][i + 1]
  BY <1>0 DEF Shorter
<1>5. e = L[h][p] /\ e \in Elems /\ e \in Memory
  BY <1>1, <1>2, AtRules DEF Memory
<1> HIDE DEF n
<1>20. Separate(k, L)
  BY <1>1, AllSeparate
<1>21. h \in Heads /\ p \in 0 .. Len(L[h])
  BY <1>2, <1>3 DEF n
<1>6. \A g \in Heads : \A i \in 0 .. Len(L[g]) :
        /\ At(k, L, g, i) \in Memory
        /\ At(k, L, g, i) = e => g = h /\ i = p
        /\ At(k, L, g, i) = At(k, L, h, p - 1) => g = h /\ i = p - 1
  <2> TAKE g \in Heads
  <2> TAKE i \in 0 .. Len(L[g])
  <2>1. At(k, L, g, i) \in Memory
    BY <1>1, AtRules
  <2>2. At(k, L, g, i) = At(k, L, h, p) => g = h /\ i = p
    BY <1>20, <1>21 DEF Separate
  <2>3. At(k, L, g, i) = At(k, L, h, p - 1) => g = h /\ i = p - 1
    <3>1. PICK q \in 0 .. Len(L[h]) : q = p - 1
      BY <1>3 DEF n
    <3>2. At(k, L, g, i) = At(k, L, h, q) => g = h /\ i = q
      BY <1>20, <1>21 DEF Separate
    <3> QED
      BY <3>1, <3>2
  <2> QED
    BY <2>1, <2>2, <2>3
<1>7. \A g \in Heads : \A i \in 0 .. Len(L[g]) :
        Mirrored(k, i, Len(L[g])) =>
             /\ At(k, L, g, i + 1) \in Memory
             /\ At(k, L, g, i + 1) = e => g = h /\ i = p - 1
             /\ At(k, L, g, i + 1) = At(k, L, h, p + 1) => g = h /\ i = p
  <2> TAKE g \in Heads
  <2> TAKE i \in 0 .. Len(L[g])
  <2> HAVE Mirrored(k, i, Len(L[g]))
  <2>1. At(k, L, g, i + 1) \in Memory
    BY <1>20, <1>21 DEF Separate
  <2>2. At(k, L, g, i + 1) = At(k, L, h, p) => g = h /\ i = p - 1
    <3>1. PICK q \in 0 .. Len(L[h]) : q = p - 1 /\ q + 1 = p
      BY <1>3 DEF n
    <3>2. At(k, L, g, i + 1) = At(k, L, h, q + 1) => g = h /\ i = q
      BY <1>20, <1>21 DEF Separate
    <3> QED
      BY <3>1, <3>2
  <2>3. At(k, L, g, i + 1) = At(k, L, h, p + 1) => g = h /\ i = p
    BY <1>20, <1>21 DEF Separate
  <2> QED
    BY <2>1, <2>2, <2>3
<1> HIDE DEF e
<1>8. Apart(L2)
  <2> DEFINE Old(g, i) == IF g = h /\ i >= p THEN i + 1 ELSE i
  <2>1. ASSUME NEW g \in Heads, NEW i \in 1 .. Len(L2[g])
        PROVE  Old(g, i) \in 1 .. Len(L[g]) /\ L2[g][i] = L[g][Old(g, i)]
    <3>1. CASE g # h
      BY <1>2, <3>1
    <3>2. CASE g = h
      <4>1. i \in 1 .. n - 1 /\ i \in Int
        BY <1>4, <3>2
      <4>2. CASE i < p
        <5>1. i \in 1 .. n /\ ~(i >= p) /\ L2[h][i] = L[h][i]
          BY <1>3, <1>4, <4>1, <4>2
        <5> QED
          BY <3>2, <5>1 DEF n
      <4>3. CASE ~(i < p)
        <5>1. i + 1 \in 1 .. n /\ i >= p /\ L2[h][i] = L[h][i + 1]
          BY <1>3, <1>4, <4>1, <4>3
        <5> QED
          BY <3>2, <5>1 DEF n
      <4> QED
        BY <4>2, <4>3
    <3> QED
      BY <3>1, <3>2
  <2>2. ASSUME NEW f \in Heads, NEW g \in Heads, NEW i \in 1 .. Len(L2[f]), NEW j \in 1 .. Len(L2[g]),
               L2[f][i] = L2[g][j]
        PROVE  f = g /\ i = j
    <3>1. /\ Old(f, i) \in 1 .. Len(L[f]) /\ L2[f][i] = L[f][Old(f, i)]
          /\ Old(g, j) \in 1 .. Len(L[g]) /\ L2[g][j] = L[g][Old(g, j)]
      <4> HIDE DEF Old
      <4> QED
        BY <2>1
    <3>2. f = g /\ Old(f, i) = Old(g, j)
      <4> HIDE DEF Old
      <4>1. Apart(L) /\ L[f][Old(f, i)] = L[g][Old(g, j)]
        BY <1>1, <2>2, <3>1
      <4>2. \A k2 \in 1 .. Len(L[f]), m2 \in 1 .. Len(L[g]) :
               L[f][k2] = L[g][m2] => f = g /\ k2 = m2
        BY <4>1, Zenon DEF Apart
      <4> QED
        BY <3>1, <4>1, <4>2, Zenon
    <3>3. i \in Int /\ j \in Int
      OBVIOUS
    <3> QED
      BY <1>3, <3>2, <3>3
  <2> QED
    BY <2>2 DEF Apart
<1>9. ASSUME NEW g \in Heads, NEW i \in 0 .. Len(L2[g])
      PROVE  nx2[At(k, L2, g, i)] = At(k, L2, g, i + 1)
  <2>1. CASE g # h
    <3>1. i \in 0 .. Len(L[g]) /\ i \in Nat /\ i + 1 \in Nat
      BY <1>4, <2>1
    <3>2. At(k, L2, g, i) = At(k, L, g, i) /\ At(k, L2, g, i + 1) = At(k, L, g, i + 1)
      BY <1>4, <2>1, <3>1
    <3>3. nx2[At(k, L, g, i)] = nx[At(k, L, g, i)]
      BY <1>2, <1>6, <2>1, <3>1
    <3> QED
      BY <1>1, <3>1, <3>2, <3>3
  <2>2. CASE g = h
    <3>1. i \in 0 .. n - 1 /\ i \in Int /\ i + 1 \in 0 .. n /\ i \in 0 .. n
      BY <1>3, <1>4, <2>2
    <3>2. CASE i < p - 1
      <4>1. i # p /\ i # p - 1 /\ At(k, L2, h, i) = At(k, L, h, i)
            /\ At(k, L2, h, i + 1) = At(k, L, h, i + 1)
        BY <1>3, <1>4, <3>1, <3>2
      <4>2. nx2[At(k, L, h, i)] = nx[At(k, L, h, i)]
        BY <1>2, <1>6, <3>1, <4>1 DEF n
      <4> QED
        BY <1>1, <1>2, <2>2, <3>1, <4>1, <4>2 DEF n
    <3>3. CASE i = p - 1
      <4>1. At(k, L2, h, i) = At(k, L, h, p - 1) /\ At(k, L2, h, i + 1) = At(k, L, h, p + 1)
        <5>1. i < p /\ ~(i + 1 < p) /\ (i + 1) + 1 = p + 1
          BY <1>3, <3>1, <3>3
        <5> QED
          BY <1>4, <3>1, <3>3, <5>1
      <4> QED
        BY <1>2, <2>2, <4>1
    <3>4. CASE i >= p
      <4>1. i + 1 # p /\ i + 1 # p - 1 /\ ~(i < p) /\ ~(i + 1 < p)
        BY <1>3, <3>1, <3>4
      <4>2. At(k, L2, h, i) = At(k, L, h, i + 1) /\ At(k, L2, h, i + 1) = At(k, L, h, (i + 1) + 1)
        BY <1>4, <3>1, <4>1
      <4>3. nx2[At(k, L, h, i + 1)] = nx[At(k, L, h, i + 1)]
        BY <1>2, <1>6, <3>1, <4>1 DEF n
      <4>4. nx[At(k, L, h, i + 1)] = At(k, L, h, (i + 1) + 1)
        BY <1>1, <1>2, <3>1 DEF n
      <4> QED
        BY <2>2, <4>2, <4>3, <4>4
    <3> QED
      BY <1>3, <3>1, <3>2, <3>3, <3>4
  <2> QED
    BY <2>1, <2>2
<1>10. ASSUME NEW g \in Heads, NEW i \in 0 .. Len(L2[g]), Mirrored(k, i, Len(L2[g]))
      PROVE  pv2[At(k, L2, g, i + 1)] = At(k, L2, g, i)
  <2>0. k # "slist"
    BY <1>10 DEF Mirrored
  <2>1. CASE g # h
    <3>1. i \in 0 .. Len(L[g]) /\ i \in Nat /\ i + 1 \in Nat /\ Mirrored(k, i, Len(L[g]))
      BY <1>4, <1>10, <2>1
    <3>2. At(k, L2, g, i) = At(k, L, g, i) /\ At(k, L2, g, i + 1) = At(k, L, g, i + 1)
      BY <1>4, <2>1, <3>1
    <3>3. pv2[At(k, L, g, i + 1)] = pv[At(k, L, g, i + 1)]
      BY <1>2, <1>7, <2>0, <2>1, <3>1
    <3> QED
      BY <1>1, <3>1, <3>2, <3>3
  <2>2. CASE g = h
    <3>1. i \in 0 .. n - 1 /\ i \in Int /\ i + 1 \in 0 .. n /\ i \in 0 .. n
      BY <1>3, <1>4, <2>2
    <3>2. \A j \in 0 .. n : j < n \/ j = i + 1 => Mirrored(k, j, n)
      BY <1>1, <1>3, <1>4, <1>10, <2>0, <2>2, <3>1 DEF Mirrored
    <3>3. CASE i < p - 1
      <4>1. i # p /\ i # p - 1 /\ i < n /\ At(k, L2, h, i) = At(k, L, h, i)
            /\ At(k, L2, h, i + 1) = At(k, L, h, i + 1)
        BY <1>3, <1>4, <3>1, <3>3
      <4>2. Mirrored(k, i, n)
        BY <3>1, <3>2, <4>1
      <4>3. pv2[At(k, L, h, i + 1)] = pv[At(k, L, h, i + 1)]
        BY <1>2, <1>7, <2>0, <3>1, <4>1, <4>2 DEF n
      <4> QED
        BY <1>1, <1>2, <2>2, <3>1, <4>1, <4>2, <4>3 DEF n
    <3>4. CASE i = p - 1
      <4>1. At(k, L2, h, i) = At(k, L, h, p - 1) /\ At(k, L2, h, i + 1) = At(k, L, h, p + 1)
        <5>1. i < p /\ ~(i + 1 < p) /\ (i + 1) + 1 = p + 1
          BY <1>3, <3>1, <3>4
        <5> QED
          BY <1>4, <3>1, <3>4, <5>1
      <4>2. Mirrored(k, p, n)
        BY <1>3, <3>2, <3>4
      <4>3. At(k, L, h, p + 1) \in Memory
        BY <1>2, <1>3, <1>7, <4>2 DEF n
      <4>4. At(k, L, h, p + 1) # Null
        BY <4>3, ListAssumption DEF Memory
      <4> QED
        BY <1>2, <2>0, <2>2, <4>1, <4>4
    <3>5. CASE i >= p
      <4>1. i + 1 # p /\ i + 1 # p - 1 /\ ~(i < p) /\ ~(i + 1 < p)
        BY <1>3, <3>1, <3>5
      <4>2. At(k, L2, h, i) = At(k, L, h, i + 1) /\ At(k, L2, h, i + 1) = At(k, L, h, (i + 1) + 1)
        BY <1>4, <3>1, <4>1
      <4>3. Mirrored(k, i + 1, n)
        BY <3>1, <3>2
      <4>4. pv2[At(k, L, h, (i + 1) + 1)] = pv[At(k, L, h, (i + 1) + 1)]
        BY <1>2, <1>7, <2>0, <3>1, <4>1, <4>3 DEF n
      <4>5. pv[At(k, L, h, (i + 1) + 1)] = At(k, L, h, i + 1)
        BY <1>1, <1>2, <3>1, <4>3 DEF n
      <4> QED
        BY <2>2, <4>2, <4>4, <4>5
    <3> QED
      BY <1>3, <3>1, <3>3, <3>4, <3>5
  <2> QED
    BY <2>1, <2>2
<1>11. ASSUME NEW x \in Elems, ~In(L2, x) PROVE nx2[x] = Null /\ pv2[x] = Null
  <2>1. CASE x = e
    BY <1>1, <1>2, <1>5, <2>1
  <2>2. CASE x # e
    <3>1. \A g \in Heads : \A i \in 1 .. Len(L[g]) : L[g][i] # x
      <4> SUFFICES ASSUME NEW g \in Heads, NEW i \in 1 .. Len(L[g]), L[g][i] = x PROVE FALSE
        OBVIOUS
      <4>1. CASE g # h
        BY <1>2, <1>11, <4>1 DEF In
      <4>2. CASE g = h
        <5> DEFINE j == IF i < p THEN i ELSE i - 1
        <5>0. i # p
          BY <1>5, <2>2, <4>2
        <5>1. j \in 1 .. n - 1 /\ j \in 1 .. Len(L2[h])
          BY <1>3, <1>4, <4>2, <5>0 DEF n
        <5>2. L2[h][j] = L[h][i]
          BY <1>3, <1>4, <4>2, <5>0, <5>1
        <5> HIDE DEF j
        <5> QED
          BY <1>2, <1>11, <4>2, <5>1, <5>2 DEF In
      <4> QED
        BY <4>1, <4>2
    <3>2. ~In(L, x)
      BY <3>1 DEF In
    <3>3. x \in Memory /\ x \notin Heads /\ x # Null
      BY ListAssumption DEF Memory
    <3>4. \A j \in 0 .. n + 1 : At(k, L, h, j) # x
      <4> TAKE j \in 0 .. n + 1
      <4>1. j = 0 \/ j \in 1 .. n \/ j = n + 1
        BY <1>3
      <4>2. /\ At(k, L, h, 0) = h /\ At(k, L, h, n + 1) \notin Elems
            /\ \A y \in 1 .. n : At(k, L, h, y) = L[h][y]
        BY <1>1, <1>2, AtRules DEF n
      <4> QED
        BY <1>2, <3>1, <3>3, <4>1, <4>2 DEF n
    <3>5. x # At(k, L, h, p - 1) /\ x # At(k, L, h, p + 1)
      BY <1>3, <3>4
    <3>6. nx2[x] = nx[x] /\ pv2[x] = pv[x]
      BY <1>2, <2>2, <3>3, <3>5
    <3> QED
      BY <1>1, <3>2, <3>6
  <2> QED
    BY <2>1, <2>2
<1> QED
  BY <1>1, <1>2, <1>8, <1>9, <1>10, <1>11 DEF Shape

-----------------------------------------------------------------------------
(* Moving a list in front of another *)

Moved(nx, pv, L, l, h, nx2, pv2, L2) ==
  LET first == At("list", L, l, 1)
      last  == At("list", L, l, Len(L[l]))
      next1 == At("list", L, h, 1)
  IN  /\ l \in Heads /\ h \in Heads /\ l # h /\ Len(L[l]) >= 1
      /\ nx2 \in Links /\ nx2[h] = first /\ nx2[last] = next1 /\ nx2[l] = l
      /\ \A m \in Memory : m \notin {h, last, l} => nx2[m] = nx[m]
      /\ pv2 \in Links /\ pv2[first] = h /\ pv2[next1] = last /\ pv2[l] = l
      /\ \A m \in Memory : m \notin {first, next1, l} => pv2[m] = pv[m]
      /\ L2 \in [Heads -> Seq(Elems)] /\ L2[l] = <<>> /\ L2[h] = L[l] \o L[h]
      /\ \A g \in Heads : g # h /\ g # l => L2[g] = L[g]

Emptied(L, l, h, L2) ==
  /\ Len(L2[l]) = 0 /\ At("list", L2, l, 0) = l /\ At("list", L2, l, 1) = l
  /\ Len(L2[h]) = Len(L[l]) + Len(L[h])
  /\ \A i \in 1 .. Len(L[l]) + Len(L[h]) :
       L2[h][i] = IF i <= Len(L[l]) THEN L[l][i] ELSE L[h][i - Len(L[l])]
  /\ \A i \in 0 .. Len(L[l]) + Len(L[h]) + 1 :
       At("list", L2, h, i) = IF i = 0 THEN h
                              ELSE IF i <= Len(L[l]) THEN At("list", L, l, i)
                              ELSE At("list", L, h, i - Len(L[l]))
  /\ \A g \in Heads : g # h /\ g # l =>
       /\ Len(L2[g]) = Len(L[g]) /\ \A i \in Nat : At("list", L2, g, i) = At("list", L, g, i)

LEMMA ConcatRules ==
  ASSUME NEW a \in Seq(Elems), NEW b \in Seq(Elems)
  PROVE  /\ a \o b \in Seq(Elems) /\ Len(a \o b) = Len(a) + Len(b)
         /\ \A i \in 1 .. Len(a) + Len(b) :
              (a \o b)[i] = IF i <= Len(a) THEN a[i] ELSE b[i - Len(a)]
<1>1. a \o b \in Seq(Elems) /\ Len(a \o b) = Len(a) + Len(b)
  OBVIOUS
<1>2. \A i \in 1 .. Len(a) + Len(b) :
        (a \o b)[i] = IF i <= Len(a) THEN a[i] ELSE b[i - Len(a)]
  OBVIOUS
<1> QED
  BY <1>1, <1>2

LEMMA MovedNodes ==
  ASSUME NEW nx, NEW pv, NEW L, L \in [Heads -> Seq(Elems)], NEW l, NEW h,
         NEW nx2, NEW pv2, NEW L2, Moved(nx, pv, L, l, h, nx2, pv2, L2)
  PROVE  Emptied(L, l, h, L2)
<1> DEFINE a == Len(L[l])
           b == Len(L[h])
<1>1. /\ l \in Heads /\ h \in Heads /\ a >= 1 /\ L2[l] = <<>> /\ L2[h] = L[l] \o L[h]
      /\ \A g \in Heads : g # h /\ g # l => L2[g] = L[g]
  BY DEF Moved
<1>2. a \in Nat /\ b \in Nat /\ L[l] \in Seq(Elems) /\ L[h] \in Seq(Elems)
  BY <1>1
<1>3. /\ Len(L2[h]) = a + b
      /\ \A i \in 1 .. a + b : L2[h][i] = IF i <= a THEN L[l][i] ELSE L[h][i - a]
  BY <1>1, <1>2, ConcatRules
<1>4. Len(L2[l]) = 0 /\ At("list", L2, l, 0) = l /\ At("list", L2, l, 1) = l
  <2>1. Len(L2[l]) = 0
    BY <1>1
  <2> QED
    BY <2>1 DEF At, Node, EndOf
<1> HIDE DEF a, b
<1>5. ASSUME NEW i \in 0 .. a + b + 1
      PROVE  At("list", L2, h, i) = IF i = 0 THEN h
                                    ELSE IF i <= a THEN At("list", L, l, i)
                                    ELSE At("list", L, h, i - a)
  <2>0. i \in Int /\ 0 <= i /\ i <= a + b + 1
    BY <1>2
  <2>1. CASE i = 0
    BY <2>1 DEF At, Node
  <2>9. Len(L2[h]) = a + b
    BY <1>3
  <2>2. CASE i # 0 /\ i <= a
    <3>1. i \in 1 .. a + b /\ i <= a + b
      BY <1>2, <2>0, <2>2
    <3>2. L2[h][i] = L[l][i]
      BY <1>3, <2>2, <3>1
    <3>3. i <= Len(L2[h]) /\ i <= Len(L[l])
      BY <2>2, <2>9, <3>1 DEF a
    <3> QED
      BY <2>2, <3>2, <3>3 DEF At, Node
  <2>3. CASE i # 0 /\ ~(i <= a) /\ i <= a + b
    <3>1. i \in 1 .. a + b /\ i - a <= b /\ i - a # 0
      BY <1>2, <2>0, <2>3
    <3>2. L2[h][i] = L[h][i - a]
      BY <1>3, <2>3, <3>1
    <3>3. i <= Len(L2[h]) /\ i - a <= Len(L[h])
      BY <2>3, <2>9, <3>1 DEF b
    <3> QED
      BY <2>3, <3>1, <3>2, <3>3 DEF At, Node
  <2>4. CASE i = a + b + 1
    <3>1. i # 0 /\ ~(i <= a) /\ ~(i <= a + b) /\ ~(i - a <= b) /\ i - a # 0
      BY <1>2, <2>0, <2>4
    <3>2. ~(i <= Len(L2[h])) /\ ~(i - a <= Len(L[h]))
      BY <2>9, <3>1 DEF b
    <3> QED
      BY <3>1, <3>2 DEF At, Node
  <2>5. i <= a + b \/ i = a + b + 1
    BY <1>2, <2>0
  <2> QED
    BY <2>1, <2>2, <2>3, <2>4, <2>5
<1>6. \A g \in Heads : g # h /\ g # l =>
        Len(L2[g]) = Len(L[g]) /\ \A i \in Nat : At("list", L2, g, i) = At("list", L, g, i)
  BY <1>1 DEF At
<1> QED
  BY <1>3, <1>4, <1>5, <1>6 DEF Emptied, a, b

LEMMA MovedShape ==
  ASSUME NEW nx, NEW pv, NEW L, Shape("list", nx, pv, L), NEW l, NEW h,
         NEW nx2, NEW pv2, NEW L2, Moved(nx, pv, L, l, h, nx2, pv2, L2)
  PROVE  Shape("list", nx2, pv2, L2)
<1>0. Emptied(L, l, h, L2)
  <2>1. L \in [Heads -> Seq(Elems)]
    BY DEF Shape
  <2> QED
    BY <2>1, MovedNodes
<1> DEFINE a == Len(L[l])
           b == Len(L[h])
           N(g, i) == At("list", L, g, i)
           N2(g, i) == At("list", L2, g, i)
<1>1. /\ L \in [Heads -> Seq(Elems)] /\ Apart(L)
      /\ \A g \in Heads : \A i \in 0 .. Len(L[g]) : nx[N(g, i)] = N(g, i + 1)
      /\ \A g \in Heads : \A i \in 0 .. Len(L[g]) : pv[N(g, i + 1)] = N(g, i)
      /\ \A x \in Elems : ~In(L, x) => nx[x] = Null /\ pv[x] = Null
  BY DEF Shape, Mirrored
<1>2. /\ l \in Heads /\ h \in Heads /\ l # h /\ a >= 1
      /\ nx2 \in Links /\ nx2[h] = N(l, 1) /\ nx2[N(l, a)] = N(h, 1) /\ nx2[l] = l
      /\ \A m \in Memory : m # h /\ m # N(l, a) /\ m # l => nx2[m] = nx[m]
      /\ pv2 \in Links /\ pv2[N(l, 1)] = h /\ pv2[N(h, 1)] = N(l, a) /\ pv2[l] = l
      /\ \A m \in Memory : m # N(l, 1) /\ m # N(h, 1) /\ m # l => pv2[m] = pv[m]
      /\ L2 \in [Heads -> Seq(Elems)]
      /\ \A g \in Heads : g # h /\ g # l => L2[g] = L[g]
  BY DEF Moved
<1>3. a \in Nat /\ b \in Nat /\ a \in 0 .. a /\ 1 \in 1 .. a
  BY <1>1, <1>2
<1>4. /\ Len(L2[l]) = 0 /\ N2(l, 0) = l /\ N2(l, 1) = l /\ Len(L2[h]) = a + b
      /\ \A i \in 1 .. a + b : L2[h][i] = IF i <= a THEN L[l][i] ELSE L[h][i - a]
      /\ \A i \in 0 .. a + b + 1 :
           N2(h, i) = IF i = 0 THEN h ELSE IF i <= a THEN N(l, i) ELSE N(h, i - a)
      /\ \A g \in Heads : g # h /\ g # l =>
           Len(L2[g]) = Len(L[g]) /\ \A i \in Nat : N2(g, i) = N(g, i)
  BY <1>0 DEF Emptied
<1>5. /\ \A g \in Heads : N(g, 0) = g /\ N(g, Len(L[g]) + 1) = g
      /\ \A g \in Heads : \A i \in 1 .. Len(L[g]) : N(g, i) = L[g][i]
      /\ \A g \in Heads : \A i \in 0 .. Len(L[g]) : N(g, i) \in Memory
  BY <1>1, AtRules DEF EndOf
<1>6. \A f, g \in Heads : \A i \in 0 .. Len(L[f]), j \in 0 .. Len(L[g]) :
        N(f, i) = N(g, j) => f = g /\ i = j
  <2>1. Separate("list", L)
    BY <1>1, AllSeparate
  <2> QED
    BY <2>1 DEF Separate
<1>7. \A f, g \in Heads : \A i \in 0 .. Len(L[f]), j \in 0 .. Len(L[g]) :
        N(f, i + 1) \in Memory /\ (N(f, i + 1) = N(g, j + 1) => f = g /\ i = j)
  <2> TAKE f, g \in Heads
  <2> TAKE i \in 0 .. Len(L[f]), j \in 0 .. Len(L[g])
  <2>1. Mirrored("list", i, Len(L[f]))
    BY DEF Mirrored
  <2>2. Separate("list", L)
    BY <1>1, AllSeparate
  <2> QED
    BY <2>1, <2>2 DEF Separate
<1> HIDE DEF a, b, N, N2
\* Which links change: those from h, from the last node of l, and from l; and the
\* links back from the nodes behind h, behind l, and from l.
<1>8. ASSUME NEW g \in Heads, NEW i \in 0 .. Len(L[g]),
             ~(g = h /\ i = 0), ~(g = l /\ i = 0), ~(g = l /\ i = a)
      PROVE  nx2[N(g, i)] = N(g, i + 1)
  <2>1. N(g, i) # h /\ N(g, i) # l
    <3>1. 0 \in 0 .. Len(L[h]) /\ 0 \in 0 .. Len(L[l]) /\ N(h, 0) = h /\ N(l, 0) = l
      BY <1>2, <1>3, <1>5 DEF a, b
    <3> QED
      BY <1>2, <1>6, <1>8, <3>1
  <2>2. N(g, i) # N(l, a)
    BY <1>2, <1>3, <1>6, <1>8 DEF a
  <2>3. N(g, i) \in Memory
    BY <1>5
  <2> QED
    BY <1>1, <1>2, <2>1, <2>2, <2>3
<1>9. ASSUME NEW g \in Heads, NEW i \in 0 .. Len(L[g]),
             ~(g = h /\ i = 0), ~(g = l /\ i = 0), ~(g = l /\ i = a)
      PROVE  pv2[N(g, i + 1)] = N(g, i)
  <2>1. N(g, i + 1) # N(h, 1) /\ N(g, i + 1) # N(l, 1)
    <3>1. 0 \in 0 .. Len(L[h]) /\ 0 \in 0 .. Len(L[l]) /\ 0 + 1 = 1
      BY <1>3 DEF a, b
    <3> QED
      BY <1>2, <1>7, <1>8, <1>9, <3>1
  <2>2. N(g, i + 1) # l
    <3>1. N(l, a + 1) = l /\ a \in 0 .. Len(L[l])
      BY <1>2, <1>3, <1>5 DEF a
    <3> QED
      BY <1>2, <1>7, <1>9, <3>1
  <2>3. N(g, i + 1) \in Memory
    BY <1>7
  <2> QED
    BY <1>1, <1>2, <2>1, <2>2, <2>3
<1>10. Apart(L2)
  <2> DEFINE From(g, i) == IF g = h /\ i <= a THEN l ELSE g
             Old(g, i) == IF g = h /\ i > a THEN i - a ELSE i
  <2>1. ASSUME NEW g \in Heads, NEW i \in 1 .. Len(L2[g])
        PROVE  /\ g # l /\ From(g, i) \in Heads /\ Old(g, i) \in 1 .. Len(L[From(g, i)])
               /\ L2[g][i] = L[From(g, i)][Old(g, i)]
    <3>0. g # l
      BY <1>4
    <3>1. CASE g # h
      BY <1>2, <3>0, <3>1
    <3>2. CASE g = h
      <4>1. i \in 1 .. a + b /\ i \in Int
        BY <1>4, <3>2
      <4>2. CASE i <= a
        <5>1. i \in 1 .. a /\ ~(i > a) /\ L2[h][i] = L[l][i]
          BY <1>3, <1>4, <4>1, <4>2
        <5> QED
          BY <1>2, <3>0, <3>2, <4>2, <5>1 DEF a
      <4>3. CASE ~(i <= a)
        <5>1. i - a \in 1 .. b /\ i > a /\ L2[h][i] = L[h][i - a]
          BY <1>3, <1>4, <4>1, <4>3
        <5> QED
          BY <3>0, <3>2, <4>3, <5>1 DEF b
      <4> QED
        BY <4>2, <4>3
    <3> QED
      BY <3>1, <3>2
  <2>2. ASSUME NEW f \in Heads, NEW g \in Heads, NEW i \in 1 .. Len(L2[f]), NEW j \in 1 .. Len(L2[g]),
               L2[f][i] = L2[g][j]
        PROVE  f = g /\ i = j
    <3>1. /\ f # l /\ From(f, i) \in Heads /\ Old(f, i) \in 1 .. Len(L[From(f, i)])
          /\ L2[f][i] = L[From(f, i)][Old(f, i)]
          /\ g # l /\ From(g, j) \in Heads /\ Old(g, j) \in 1 .. Len(L[From(g, j)])
          /\ L2[g][j] = L[From(g, j)][Old(g, j)]
      <4> HIDE DEF From, Old
      <4> QED
        BY <2>1
    <3>2. From(f, i) = From(g, j) /\ Old(f, i) = Old(g, j)
      <4> HIDE DEF From, Old
      <4>1. Apart(L) /\ L[From(f, i)][Old(f, i)] = L[From(g, j)][Old(g, j)]
        BY <1>1, <2>2, <3>1
      <4>2. /\ From(f, i) \in Heads /\ Old(f, i) \in 1 .. Len(L[From(f, i)])
            /\ From(g, j) \in Heads /\ Old(g, j) \in 1 .. Len(L[From(g, j)])
        BY <3>1
      <4>3. PICK x, y, c, d : x = From(f, i) /\ y = From(g, j) /\ c = Old(f, i) /\ d = Old(g, j)
        OBVIOUS
      <4>4. /\ x \in Heads /\ c \in 1 .. Len(L[x]) /\ y \in Heads /\ d \in 1 .. Len(L[y])
            /\ L[x][c] = L[y][d]
        BY <4>1, <4>2, <4>3
      <4>5. x = y /\ c = d
        BY <4>1, <4>4 DEF Apart
      <4> QED
        BY <4>3, <4>5
    <3>3. i \in Int /\ j \in Int
      OBVIOUS
    <3>4. f = g
      BY <1>2, <3>1, <3>2, <3>3
    <3>5. f = h => (i <= a <=> j <= a)
      BY <1>2, <3>2, <3>4
    <3> QED
      BY <1>3, <3>2, <3>3, <3>4, <3>5
  <2> QED
    BY <2>2 DEF Apart
<1>11. ASSUME NEW g \in Heads, NEW i \in 0 .. Len(L2[g])
       PROVE  nx2[N2(g, i)] = N2(g, i + 1) /\ pv2[N2(g, i + 1)] = N2(g, i)
  <2>1. CASE g # h /\ g # l
    <3>1. i \in 0 .. Len(L[g]) /\ i \in Nat /\ i + 1 \in Nat
      BY <1>4, <2>1
    <3>2. N2(g, i) = N(g, i) /\ N2(g, i + 1) = N(g, i + 1)
      BY <1>4, <2>1, <3>1
    <3> QED
      BY <1>8, <1>9, <2>1, <3>1, <3>2
  <2>2. CASE g = l
    <3>1. i = 0 /\ i + 1 = 1
      BY <1>4, <2>2
    <3> QED
      BY <1>2, <1>4, <2>2, <3>1
  <2>3. CASE g = h
    <3>1. i \in 0 .. a + b /\ i \in Int /\ i + 1 \in 0 .. a + b + 1 /\ i \in 0 .. a + b + 1
          /\ i + 1 # 0
      BY <1>3, <1>4, <2>3
    <3>2. CASE i = 0
      <4>1. N2(h, i) = h /\ N2(h, i + 1) = N(l, 1)
        BY <1>2, <1>3, <1>4, <3>1, <3>2
      <4> QED
        BY <1>2, <2>3, <4>1
    <3>3. CASE i # 0 /\ i < a
      <4>1. N2(h, i) = N(l, i) /\ N2(h, i + 1) = N(l, i + 1)
        BY <1>3, <1>4, <3>1, <3>3
      <4>2. i \in 0 .. Len(L[l]) /\ i # 0 /\ i # a
        BY <1>3, <3>1, <3>3 DEF a
      <4> QED
        BY <1>2, <1>8, <1>9, <2>3, <4>1, <4>2
    <3>4. CASE i = a
      <4>1. i <= a /\ i # 0 /\ ~(i + 1 <= a) /\ (i + 1) - a = 1
        BY <1>2, <1>3, <3>4
      <4>2. N2(h, i) = N(l, a) /\ N2(h, i + 1) = N(h, 1)
        BY <1>4, <3>1, <3>4, <4>1
      <4> QED
        BY <1>2, <2>3, <4>2
    <3>5. CASE i > a
      <4>1. PICK j \in 1 .. b : j = i - a /\ j + 1 = (i + 1) - a
        BY <1>3, <3>1, <3>5
      <4>2. ~(i <= a) /\ i # 0 /\ ~(i + 1 <= a)
        BY <1>2, <1>3, <3>1, <3>5
      <4>3. N2(h, i) = N(h, j) /\ N2(h, i + 1) = N(h, j + 1)
        BY <1>4, <3>1, <4>1, <4>2
      <4>4. j \in 0 .. Len(L[h]) /\ j # 0
        BY <1>3 DEF b
      <4> QED
        BY <1>2, <1>8, <1>9, <2>3, <4>3, <4>4
    <3> QED
      BY <1>3, <3>1, <3>2, <3>3, <3>4, <3>5
  <2> QED
    BY <2>1, <2>2, <2>3
<1>12. ASSUME NEW x \in Elems, ~In(L2, x) PROVE nx2[x] = Null /\ pv2[x] = Null
  <2>1. \A g \in Heads : \A i \in 1 .. Len(L[g]) : L[g][i] # x
    <3> SUFFICES ASSUME NEW g \in Heads, NEW i \in 1 .. Len(L[g]), L[g][i] = x PROVE FALSE
      OBVIOUS
    <3>1. CASE g # h /\ g # l
      BY <1>2, <1>12, <3>1 DEF In
    <3>2. CASE g = l
      <4>1. i \in 1 .. Len(L2[h]) /\ L2[h][i] = x
        BY <1>3, <1>4, <3>2 DEF a
      <4> QED
        BY <1>2, <1>12, <4>1 DEF In
    <3>3. CASE g = h
      <4>1. PICK j \in 1 .. a + b : j = i + a
        BY <1>3, <3>3 DEF b
      <4>2. ~(j <= a) /\ j - a = i
        BY <1>3, <4>1
      <4>3. j \in 1 .. Len(L2[h]) /\ L2[h][j] = x
        BY <1>4, <3>3, <4>2
      <4> QED
        BY <1>2, <1>12, <4>3 DEF In
    <3> QED
      BY <3>1, <3>2, <3>3
  <2>2. ~In(L, x)
    BY <2>1 DEF In
  <2>3. x \in Memory /\ x # l /\ x # h
    BY <1>2, ListAssumption DEF Memory
  <2>4. x # N(l, 1) /\ x # N(l, a)
    <3>1. 1 \in 1 .. a /\ a \in 1 .. a
      BY <1>3
    <3>2. N(l, 1) = L[l][1] /\ N(l, a) = L[l][a]
      BY <1>2, <1>5, <3>1 DEF a
    <3>3. L[l][1] # x /\ L[l][a] # x
      BY <1>2, <2>1, <3>1 DEF a
    <3> QED
      BY <3>2, <3>3
  <2>5. x # N(h, 1)
    <3>1. b = 0 \/ 1 \in 1 .. b
      BY <1>3
    <3>2. b = 0 => N(h, 1) = h
      BY <1>2, <1>5 DEF b
    <3>3. 1 \in 1 .. b => N(h, 1) = L[h][1]
      BY <1>2, <1>5 DEF b
    <3> QED
      BY <1>2, <2>1, <2>3, <3>1, <3>2, <3>3 DEF b
  <2>6. nx2[x] = nx[x] /\ pv2[x] = pv[x]
    BY <1>2, <2>3, <2>4, <2>5
  <2> QED
    BY <1>1, <2>2, <2>6
<1>13. /\ \A g \in Heads : \A i \in 0 .. Len(L2[g]) : nx2[N2(g, i)] = N2(g, i + 1)
       /\ \A g \in Heads : \A i \in 0 .. Len(L2[g]) : pv2[N2(g, i + 1)] = N2(g, i)
  BY <1>11
<1> QED
  BY <1>2, <1>10, <1>12, <1>13 DEF Shape, N2

-----------------------------------------------------------------------------
(* The assignments of list.h *)

\* What follows a list, and what its nodes link to.
LEMMA ShapeLinks ==
  ASSUME NEW k, NEW nx, NEW pv, NEW L, Shape(k, nx, pv, L), NEW h \in Heads
  PROVE  /\ L \in [Heads -> Seq(Elems)] /\ L[h] \in Seq(Elems) /\ Len(L[h]) \in Nat
         /\ nx[h] = At(k, L, h, 1)
         /\ k = "list" => pv[h] = At(k, L, h, Len(L[h]))
         /\ \A i \in 0 .. Len(L[h]) :
              /\ At(k, L, h, i) \in Memory /\ At(k, L, h, i + 1) \in Memory \cup {Null}
              /\ nx[At(k, L, h, i)] = At(k, L, h, i + 1)
              /\ k = "list" => At(k, L, h, i + 1) \in Memory
         /\ \A i \in 1 .. Len(L[h]) :
              /\ At(k, L, h, i) = L[h][i] /\ L[h][i] \in Elems /\ In(L, L[h][i])
              /\ nx[L[h][i]] = At(k, L, h, i + 1)
              /\ k \in {"list", "hlist"} => pv[L[h][i]] = At(k, L, h, i - 1)
<1> DEFINE n == Len(L[h])
<1>1. /\ L \in [Heads -> Seq(Elems)] /\ Apart(L) /\ nx \in Links /\ k \in {"list", "slist", "hlist"}
      /\ \A i \in 0 .. n : nx[At(k, L, h, i)] = At(k, L, h, i + 1)
      /\ \A i \in 0 .. n : Mirrored(k, i, n) => pv[At(k, L, h, i + 1)] = At(k, L, h, i)
  BY DEF Shape
<1>2. /\ n \in Nat /\ At(k, L, h, 0) = h /\ At(k, L, h, n + 1) = EndOf(k, h)
      /\ \A i \in 1 .. n : At(k, L, h, i) = L[h][i] /\ L[h][i] \in Elems /\ In(L, L[h][i])
      /\ \A i \in 0 .. n : At(k, L, h, i) \in Memory
  BY <1>1, AtRules
<1>3. L[h] \in Seq(Elems)
  BY <1>1
<1> HIDE DEF n
<1>4. nx[h] = At(k, L, h, 1)
  <2>1. 0 \in 0 .. n /\ 0 + 1 = 1
    BY <1>2
  <2> QED
    BY <1>1, <1>2, <2>1
<1>5. ASSUME k = "list" PROVE pv[h] = At(k, L, h, n)
  <2>1. n \in 0 .. n /\ Mirrored(k, n, n) /\ EndOf(k, h) = h
    BY <1>2, <1>5 DEF Mirrored, EndOf
  <2> QED
    BY <1>1, <1>2, <2>1
<1>6. ASSUME NEW i \in 0 .. n
      PROVE  /\ At(k, L, h, i + 1) \in Memory \cup {Null}
             /\ k = "list" => At(k, L, h, i + 1) \in Memory
  <2>1. i + 1 \in 0 .. n \/ i = n
    BY <1>2
  <2>2. EndOf(k, h) \in Memory \cup {Null} /\ (k = "list" => EndOf(k, h) \in Memory)
    BY DEF EndOf, Memory
  <2> QED
    BY <1>2, <2>1, <2>2
<1>7. ASSUME NEW i \in 1 .. n
      PROVE  /\ nx[L[h][i]] = At(k, L, h, i + 1)
             /\ k \in {"list", "hlist"} => pv[L[h][i]] = At(k, L, h, i - 1)
  <2>1. i \in 0 .. n /\ i - 1 \in 0 .. n /\ (i - 1) + 1 = i /\ i - 1 < n
    BY <1>2
  <2>2. k \in {"list", "hlist"} => Mirrored(k, i - 1, n)
    BY <2>1 DEF Mirrored
  <2>3. nx[L[h][i]] = At(k, L, h, i + 1)
    BY <1>1, <1>2, <2>1
  <2>4. ASSUME k \in {"list", "hlist"} PROVE pv[L[h][i]] = At(k, L, h, i - 1)
    <3>1. PICK j \in 0 .. n : j = i - 1 /\ j + 1 = i /\ Mirrored(k, j, n)
      BY <2>1, <2>2, <2>4
    <3>2. pv[At(k, L, h, j + 1)] = At(k, L, h, j)
      BY <1>1, <3>1
    <3> QED
      BY <1>2, <3>1, <3>2
  <2> QED
    BY <2>3, <2>4
<1> QED
  BY <1>1, <1>2, <1>3, <1>4, <1>5, <1>6, <1>7 DEF n

\* __list_add, slist_add and hlist_add, between the nodes p and p + 1.
BackAdded(k, pv, e, p, n, pv2) ==
  \/ k = "list" /\ pv2 = [pv EXCEPT ![e] = p, ![n] = e]
  \/ k = "slist" /\ pv2 = pv
  \/ /\ k = "hlist"
     /\ pv2 = [m \in DOMAIN pv |-> IF m = e THEN p ELSE IF m = n THEN e ELSE pv[m]]

LEMMA AddShape ==
  ASSUME NEW k, NEW nx, NEW pv, NEW L, Shape(k, nx, pv, L), NEW h \in Heads,
         NEW p \in 0 .. Len(L[h]), NEW e \in Elems, ~In(L, e), NEW nx2, NEW pv2,
         nx2 = [nx EXCEPT ![e] = At(k, L, h, p + 1), ![At(k, L, h, p)] = e],
         BackAdded(k, pv, e, At(k, L, h, p), At(k, L, h, p + 1), pv2)
  PROVE  Shape(k, nx2, pv2, [L EXCEPT ![h] = Insert(L[h], p, e)])
<1> DEFINE a == At(k, L, h, p)
           b == At(k, L, h, p + 1)
           L2 == [L EXCEPT ![h] = Insert(L[h], p, e)]
<1>1. nx \in Links /\ pv \in Links /\ k \in {"list", "slist", "hlist"}
  BY DEF Shape
<1>2. /\ L \in [Heads -> Seq(Elems)] /\ L[h] \in Seq(Elems) /\ Len(L[h]) \in Nat
      /\ a \in Memory /\ b \in Memory \cup {Null} /\ (k = "list" => b \in Memory)
  BY ShapeLinks
<1>3. \A i \in 1 .. Len(L[h]) : At(k, L, h, i) # e
  <2>1. \A i \in 1 .. Len(L[h]) : At(k, L, h, i) = L[h][i] /\ In(L, L[h][i])
    BY ShapeLinks
  <2> QED
    BY <2>1
<1>4. a # e
  <2>1. p = 0 \/ p \in 1 .. Len(L[h])
    BY <1>2
  <2>2. At(k, L, h, 0) = h /\ h # e
    BY <1>2, AtRules, ListAssumption
  <2> QED
    BY <1>3, <2>1, <2>2
<1>5. b # e
  <2>1. p + 1 \in 1 .. Len(L[h]) \/ p = Len(L[h])
    BY <1>2
  <2>2. At(k, L, h, Len(L[h]) + 1) \notin Elems
    BY <1>2, AtRules
  <2> QED
    BY <1>3, <2>1, <2>2
<1>6. e \in Memory /\ Null \notin Memory
  BY ListAssumption DEF Memory
<1> HIDE DEF a, b
<1>7. nx2 = [nx EXCEPT ![e] = b, ![a] = e]
  BY DEF a, b
<1>8. /\ nx2 \in Links /\ nx2[e] = b /\ nx2[a] = e
      /\ \A m \in Memory : m # e /\ m # a => nx2[m] = nx[m]
  BY <1>1, <1>2, <1>4, <1>6, <1>7 DEF Links
<1>9. BackAdded(k, pv, e, a, b, pv2)
  BY DEF a, b
<1>10. /\ pv2 \in Links /\ (k = "slist" => pv2 = pv)
       /\ k # "slist" =>
            /\ pv2[e] = a /\ (b # Null => pv2[b] = e)
            /\ \A m \in Memory : m # e /\ m # b => pv2[m] = pv[m]
  <2>1. CASE k = "list"
    <3>1. pv2 = [pv EXCEPT ![e] = a, ![b] = e] /\ b \in Memory
      BY <1>2, <1>9, <2>1 DEF BackAdded
    <3> QED
      BY <1>1, <1>2, <1>5, <1>6, <2>1, <3>1 DEF Links
  <2>2. CASE k = "slist"
    BY <1>1, <1>9, <2>2 DEF BackAdded
  <2>3. CASE k = "hlist"
    <3>1. pv2 = [m \in DOMAIN pv |-> IF m = e THEN a ELSE IF m = b THEN e ELSE pv[m]]
      BY <1>9, <2>3 DEF BackAdded
    <3>2. DOMAIN pv = Memory
      BY <1>1 DEF Links
    <3> QED
      BY <1>1, <1>2, <1>5, <1>6, <2>3, <3>1, <3>2 DEF Links
  <2> QED
    BY <1>1, <2>1, <2>2, <2>3
<1>11. /\ L2 \in [Heads -> Seq(Elems)] /\ L2[h] = Insert(L[h], p, e)
       /\ \A g \in Heads : g # h => L2[g] = L[g]
  <2>1. Insert(L[h], p, e) \in Seq(Elems)
    BY <1>2, InsertRules
  <2> QED
    BY <1>2, <2>1
<1> HIDE DEF L2
<1>12. Joined(k, nx, pv, L, h, p, e, nx2, pv2, L2)
  BY <1>8, <1>10, <1>11 DEF Joined, a, b
<1>13. Shape(k, nx2, pv2, L2)
  BY <1>12, JoinedShape
<1> QED
  BY <1>13 DEF L2

\* list_del, slist_del and hlist_del of node p.
BackTaken(k, pv, e, p, n, pv2) ==
  \/ k = "list" /\ pv2 = [pv EXCEPT ![n] = p, ![e] = Null]
  \/ k = "slist" /\ pv2 = pv
  \/ /\ k = "hlist"
     /\ pv2 = [m \in DOMAIN pv |-> IF m = e THEN Null ELSE IF m = n THEN p ELSE pv[m]]

LEMMA DelShape ==
  ASSUME NEW k, NEW nx, NEW pv, NEW L, Shape(k, nx, pv, L), NEW h \in Heads,
         NEW p \in 1 .. Len(L[h]), NEW nx2, NEW pv2,
         nx2 = [nx EXCEPT ![At(k, L, h, p - 1)] = At(k, L, h, p + 1), ![At(k, L, h, p)] = Null],
         BackTaken(k, pv, At(k, L, h, p), At(k, L, h, p - 1), At(k, L, h, p + 1), pv2)
  PROVE  Shape(k, nx2, pv2, [L EXCEPT ![h] = Drop(L[h], p)])
<1> DEFINE a == At(k, L, h, p - 1)
           e == At(k, L, h, p)
           b == At(k, L, h, p + 1)
           L2 == [L EXCEPT ![h] = Drop(L[h], p)]
<1>1. nx \in Links /\ pv \in Links /\ k \in {"list", "slist", "hlist"} /\ Apart(L)
  BY DEF Shape
<1>2. /\ L \in [Heads -> Seq(Elems)] /\ L[h] \in Seq(Elems) /\ Len(L[h]) \in Nat
      /\ \A i \in 0 .. Len(L[h]) :
           /\ At(k, L, h, i) \in Memory /\ At(k, L, h, i + 1) \in Memory \cup {Null}
           /\ k = "list" => At(k, L, h, i + 1) \in Memory
  BY ShapeLinks
<1>3. PICK q \in 0 .. Len(L[h]) : q = p - 1 /\ q + 1 = p /\ q # p
  BY <1>2
<1>4. p \in 0 .. Len(L[h])
  BY <1>2
<1>5. /\ a \in Memory /\ e \in Memory /\ b \in Memory \cup {Null} /\ (k = "list" => b \in Memory)
  BY <1>2, <1>3, <1>4
<1>6. a # e
  <2>0. Separate(k, L)
    BY <1>1, <1>2, AllSeparate
  <2>1. At(k, L, h, q) = At(k, L, h, p) => h = h /\ q = p
    BY <1>4, <2>0 DEF Separate
  <2> QED
    BY <1>3, <2>1
<1>7. b # e
  <2>1. p \in 1 .. Len(L[h]) /\ e = L[h][p] /\ e \in Elems
    BY <1>2, AtRules
  <2>2. CASE p = Len(L[h])
    BY <1>2, <2>1, <2>2, AtRules
  <2>3. CASE p # Len(L[h])
    <3>1. PICK r \in 0 .. Len(L[h]) : r = p + 1 /\ r # p
      BY <1>2, <2>3
    <3>0. Separate(k, L)
      BY <1>1, <1>2, AllSeparate
    <3>2. At(k, L, h, r) = At(k, L, h, p) => h = h /\ r = p
      BY <1>4, <3>0 DEF Separate
    <3> QED
      BY <3>1, <3>2
  <2> QED
    BY <2>2, <2>3
<1>8. Null \notin Memory
  BY ListAssumption DEF Memory
<1> HIDE DEF a, b, e
<1>9. nx2 = [nx EXCEPT ![a] = b, ![e] = Null] /\ BackTaken(k, pv, e, a, b, pv2)
  BY DEF a, b, e
<1>10. /\ nx2 \in Links /\ nx2[e] = Null /\ nx2[a] = b
       /\ \A m \in Memory : m # e /\ m # a => nx2[m] = nx[m]
  BY <1>1, <1>5, <1>6, <1>9 DEF Links
<1>11. /\ pv2 \in Links /\ (k = "slist" => pv2 = pv)
       /\ k # "slist" =>
            /\ pv2[e] = Null /\ (b # Null => pv2[b] = a)
            /\ \A m \in Memory : m # e /\ m # b => pv2[m] = pv[m]
  <2>1. CASE k = "list"
    <3>1. pv2 = [pv EXCEPT ![b] = a, ![e] = Null] /\ b \in Memory
      BY <1>5, <1>9, <2>1 DEF BackTaken
    <3> QED
      BY <1>1, <1>5, <1>7, <2>1, <3>1 DEF Links
  <2>2. CASE k = "slist"
    BY <1>1, <1>9, <2>2 DEF BackTaken
  <2>3. CASE k = "hlist"
    <3>1. pv2 = [m \in DOMAIN pv |-> IF m = e THEN Null ELSE IF m = b THEN a ELSE pv[m]]
      BY <1>9, <2>3 DEF BackTaken
    <3>2. DOMAIN pv = Memory
      BY <1>1 DEF Links
    <3> QED
      BY <1>1, <1>5, <1>7, <2>3, <3>1, <3>2 DEF Links
  <2> QED
    BY <1>1, <2>1, <2>2, <2>3
<1>12. /\ L2 \in [Heads -> Seq(Elems)] /\ L2[h] = Drop(L[h], p)
       /\ \A g \in Heads : g # h => L2[g] = L[g]
  <2>1. Drop(L[h], p) \in Seq(Elems)
    BY <1>2, DropRules
  <2> QED
    BY <1>2, <2>1
<1> HIDE DEF L2
<1>13. Left(k, nx, pv, L, h, p, nx2, pv2, L2)
  BY <1>10, <1>11, <1>12 DEF Left, a, b, e
<1>14. Shape(k, nx2, pv2, L2)
  BY <1>13, LeftShape
<1> QED
  BY <1>14 DEF L2

\* The nodes that list_splice links anew.
LEMMA SpliceNodes ==
  ASSUME NEW k, k = "list", NEW nx, NEW pv, NEW L, Shape(k, nx, pv, L),
         NEW l \in Heads, NEW h \in Heads, l # h, nx[l] # pv[l]
  PROVE  /\ Len(L[l]) >= 1
         /\ nx[l] = At(k, L, l, 1) /\ pv[l] = At(k, L, l, Len(L[l])) /\ nx[h] = At(k, L, h, 1)
         /\ nx[l] \in Elems /\ pv[l] \in Elems
         /\ nx[h] \in Memory /\ nx[h] # l /\ nx[h] # nx[l]
<1> DEFINE n == Len(L[l])
<1>1. Apart(L) /\ L \in [Heads -> Seq(Elems)]
  BY DEF Shape
<1>2. /\ n \in Nat /\ nx[l] = At(k, L, l, 1) /\ pv[l] = At(k, L, l, n) /\ nx[h] = At(k, L, h, 1)
  BY ShapeLinks
<1>3. /\ At(k, L, l, 0) = l /\ At(k, L, l, n + 1) = EndOf(k, l)
      /\ \A i \in 1 .. n : At(k, L, l, i) \in Elems
  BY <1>1, AtRules
<1>4. EndOf(k, l) = l
  BY DEF EndOf
<1>5. n >= 1
  <2>1. n # 0
    BY <1>2, <1>3, <1>4
  <2> QED
    BY <1>2, <2>1
<1>6. nx[l] \in Elems /\ pv[l] \in Elems
  <2>1. 1 \in 1 .. n /\ n \in 1 .. n
    BY <1>2, <1>5
  <2> QED
    BY <1>2, <1>3, <2>1
<1>7. nx[h] \in Memory /\ nx[h] # l /\ nx[h] # nx[l]
  <2>1. Len(L[h]) \in Nat
    BY <1>1
  <2>2. PICK z \in 0 .. Len(L[h]) : z = 0 /\ z + 1 = 1
    BY <2>1
  <2>3. z \in 0 .. Len(L[l]) /\ n \in 0 .. Len(L[l]) /\ Mirrored(k, z, Len(L[h]))
    BY <1>2, <2>2 DEF Mirrored
  <2>6. Separate(k, L)
    BY <1>1, AllSeparate
  <2>4. /\ At(k, L, h, z + 1) \in Memory
        /\ At(k, L, h, z + 1) = At(k, L, l, z + 1) => h = l /\ z = z
    BY <2>3, <2>6 DEF Separate
  <2>5. At(k, L, h, z + 1) = At(k, L, l, n + 1) => h = l /\ z = n
    BY <2>3, <2>6 DEF Separate
  <2> QED
    BY <1>2, <1>3, <1>4, <2>2, <2>4, <2>5
<1> QED
  BY <1>2, <1>5, <1>6, <1>7

\* list_splice of a list with more than one element.
LEMMA SpliceShape ==
  ASSUME NEW nx, NEW pv, NEW L, Shape("list", nx, pv, L), NEW l \in Heads, NEW h \in Heads,
         l # h, nx[l] # pv[l], NEW nx2, NEW pv2,
         nx2 = [nx EXCEPT ![h] = nx[l], ![pv[l]] = nx[h], ![l] = l],
         pv2 = [pv EXCEPT ![nx[l]] = h, ![nx[h]] = pv[l], ![l] = l]
  PROVE  Shape("list", nx2, pv2, [L EXCEPT ![l] = <<>>, ![h] = L[l] \o L[h]])
<1> DEFINE first == nx[l]
           last == pv[l]
           next1 == nx[h]
           L2 == [L EXCEPT ![l] = <<>>, ![h] = L[l] \o L[h]]
<1>1. nx \in Links /\ pv \in Links /\ L \in [Heads -> Seq(Elems)]
  BY DEF Shape
<1>2. PICK k : k = "list" /\ Shape(k, nx, pv, L)
  OBVIOUS
<1>3. /\ Len(L[l]) >= 1
      /\ first = At(k, L, l, 1) /\ last = At(k, L, l, Len(L[l])) /\ next1 = At(k, L, h, 1)
      /\ first \in Elems /\ last \in Elems
      /\ next1 \in Memory /\ next1 # l /\ next1 # first
  BY <1>2, SpliceNodes
<1>4. /\ Len(L[l]) >= 1 /\ first = At("list", L, l, 1) /\ last = At("list", L, l, Len(L[l]))
      /\ next1 = At("list", L, h, 1)
  BY <1>2, <1>3
<1>7. l \in Memory /\ h \in Memory /\ first \in Memory /\ last \in Memory
      /\ first # h /\ first # l /\ last # h /\ last # l
  BY <1>3, ListAssumption DEF Memory
<1> HIDE DEF first, last, next1
<1>8. nx2 = [nx EXCEPT ![h] = first, ![last] = next1, ![l] = l]
  BY DEF first, last, next1
<1>9. pv2 = [pv EXCEPT ![first] = h, ![next1] = last, ![l] = l]
  BY DEF first, last, next1
<1>10. /\ nx2 \in Links /\ nx2[h] = first /\ nx2[last] = next1 /\ nx2[l] = l
       /\ \A m \in Memory : m \notin {h, last, l} => nx2[m] = nx[m]
  BY <1>1, <1>3, <1>7, <1>8 DEF Links
<1>11. /\ pv2 \in Links /\ pv2[first] = h /\ pv2[next1] = last /\ pv2[l] = l
       /\ \A m \in Memory : m \notin {first, next1, l} => pv2[m] = pv[m]
  BY <1>1, <1>3, <1>7, <1>9 DEF Links
<1>12. /\ L2 \in [Heads -> Seq(Elems)] /\ L2[l] = <<>> /\ L2[h] = L[l] \o L[h]
       /\ \A g \in Heads : g # h /\ g # l => L2[g] = L[g]
  <2>1. L[l] \o L[h] \in Seq(Elems) /\ <<>> \in Seq(Elems)
    BY <1>1
  <2> QED
    BY <1>1, <2>1
<1> HIDE DEF L2
<1>13. Moved(nx, pv, L, l, h, nx2, pv2, L2)
  BY <1>4, <1>10, <1>11, <1>12 DEF Moved
<1>14. Shape("list", nx2, pv2, L2)
  BY <1>13, MovedShape
<1> QED
  BY <1>14 DEF L2

-----------------------------------------------------------------------------
(* The lists of a state *)

Lists == [h \in Heads |-> Items(h)]

LoopState ==
  [at : Heads \cup {Null, "fault"}, ptr : Memory \cup {Null}, ref : Memory \cup {Null},
   todo : Seq(Elems), seen : Seq(Elems)]

\* A loop has seen the first of what was on its list when it started; what is on the
\* list behind its first d elements is what it has to visit, and both pointers are there.
Spot(k, L, lp, d) ==
  /\ Len(L[lp.at]) - d = Len(lp.todo) - Len(lp.seen)
  /\ \A i \in 1 .. Len(L[lp.at]) - d : L[lp.at][d + i] = lp.todo[Len(lp.seen) + i]
  /\ lp.ptr = At(k, L, lp.at, d + 1)
  /\ d < Len(L[lp.at]) => lp.ref = At(k, L, lp.at, d + 2)

Visiting(k, L, lp) ==
  /\ lp.at \in Heads
  /\ \A i \in 1 .. Len(lp.seen) : lp.seen[i] = lp.todo[i]
  /\ \E d \in 0 .. Len(L[lp.at]) : Spot(k, L, lp, d)

Well == Shape(kind, next, prev, Lists)
LoopInv ==
  /\ loop \in LoopState
  /\ \/ loop = NoLoop
     \/ loop = [NoLoop EXCEPT !.at = "fault"] /\ kind = "hlist"
     \/ Visiting(kind, Lists, loop)

ListInv == Well /\ LoopInv

LEMMA LinkedIn ==
  ASSUME NEW e
  PROVE  Linked(e) <=> In(Lists, e)
BY DEF Linked, OnList, In, Lists, Contains

\* The lists behind a step are read off its links.
LEMMA ListsNext ==
  ASSUME NEW L, Shape(kind', next', prev', L)
  PROVE  Lists' = L /\ Well'
<1>1. [h \in Heads |-> Follow(next', h)] = L
  BY ShapeItems
<1>2. Lists' = [h \in Heads |-> Follow(next', h)]
  BY DEF Lists, Items
<1>3. Lists' = L
  BY <1>1, <1>2
<1>4. Well' <=> Shape(kind', next', prev', Lists')
  BY DEF Well
<1> QED
  BY <1>3, <1>4

-----------------------------------------------------------------------------
(* What the operations do to the lists *)

PutStep(h, p, e) ==
  /\ ~In(Lists, e) /\ p \in {0, Len(Lists[h])} /\ (kind = "slist" => p = 0)
  /\ Lists' = [Lists EXCEPT ![h] = Insert(Lists[h], p, e)]

TakeStep(h, p) ==
  /\ p \in 1 .. Len(Lists[h])
  /\ Lists' = [Lists EXCEPT ![h] = Drop(Lists[h], p)]

SpliceStep(l, h) ==
  /\ l # h /\ kind = "list"
  /\ Lists' = [Lists EXCEPT ![l] = <<>>, ![h] = Lists[l] \o Lists[h]]

LinkStep ==
  \/ Lists' = Lists
  \/ \E h \in Heads, e \in Elems : \E p \in {0, Len(Lists[h])} : PutStep(h, p, e)
  \/ \E h \in Heads : \E p \in 1 .. Len(Lists[h]) : TakeStep(h, p)
  \/ \E l, h \in Heads : SpliceStep(l, h)

AddLinks(h, p, e) ==
  /\ kind' = kind
  /\ next' = [next EXCEPT ![e] = At(kind, Lists, h, p + 1), ![At(kind, Lists, h, p)] = e]
  /\ BackAdded(kind, prev, e, At(kind, Lists, h, p), At(kind, Lists, h, p + 1), prev')

LEMMA AddStep ==
  ASSUME Well, NEW h \in Heads, NEW p \in 0 .. Len(Lists[h]), NEW e \in Elems, ~In(Lists, e),
         p \in {0, Len(Lists[h])}, kind = "slist" => p = 0, AddLinks(h, p, e)
  PROVE  Well' /\ PutStep(h, p, e)
<1>1. Shape(kind, next, prev, Lists)
  BY DEF Well
<1>2. Shape(kind, next', prev', [Lists EXCEPT ![h] = Insert(Lists[h], p, e)])
  BY <1>1, AddShape DEF AddLinks
<1>3. Well' /\ Lists' = [Lists EXCEPT ![h] = Insert(Lists[h], p, e)]
  BY <1>2, ListsNext DEF AddLinks
<1> QED
  BY <1>3 DEF PutStep

DelLinks(h, p) ==
  /\ kind' = kind
  /\ next' = [next EXCEPT ![At(kind, Lists, h, p - 1)] = At(kind, Lists, h, p + 1),
                          ![At(kind, Lists, h, p)] = Null]
  /\ BackTaken(kind, prev, At(kind, Lists, h, p), At(kind, Lists, h, p - 1),
               At(kind, Lists, h, p + 1), prev')

LEMMA DelStep ==
  ASSUME Well, NEW h \in Heads, NEW p \in 1 .. Len(Lists[h]), DelLinks(h, p)
  PROVE  Well' /\ TakeStep(h, p)
<1>1. Shape(kind, next, prev, Lists)
  BY DEF Well
<1>2. Shape(kind, next', prev', [Lists EXCEPT ![h] = Drop(Lists[h], p)])
  BY <1>1, DelShape DEF DelLinks
<1>3. Well' /\ Lists' = [Lists EXCEPT ![h] = Drop(Lists[h], p)]
  BY <1>2, ListsNext DEF DelLinks
<1> QED
  BY <1>3 DEF TakeStep

LEMMA SameStep ==
  ASSUME Well, kind' = kind, next' = next, prev' = prev
  PROVE  Well' /\ Lists' = Lists
<1>1. Shape(kind', next', prev', Lists)
  BY DEF Well
<1> QED
  BY <1>1, ListsNext

\* The links of the head and the nodes of a list.
LEMMA WellLinks ==
  ASSUME Well, NEW h \in Heads
  PROVE  /\ kind \in {"list", "slist", "hlist"}
         /\ Lists[h] = Items(h) /\ Lists[h] \in Seq(Elems) /\ Len(Lists[h]) \in Nat
         /\ At(kind, Lists, h, 0) = h /\ At(kind, Lists, h, Len(Lists[h]) + 1) = End(h)
         /\ next[h] = At(kind, Lists, h, 1)
         /\ kind = "list" => prev[h] = At(kind, Lists, h, Len(Lists[h]))
         /\ \A i \in 0 .. Len(Lists[h]) :
              /\ At(kind, Lists, h, i) \in Memory /\ At(kind, Lists, h, i + 1) \in Memory \cup {Null}
              /\ next[At(kind, Lists, h, i)] = At(kind, Lists, h, i + 1)
         /\ \A i \in 1 .. Len(Lists[h]) :
              /\ At(kind, Lists, h, i) = Lists[h][i] /\ Lists[h][i] \in Elems
              /\ next[Lists[h][i]] = At(kind, Lists, h, i + 1)
              /\ kind \in {"list", "hlist"} => prev[Lists[h][i]] = At(kind, Lists, h, i - 1)
<1>1. Shape(kind, next, prev, Lists)
  BY DEF Well
<1>2. PICK L : L = Lists
  OBVIOUS
<1>3. Shape(kind, next, prev, L)
  BY <1>1, <1>2
<1>4. /\ L \in [Heads -> Seq(Elems)] /\ L[h] \in Seq(Elems) /\ Len(L[h]) \in Nat
      /\ next[h] = At(kind, L, h, 1)
      /\ kind = "list" => prev[h] = At(kind, L, h, Len(L[h]))
      /\ \A i \in 0 .. Len(L[h]) :
           /\ At(kind, L, h, i) \in Memory /\ At(kind, L, h, i + 1) \in Memory \cup {Null}
           /\ next[At(kind, L, h, i)] = At(kind, L, h, i + 1)
      /\ \A i \in 1 .. Len(L[h]) :
           /\ At(kind, L, h, i) = L[h][i] /\ L[h][i] \in Elems
           /\ next[L[h][i]] = At(kind, L, h, i + 1)
           /\ kind \in {"list", "hlist"} => prev[L[h][i]] = At(kind, L, h, i - 1)
  BY <1>3, ShapeLinks
<1>5. At(kind, L, h, 0) = h /\ At(kind, L, h, Len(L[h]) + 1) = EndOf(kind, h)
  BY <1>4, AtRules
<1>6. EndOf(kind, h) = End(h)
  BY DEF EndOf, End
<1>7. kind \in {"list", "slist", "hlist"}
  BY <1>3 DEF Shape
<1>8. Lists[h] = Items(h)
  BY DEF Lists
<1> QED
  BY <1>2, <1>4, <1>5, <1>6, <1>7, <1>8

\* What one operation may do: as LinkStep, and the loop stays.
OpStep == Well' /\ kind' = kind /\ loop' = loop /\ LinkStep

LEMMA list_add_Step ==
  ASSUME Well, NEW h \in Heads, NEW e \in Elems, list_add(h, e)
  PROVE  OpStep
<1>1. /\ kind = "list" /\ ~Linked(e) /\ kind' = kind /\ loop' = loop
      /\ next' = [next EXCEPT ![e] = next[h], ![h] = e]
      /\ prev' = [prev EXCEPT ![e] = h, ![next[h]] = e]
  BY DEF list_add, list_add_at
<1>2. ~In(Lists, e)
  BY <1>1, LinkedIn
<1>3. PICK p \in 0 .. Len(Lists[h]) : p = 0 /\ p + 1 = 1
  BY WellLinks
<1>4. At(kind, Lists, h, p) = h /\ At(kind, Lists, h, p + 1) = next[h]
  BY <1>3, WellLinks
<1>5. next' = [next EXCEPT ![e] = At(kind, Lists, h, p + 1), ![At(kind, Lists, h, p)] = e]
  BY <1>1, <1>4
<1>6. BackAdded(kind, prev, e, At(kind, Lists, h, p), At(kind, Lists, h, p + 1), prev')
  BY <1>1, <1>4 DEF BackAdded
<1>7. AddLinks(h, p, e)
  BY <1>1, <1>5, <1>6 DEF AddLinks
<1>8. Well' /\ PutStep(h, p, e) /\ p \in {0, Len(Lists[h])}
  BY <1>1, <1>2, <1>3, <1>7, AddStep
<1> QED
  BY <1>1, <1>8 DEF OpStep, LinkStep

LEMMA list_add_tail_Step ==
  ASSUME Well, NEW h \in Heads, NEW e \in Elems, list_add_tail(h, e)
  PROVE  OpStep
<1>1. /\ kind = "list" /\ ~Linked(e) /\ kind' = kind /\ loop' = loop
      /\ next' = [next EXCEPT ![e] = h, ![prev[h]] = e]
      /\ prev' = [prev EXCEPT ![e] = prev[h], ![h] = e]
  BY DEF list_add_tail, list_add_at
<1>2. ~In(Lists, e)
  BY <1>1, LinkedIn
<1>3. PICK p \in 0 .. Len(Lists[h]) : p = Len(Lists[h])
  BY WellLinks
<1>4. At(kind, Lists, h, p) = prev[h] /\ At(kind, Lists, h, p + 1) = h
  <2>1. End(h) = h
    BY <1>1 DEF End
  <2> QED
    BY <1>1, <1>3, <2>1, WellLinks
<1>5. next' = [next EXCEPT ![e] = At(kind, Lists, h, p + 1), ![At(kind, Lists, h, p)] = e]
  BY <1>1, <1>4
<1>6. BackAdded(kind, prev, e, At(kind, Lists, h, p), At(kind, Lists, h, p + 1), prev')
  BY <1>1, <1>4 DEF BackAdded
<1>7. AddLinks(h, p, e)
  BY <1>1, <1>5, <1>6 DEF AddLinks
<1>8. Well' /\ PutStep(h, p, e) /\ p \in {0, Len(Lists[h])}
  BY <1>1, <1>2, <1>3, <1>7, AddStep
<1> QED
  BY <1>1, <1>8 DEF OpStep, LinkStep

\* slist_add, and slist_add_tail to an empty list.
LEMMA slist_front_Step ==
  ASSUME Well, NEW h \in Heads, NEW e \in Elems, kind = "slist", ~Linked(e),
         next' = [next EXCEPT ![e] = next[h], ![h] = e], UNCHANGED <<kind, prev, loop>>
  PROVE  OpStep
<1>2. ~In(Lists, e)
  BY LinkedIn
<1>3. PICK p \in 0 .. Len(Lists[h]) : p = 0 /\ p + 1 = 1
  BY WellLinks
<1>4. At(kind, Lists, h, p) = h /\ At(kind, Lists, h, p + 1) = next[h]
  BY <1>3, WellLinks
<1>5. next' = [next EXCEPT ![e] = At(kind, Lists, h, p + 1), ![At(kind, Lists, h, p)] = e]
  BY <1>4
<1>6. BackAdded(kind, prev, e, At(kind, Lists, h, p), At(kind, Lists, h, p + 1), prev')
  BY DEF BackAdded
<1>7. AddLinks(h, p, e)
  BY <1>5, <1>6 DEF AddLinks
<1>8. Well' /\ PutStep(h, p, e) /\ p \in {0, Len(Lists[h])}
  BY <1>2, <1>3, <1>7, AddStep
<1> QED
  BY <1>8 DEF OpStep, LinkStep

\* The loop of slist_add_tail finds no end in a circle.
LEMMA slist_add_tail_Step ==
  ASSUME Well, NEW h \in Heads, NEW e \in Elems, slist_add_tail(h, e)
  PROVE  OpStep
<1> DEFINE ends == {p \in ToSet(Items(h)) : next[p] = Null}
<1>1. /\ kind = "slist" /\ ~Linked(e) /\ UNCHANGED <<kind, prev, loop>>
      /\ next' = IF next[h] = h THEN [next EXCEPT ![e] = h, ![h] = e]
                 ELSE IF ends = {} THEN next
                 ELSE [next EXCEPT ![CHOOSE p \in ends : TRUE] = e, ![e] = Null]
  BY DEF slist_add_tail, STailLinks
<1>2. ends = {}
  <2> SUFFICES ASSUME NEW x \in ToSet(Items(h)), next[x] = Null PROVE FALSE
    OBVIOUS
  <2>1. Lists[h] = Items(h) /\ Lists[h] \in Seq(Elems) /\ Len(Lists[h]) \in Nat
    BY WellLinks
  <2>2. PICK i \in 1 .. Len(Lists[h]) : x = Lists[h][i]
    BY <2>1 DEF ToSet
  <2>3. At(kind, Lists, h, i + 1) = Null
    BY <2>2, WellLinks
  <2>4. i + 1 \in 0 .. Len(Lists[h]) \/ i = Len(Lists[h])
    BY <2>1
  <2>5. End(h) = h
    BY <1>1 DEF End
  <2>6. At(kind, Lists, h, i + 1) \in Memory
    BY <2>4, <2>5, WellLinks DEF Memory
  <2> QED
    BY <2>3, <2>6, ListAssumption DEF Memory
<1>3. CASE next[h] = h
  <2>1. next' = [next EXCEPT ![e] = next[h], ![h] = e]
    BY <1>1, <1>3
  <2> QED
    BY <1>1, <2>1, slist_front_Step
<1>4. CASE next[h] # h
  <2>1. next' = next
    BY <1>1, <1>2, <1>4
  <2> QED
    BY <1>1, <2>1, SameStep DEF OpStep, LinkStep
<1> QED
  BY <1>3, <1>4

LEMMA hlist_add_Step ==
  ASSUME Well, NEW h \in Heads, NEW e \in Elems, hlist_add(h, e)
  PROVE  OpStep
<1>1. /\ kind = "hlist" /\ ~Linked(e) /\ kind' = kind /\ loop' = loop
      /\ next' = [next EXCEPT ![e] = next[h], ![h] = e]
      /\ prev' = [n \in DOMAIN prev |-> IF n = e THEN h ELSE IF n = next[h] THEN e ELSE prev[n]]
  BY DEF hlist_add
<1>2. ~In(Lists, e)
  BY <1>1, LinkedIn
<1>3. PICK p \in 0 .. Len(Lists[h]) : p = 0 /\ p + 1 = 1
  BY WellLinks
<1>4. At(kind, Lists, h, p) = h /\ At(kind, Lists, h, p + 1) = next[h]
  BY <1>3, WellLinks
<1>5. next' = [next EXCEPT ![e] = At(kind, Lists, h, p + 1), ![At(kind, Lists, h, p)] = e]
  BY <1>1, <1>4
<1>6. BackAdded(kind, prev, e, At(kind, Lists, h, p), At(kind, Lists, h, p + 1), prev')
  BY <1>1, <1>4 DEF BackAdded
<1>7. AddLinks(h, p, e)
  BY <1>1, <1>5, <1>6 DEF AddLinks
<1>8. Well' /\ PutStep(h, p, e) /\ p \in {0, Len(Lists[h])}
  BY <1>1, <1>2, <1>3, <1>7, AddStep
<1> QED
  BY <1>1, <1>8 DEF OpStep, LinkStep

LEMMA list_splice_Step ==
  ASSUME Well, NEW l \in Heads, NEW h \in Heads, list_splice(l, h)
  PROVE  OpStep
<1>1. kind = "list" /\ l # h /\ kind' = kind /\ loop' = loop
  BY DEF list_splice
<1>2. CASE next[l] = prev[l]
  <2>1. next' = next /\ prev' = prev
    BY <1>2 DEF list_splice
  <2> QED
    BY <1>1, <2>1, SameStep DEF OpStep, LinkStep
<1>3. CASE next[l] # prev[l]
  <2>1. /\ next' = [next EXCEPT ![h] = next[l], ![prev[l]] = next[h], ![l] = l]
        /\ prev' = [prev EXCEPT ![next[l]] = h, ![next[h]] = prev[l], ![l] = l]
    BY <1>3 DEF list_splice
  <2>2. Shape("list", next, prev, Lists)
    BY <1>1 DEF Well
  <2>3. Shape("list", next', prev', [Lists EXCEPT ![l] = <<>>, ![h] = Lists[l] \o Lists[h]])
    BY <1>1, <1>3, <2>1, <2>2, SpliceShape
  <2>4. Well' /\ Lists' = [Lists EXCEPT ![l] = <<>>, ![h] = Lists[l] \o Lists[h]]
    BY <1>1, <2>3, ListsNext
  <2>5. SpliceStep(l, h)
    BY <1>1, <2>4 DEF SpliceStep
  <2> QED
    BY <1>1, <2>4, <2>5 DEF OpStep, LinkStep
<1> QED
  BY <1>2, <1>3

\* Taking out the element e of the list of h: the three ways to do it.
Deletes(h, e) ==
  /\ kind' = kind
  /\ \/ kind = "list" /\ Unlink(e)
     \/ kind = "slist" /\ next' = SUnlink(h, e) /\ UNCHANGED prev
     \/ kind = "hlist" /\ HUnlink(e)

\* slist_del finds the node in front of e, if e is on the list.
LEMMA SUnlinkRules ==
  ASSUME Well, NEW h \in Heads, NEW e \in Elems
  PROVE  /\ (\A i \in 1 .. Len(Lists[h]) : Lists[h][i] # e) => SUnlink(h, e) = next
         /\ \A p \in 1 .. Len(Lists[h]) : Lists[h][p] = e =>
              SUnlink(h, e) = [next EXCEPT ![At(kind, Lists, h, p - 1)] = next[e], ![e] = Null]
<1> DEFINE n == Len(Lists[h])
           N(i) == At(kind, Lists, h, i)
           before == {q \in {h} \cup ToSet(Items(h)) : next[q] = e}
<1>1. /\ Lists[h] = Items(h) /\ Lists[h] \in Seq(Elems) /\ n \in Nat /\ N(0) = h
      /\ \A i \in 0 .. n : next[N(i)] = N(i + 1)
      /\ \A i \in 1 .. n : N(i) = Lists[h][i]
  BY WellLinks
<1>2. N(n + 1) # e
  <2>1. N(n + 1) = End(h)
    BY WellLinks
  <2> QED
    BY <2>1, ListAssumption DEF End
<1>3. \A q \in {h} \cup ToSet(Items(h)) : \E i \in 0 .. n : q = N(i)
  <2> TAKE q \in {h} \cup ToSet(Items(h))
  <2>1. CASE q = h
    <3>1. 0 \in 0 .. n
      BY <1>1
    <3> QED
      BY <1>1, <2>1, <3>1
  <2>2. CASE q \in ToSet(Items(h))
    <3>1. PICK i \in 1 .. n : q = Lists[h][i]
      BY <1>1, <2>2 DEF ToSet
    <3>2. i \in 0 .. n
      BY <1>1
    <3> QED
      BY <1>1, <3>1, <3>2
  <2> QED
    BY <2>1, <2>2
<1>4. \A i \in 0 .. n : N(i) \in {h} \cup ToSet(Items(h))
  <2> TAKE i \in 0 .. n
  <2>1. i = 0 \/ i \in 1 .. n
    BY <1>1
  <2>2. i \in 1 .. n => N(i) \in ToSet(Items(h))
    BY <1>1 DEF ToSet
  <2> QED
    BY <1>1, <2>1, <2>2
<1>5. SUnlink(h, e) = IF before = {} THEN next
                      ELSE [next EXCEPT ![CHOOSE q \in before : TRUE] = next[e], ![e] = Null]
  BY DEF SUnlink
<1> HIDE DEF N, n
<1>6. ASSUME \A i \in 1 .. n : Lists[h][i] # e PROVE SUnlink(h, e) = next
  <2>1. before = {}
    <3> SUFFICES ASSUME NEW q \in {h} \cup ToSet(Items(h)), next[q] = e PROVE FALSE
      OBVIOUS
    <3>1. PICK i \in 0 .. n : q = N(i)
      BY <1>3
    <3>2. N(i + 1) = e
      BY <1>1, <3>1
    <3>3. i + 1 \in 1 .. n \/ i = n
      BY <1>1
    <3> QED
      BY <1>1, <1>2, <1>6, <3>2, <3>3
  <2> QED
    BY <1>5, <2>1
<1>7. ASSUME NEW p \in 1 .. n, Lists[h][p] = e
      PROVE  SUnlink(h, e) = [next EXCEPT ![N(p - 1)] = next[e], ![e] = Null]
  <2>1. PICK r \in 0 .. n : r = p - 1 /\ r + 1 = p
    BY <1>1
  <2>2. N(r) \in before
    BY <1>1, <1>4, <1>7, <2>1
  <2>3. \A q \in before : q = N(r)
    <3> TAKE q \in before
    <3>1. PICK i \in 0 .. n : q = N(i)
      BY <1>3
    <3>2. N(i + 1) = e
      BY <1>1, <3>1
    <3>3. i + 1 \in 1 .. n
      BY <1>1, <1>2, <3>2
    <3>4. Lists[h][i + 1] = Lists[h][p]
      BY <1>1, <1>7, <3>2, <3>3
    <3>5. Apart(Lists)
      BY DEF Well, Shape
    <3>6. PICK j \in 1 .. n : j = i + 1
      BY <3>3
    <3>7. j = p
      <4>1. \A x, y \in 1 .. n : Lists[h][x] = Lists[h][y] => x = y
        BY <3>5 DEF Apart, n
      <4> QED
        BY <3>4, <3>6, <4>1
    <3>8. i = r
      BY <1>1, <2>1, <3>6, <3>7
    <3> QED
      BY <3>1, <3>8
  <2> HIDE DEF before
  <2>4. before # {} /\ (CHOOSE q \in before : TRUE) = N(r)
    BY <2>2, <2>3
  <2>5. SUnlink(h, e) = [next EXCEPT ![N(r)] = next[e], ![e] = Null]
    BY <1>5, <2>4
  <2> QED
    BY <2>1, <2>5
<1> QED
  BY <1>6, <1>7 DEF n, N

LEMMA DeleteStep ==
  ASSUME Well, NEW h \in Heads, NEW p \in 1 .. Len(Lists[h]), Deletes(h, Lists[h][p])
  PROVE  Well' /\ TakeStep(h, p)
<1> DEFINE e == Lists[h][p]
           a == At(kind, Lists, h, p - 1)
           b == At(kind, Lists, h, p + 1)
<1>1. /\ e \in Elems /\ At(kind, Lists, h, p) = e /\ next[e] = b
      /\ kind \in {"list", "hlist"} => prev[e] = a
      /\ kind' = kind
  BY WellLinks DEF Deletes
<1> HIDE DEF a, b
<1>2. next' = [next EXCEPT ![a] = b, ![e] = Null] /\ BackTaken(kind, prev, e, a, b, prev')
  <2>1. CASE kind = "list" /\ Unlink(e)
    <3>1. /\ next' = [next EXCEPT ![prev[e]] = next[e], ![e] = Null]
          /\ prev' = [prev EXCEPT ![next[e]] = prev[e], ![e] = Null]
      BY <2>1 DEF Unlink
    <3>2. prev[e] = a
      BY <1>1, <2>1
    <3> QED
      BY <1>1, <2>1, <3>1, <3>2 DEF BackTaken
  <2>2. CASE kind = "slist" /\ next' = SUnlink(h, e) /\ UNCHANGED prev
    <3>1. next' = [next EXCEPT ![a] = next[e], ![e] = Null]
      BY <1>1, <2>2, SUnlinkRules DEF a
    <3> QED
      BY <1>1, <2>2, <3>1 DEF BackTaken
  <2>3. CASE kind = "hlist" /\ HUnlink(e)
    <3>1. /\ next' = [next EXCEPT ![prev[e]] = next[e], ![e] = Null]
          /\ prev' = [n \in DOMAIN prev |-> IF n = e THEN Null
                                            ELSE IF n = next[e] THEN prev[e] ELSE prev[n]]
      BY <2>3 DEF HUnlink
    <3>2. prev[e] = a
      BY <1>1, <2>3
    <3> QED
      BY <1>1, <2>3, <3>1, <3>2 DEF BackTaken
  <2> QED
    BY <2>1, <2>2, <2>3 DEF Deletes
<1>3. DelLinks(h, p)
  BY <1>1, <1>2 DEF DelLinks, a, b
<1> QED
  BY <1>3, DelStep

\* An element that is on a list has a place there.
LEMMA Place ==
  ASSUME NEW e, Linked(e)
  PROVE  \E h \in Heads : \E p \in 1 .. Len(Lists[h]) : Lists[h][p] = e
BY LinkedIn DEF In

LEMMA list_del_Step ==
  ASSUME Well, NEW e \in Elems, list_del(e) \/ hlist_del(e)
  PROVE  OpStep
<1>1. Linked(e) /\ loop' = loop
  BY DEF list_del, hlist_del
<1>2. PICK h \in Heads : \E p \in 1 .. Len(Lists[h]) : Lists[h][p] = e
  BY <1>1, Place
<1>3. PICK p \in 1 .. Len(Lists[h]) : Lists[h][p] = e
  BY <1>2
<1>4. Deletes(h, Lists[h][p])
  BY <1>3 DEF list_del, hlist_del, Deletes
<1>5. Well' /\ TakeStep(h, p)
  BY <1>4, DeleteStep
<1>6. kind' = kind
  BY <1>4 DEF Deletes
<1> QED
  BY <1>1, <1>5, <1>6 DEF OpStep, LinkStep

LEMMA slist_del_Step ==
  ASSUME Well, NEW h \in Heads, NEW e \in Elems, slist_del(h, e)
  PROVE  OpStep
<1>1. kind = "slist" /\ next' = SUnlink(h, e) /\ UNCHANGED <<kind, prev, loop>>
  BY DEF slist_del
<1>2. CASE \E p \in 1 .. Len(Lists[h]) : Lists[h][p] = e
  <2>1. PICK p \in 1 .. Len(Lists[h]) : Lists[h][p] = e
    BY <1>2
  <2>2. Deletes(h, Lists[h][p])
    BY <1>1, <2>1 DEF Deletes
  <2>3. Well' /\ TakeStep(h, p)
    BY <2>2, DeleteStep
  <2> QED
    BY <1>1, <2>3 DEF OpStep, LinkStep
<1>3. CASE \A p \in 1 .. Len(Lists[h]) : Lists[h][p] # e
  <2>1. next' = next
    BY <1>1, <1>3, SUnlinkRules
  <2> QED
    BY <1>1, <2>1, SameStep DEF OpStep, LinkStep
<1> QED
  BY <1>2, <1>3

-----------------------------------------------------------------------------
(* Loops *)

\* One step of the loop, over links nx.
Advanced(lp, nx) ==
  [lp EXCEPT !.ptr = lp.ref, !.seen = Append(@, lp.ptr),
             !.ref = IF lp.ref = Null THEN Null ELSE nx[lp.ref]]

LEMMA AdvancedFields ==
  ASSUME NEW lp \in LoopState, NEW nx \in Links, lp.ptr \in Elems
  PROVE  /\ Advanced(lp, nx) \in LoopState
         /\ Advanced(lp, nx).at = lp.at /\ Advanced(lp, nx).todo = lp.todo
         /\ Advanced(lp, nx).ptr = lp.ref /\ Advanced(lp, nx).seen = Append(lp.seen, lp.ptr)
         /\ lp.ref \in Memory => Advanced(lp, nx).ref = nx[lp.ref]
<1> DEFINE r == IF lp.ref = Null THEN Null ELSE nx[lp.ref]
           q == Append(lp.seen, lp.ptr)
<1>1. lp.seen \in Seq(Elems) /\ lp.ref \in Memory \cup {Null}
  BY DEF LoopState
<1>2. q \in Seq(Elems)
  BY <1>1
<1>3. r \in Memory \cup {Null} /\ (lp.ref \in Memory => r = nx[lp.ref])
  BY <1>1, ListAssumption DEF Links, Memory
<1>4. Advanced(lp, nx) = [lp EXCEPT !.ptr = lp.ref, !.seen = q, !.ref = r]
  BY DEF Advanced
<1> HIDE DEF r, q
<1>5. /\ Advanced(lp, nx) \in LoopState
      /\ Advanced(lp, nx).at = lp.at /\ Advanced(lp, nx).todo = lp.todo
      /\ Advanced(lp, nx).ptr = lp.ref /\ Advanced(lp, nx).seen = q /\ Advanced(lp, nx).ref = r
  BY <1>1, <1>2, <1>3, <1>4 DEF LoopState
<1> QED
  BY <1>3, <1>5 DEF q

\* A loop that is not at the end is at an element.
LEMMA AtElement ==
  ASSUME NEW k, NEW L, L \in [Heads -> Seq(Elems)], NEW lp, Visiting(k, L, lp),
         lp.ptr # EndOf(k, lp.at)
  PROVE  \E d \in 0 .. Len(L[lp.at]) - 1 :
           Spot(k, L, lp, d) /\ lp.ptr = L[lp.at][d + 1] /\ lp.ptr \in Elems
<1>1. lp.at \in Heads
  BY DEF Visiting
<1>2. PICK d \in 0 .. Len(L[lp.at]) : Spot(k, L, lp, d)
  BY DEF Visiting
<1>3. lp.ptr = At(k, L, lp.at, d + 1)
  BY <1>2 DEF Spot
<1>4. /\ Len(L[lp.at]) \in Nat /\ At(k, L, lp.at, Len(L[lp.at]) + 1) = EndOf(k, lp.at)
      /\ \A i \in 1 .. Len(L[lp.at]) : At(k, L, lp.at, i) = L[lp.at][i] /\ L[lp.at][i] \in Elems
  BY <1>1, AtRules
<1>5. d # Len(L[lp.at])
  BY <1>3, <1>4
<1>6. d \in 0 .. Len(L[lp.at]) - 1 /\ d + 1 \in 1 .. Len(L[lp.at])
  BY <1>4, <1>5
<1> QED
  BY <1>2, <1>3, <1>4, <1>6

\* What has been seen grows by the next of what there was.
LEMMA SeenGrows ==
  ASSUME NEW k, NEW L, L \in [Heads -> Seq(Elems)], NEW lp \in LoopState, Visiting(k, L, lp),
         NEW d \in 0 .. Len(L[lp.at]) - 1, Spot(k, L, lp, d),
         lp.ptr = L[lp.at][d + 1], lp.ptr \in Elems
  PROVE  /\ Len(Append(lp.seen, lp.ptr)) = Len(lp.seen) + 1 /\ Len(lp.seen) \in Nat
         /\ Len(lp.todo) \in Nat
         /\ \A i \in 1 .. Len(lp.seen) + 1 : Append(lp.seen, lp.ptr)[i] = lp.todo[i]
<1> DEFINE c == Len(lp.seen)
           n == Len(L[lp.at])
<1>1. lp.seen \in Seq(Elems) /\ lp.todo \in Seq(Elems) /\ c \in Nat /\ Len(lp.todo) \in Nat
  BY DEF LoopState
<1>2. n \in Nat /\ d \in 0 .. n - 1
  BY DEF Visiting
<1>3. \A i \in 1 .. n - d : L[lp.at][d + i] = lp.todo[c + i]
  BY DEF Spot
<1>4. 1 \in 1 .. n - d
  BY <1>2
<1>5. lp.ptr = lp.todo[c + 1]
  BY <1>3, <1>4
<1>6. Len(Append(lp.seen, lp.ptr)) = c + 1
  BY <1>1
<1>7. ASSUME NEW i \in 1 .. c + 1 PROVE Append(lp.seen, lp.ptr)[i] = lp.todo[i]
  <2>1. CASE i = c + 1
    <3>1. Append(lp.seen, lp.ptr)[c + 1] = lp.ptr
      BY <1>1
    <3> QED
      BY <1>5, <2>1, <3>1
  <2>2. CASE i # c + 1
    <3>1. i \in 1 .. c
      BY <1>1, <2>2
    <3>2. Append(lp.seen, lp.ptr)[i] = lp.seen[i]
      BY <1>1, <3>1
    <3>3. lp.seen[i] = lp.todo[i]
      BY <3>1 DEF Visiting
    <3> QED
      BY <3>2, <3>3
  <2> QED
    BY <2>1, <2>2
<1> QED
  BY <1>1, <1>6, <1>7

LEMMA KeepVisits ==
  ASSUME NEW k, NEW nx, NEW pv, NEW L, Shape(k, nx, pv, L), NEW lp \in LoopState,
         Visiting(k, L, lp), lp.ptr # EndOf(k, lp.at)
  PROVE  Advanced(lp, nx) \in LoopState /\ Visiting(k, L, Advanced(lp, nx))
<1> DEFINE h == lp.at
           n == Len(L[h])
           c == Len(lp.seen)
           lp2 == Advanced(lp, nx)
<1>1. nx \in Links /\ L \in [Heads -> Seq(Elems)] /\ h \in Heads /\ n \in Nat
  BY DEF Shape, Visiting
<1>2. PICK d \in 0 .. n - 1 : Spot(k, L, lp, d) /\ lp.ptr = L[h][d + 1] /\ lp.ptr \in Elems
  BY <1>1, AtElement
<1>3. /\ n - d = Len(lp.todo) - c
      /\ \A i \in 1 .. n - d : L[h][d + i] = lp.todo[c + i]
      /\ d < n => lp.ref = At(k, L, h, d + 2)
  BY <1>2 DEF Spot
<1>4. /\ Len(Append(lp.seen, lp.ptr)) = c + 1 /\ c \in Nat /\ Len(lp.todo) \in Nat
      /\ \A i \in 1 .. c + 1 : Append(lp.seen, lp.ptr)[i] = lp.todo[i]
  BY <1>1, <1>2, SeenGrows
<1>5. /\ lp2 \in LoopState /\ lp2.at = h /\ lp2.todo = lp.todo /\ lp2.ptr = lp.ref
      /\ lp2.seen = Append(lp.seen, lp.ptr) /\ (lp.ref \in Memory => lp2.ref = nx[lp.ref])
  BY <1>1, <1>2, AdvancedFields
<1> HIDE DEF lp2, n, c, h
<1>6. PICK f \in 0 .. n : f = d + 1 /\ f + 1 = d + 2
  BY <1>1
<1>7. lp.ref = At(k, L, h, f + 1)
  BY <1>1, <1>3, <1>6
<1>8. ASSUME f < n PROVE lp2.ref = At(k, L, h, f + 2)
  <2>1. PICK j \in 0 .. n : j = f + 1 /\ j + 1 = f + 2
    BY <1>1, <1>8
  <2>2. At(k, L, h, j) \in Memory /\ nx[At(k, L, h, j)] = At(k, L, h, j + 1)
    BY <1>1, ShapeLinks DEF n
  <2> QED
    BY <1>5, <1>7, <2>1, <2>2
<1>9. n - f = Len(lp.todo) - (c + 1)
  BY <1>1, <1>3, <1>4, <1>6
<1>10. ASSUME NEW i \in 1 .. n - f PROVE L[h][f + i] = lp.todo[(c + 1) + i]
  <2>1. PICK j \in 1 .. n - d : j = i + 1
    BY <1>1, <1>6
  <2>2. d + j = f + i /\ c + j = (c + 1) + i
    BY <1>1, <1>4, <1>6, <2>1
  <2> QED
    BY <1>3, <2>2
<1>11. Spot(k, L, lp2, f)
  BY <1>4, <1>5, <1>7, <1>8, <1>9, <1>10 DEF Spot, n
<1>12. \A i \in 1 .. Len(lp2.seen) : lp2.seen[i] = lp2.todo[i]
  BY <1>4, <1>5
<1>13. Visiting(k, L, lp2)
  BY <1>1, <1>5, <1>11, <1>12 DEF Visiting, n
<1> QED
  BY <1>5, <1>13 DEF lp2

\* The node that takes the place of the one that is dropped.
LEMMA DropNode ==
  ASSUME NEW k, NEW L, NEW L2, NEW h \in Heads, L \in [Heads -> Seq(Elems)],
         NEW p \in 1 .. Len(L[h]), L2[h] = Drop(L[h], p)
  PROVE  At(k, L2, h, p) = At(k, L, h, p + 1)
<1> DEFINE n == Len(L[h])
<1>1. n \in Nat /\ L[h] \in Seq(Elems) /\ p \in Int /\ p # 0 /\ p + 1 # 0
  OBVIOUS
<1>2. /\ Len(L2[h]) = n - 1
      /\ \A i \in 1 .. n - 1 : L2[h][i] = IF i < p THEN L[h][i] ELSE L[h][i + 1]
  BY <1>1, DropRules
<1>3. CASE p = n
  <2>1. ~(p <= Len(L2[h])) /\ ~(p + 1 <= Len(L[h]))
    BY <1>1, <1>2, <1>3
  <2> QED
    BY <1>1, <2>1 DEF At, Node
<1>4. CASE p # n
  <2>1. p \in 1 .. n - 1 /\ p <= n - 1 /\ p + 1 <= Len(L[h]) /\ ~(p < p)
    BY <1>1, <1>4
  <2>2. L2[h][p] = L[h][p + 1] /\ p <= Len(L2[h])
    BY <1>2, <2>1
  <2> QED
    BY <1>1, <2>1, <2>2 DEF At, Node
<1> QED
  BY <1>3, <1>4

LEMMA DeleteVisits ==
  ASSUME NEW k, NEW L, L \in [Heads -> Seq(Elems)], NEW lp \in LoopState, Visiting(k, L, lp),
         NEW d \in 0 .. Len(L[lp.at]) - 1, Spot(k, L, lp, d),
         lp.ptr = L[lp.at][d + 1], lp.ptr \in Elems,
         NEW nx2, NEW pv2, NEW L2, Shape(k, nx2, pv2, L2), L2[lp.at] = Drop(L[lp.at], d + 1)
  PROVE  Advanced(lp, nx2) \in LoopState /\ Visiting(k, L2, Advanced(lp, nx2))
<1> DEFINE h == lp.at
           n == Len(L[h])
           c == Len(lp.seen)
           lp2 == Advanced(lp, nx2)
<1>1. nx2 \in Links /\ L2 \in [Heads -> Seq(Elems)] /\ h \in Heads /\ n \in Nat /\ L[h] \in Seq(Elems)
  BY DEF Shape, Visiting
<1>3. /\ n - d = Len(lp.todo) - c
      /\ \A i \in 1 .. n - d : L[h][d + i] = lp.todo[c + i]
      /\ d < n => lp.ref = At(k, L, h, d + 2)
  BY DEF Spot
<1>4. /\ Len(Append(lp.seen, lp.ptr)) = c + 1 /\ c \in Nat /\ Len(lp.todo) \in Nat
      /\ \A i \in 1 .. c + 1 : Append(lp.seen, lp.ptr)[i] = lp.todo[i]
  BY SeenGrows
<1>5. /\ lp2 \in LoopState /\ lp2.at = h /\ lp2.todo = lp.todo /\ lp2.ptr = lp.ref
      /\ lp2.seen = Append(lp.seen, lp.ptr) /\ (lp.ref \in Memory => lp2.ref = nx2[lp.ref])
  BY <1>1, AdvancedFields
<1> HIDE DEF lp2, n, c, h
<1>6. d \in 0 .. n - 1 /\ d \in Int /\ h = lp.at
  BY <1>1 DEF h, n
<1>7. PICK p \in 1 .. n : p = d + 1 /\ p + 1 = d + 2
  BY <1>1, <1>6
<1>8. L2[h] = Drop(L[h], p)
  BY <1>7 DEF h
<1>9. /\ Len(L2[h]) = n - 1
      /\ \A i \in 1 .. n - 1 : L2[h][i] = IF i < p THEN L[h][i] ELSE L[h][i + 1]
  BY <1>1, <1>8, DropRules DEF n
<1>10. lp.ref = At(k, L2, h, p)
  <2>1. At(k, L2, h, p) = At(k, L, h, p + 1)
    BY <1>1, <1>8, DropNode DEF n
  <2> QED
    BY <1>1, <1>3, <1>6, <1>7, <2>1
<1>11. ASSUME d < n - 1 PROVE lp2.ref = At(k, L2, h, d + 2)
  <2>1. p \in 0 .. n - 1
    BY <1>1, <1>6, <1>7, <1>11
  <2>2. p \in 0 .. Len(L2[h])
    BY <1>9, <2>1
  <2>3. At(k, L2, h, p) \in Memory /\ nx2[At(k, L2, h, p)] = At(k, L2, h, p + 1)
    BY <1>1, <2>2, ShapeLinks
  <2> QED
    BY <1>5, <1>7, <1>10, <2>3
<1>12. (n - 1) - d = Len(lp.todo) - (c + 1)
  BY <1>1, <1>3, <1>4, <1>6
<1>13. ASSUME NEW i \in 1 .. (n - 1) - d PROVE L2[h][d + i] = lp.todo[(c + 1) + i]
  <2>1. PICK j \in 1 .. n - d : j = i + 1
    BY <1>1, <1>6
  <2>2. d + i \in 1 .. n - 1 /\ ~(d + i < p) /\ (d + i) + 1 = d + j /\ c + j = (c + 1) + i
    BY <1>1, <1>4, <1>6, <1>7, <2>1
  <2>3. L2[h][d + i] = L[h][(d + i) + 1]
    BY <1>9, <2>2
  <2>4. L[h][d + j] = lp.todo[c + j]
    BY <1>3
  <2> QED
    BY <2>2, <2>3, <2>4
<1>14. Spot(k, L2, lp2, d)
  <2>1. lp2.at = h /\ Len(L2[lp2.at]) = n - 1 /\ Len(lp2.seen) = c + 1 /\ lp2.todo = lp.todo
    BY <1>4, <1>5, <1>9
  <2>2. Len(L2[lp2.at]) - d = Len(lp2.todo) - Len(lp2.seen)
    BY <1>12, <2>1
  <2>3. ASSUME NEW i \in 1 .. Len(L2[lp2.at]) - d
        PROVE  L2[lp2.at][d + i] = lp2.todo[Len(lp2.seen) + i]
    <3>1. i \in 1 .. (n - 1) - d
      BY <2>1
    <3>2. L2[h][d + i] = lp.todo[(c + 1) + i]
      BY <1>13, <3>1
    <3> QED
      BY <2>1, <3>2
  <2>4. lp2.ptr = At(k, L2, lp2.at, d + 1)
    BY <1>5, <1>7, <1>10
  <2>5. d < Len(L2[lp2.at]) => lp2.ref = At(k, L2, lp2.at, d + 2)
    BY <1>11, <2>1
  <2> QED
    BY <2>2, <2>3, <2>4, <2>5 DEF Spot
<1>15. d \in 0 .. Len(L2[lp2.at])
  BY <1>5, <1>6, <1>9
<1>16. \A i \in 1 .. Len(lp2.seen) : lp2.seen[i] = lp2.todo[i]
  BY <1>4, <1>5
<1>17. Visiting(k, L2, lp2)
  BY <1>1, <1>5, <1>14, <1>15, <1>16 DEF Visiting
<1> QED
  BY <1>5, <1>17 DEF lp2


LEMMA foreach_begin_Step ==
  ASSUME ListInv, NEW h \in Heads, foreach_begin(h)
  PROVE  ListInv' /\ Lists' = Lists
<1>1. Well /\ LoopInv /\ loop.at = Null /\ UNCHANGED <<kind, next, prev>>
  BY DEF ListInv, foreach_begin
<1>2. Well' /\ Lists' = Lists
  BY <1>1, SameStep
<1>3. loop = NoLoop
  BY <1>1, ListAssumption DEF LoopInv, Visiting, NoLoop
<1>4. PICK L : L = Lists
  OBVIOUS
<1>5. /\ kind \in {"list", "slist", "hlist"} /\ L[h] = Items(h) /\ L[h] \in Seq(Elems)
      /\ Len(L[h]) \in Nat /\ next[h] = At(kind, L, h, 1)
      /\ At(kind, L, h, Len(L[h]) + 1) = End(h)
      /\ \A i \in 0 .. Len(L[h]) :
           /\ At(kind, L, h, i) \in Memory /\ At(kind, L, h, i + 1) \in Memory \cup {Null}
           /\ next[At(kind, L, h, i)] = At(kind, L, h, i + 1)
      /\ \A i \in 1 .. Len(L[h]) : At(kind, L, h, i) = L[h][i] /\ L[h][i] \in Elems
  BY <1>1, <1>4, WellLinks
<1>6. CASE next[h] = Null
  <2>1. Len(L[h]) = 0
    BY <1>5, <1>6, ListAssumption
  <2>2. End(h) = Null
    BY <1>5, <1>6, <2>1
  <2>3. kind = "hlist"
    BY <2>2, ListAssumption DEF End
  <2>4. loop' = [NoLoop EXCEPT !.at = "fault"]
    BY <1>3, <1>6 DEF foreach_begin
  <2>5. loop' \in LoopState
    <3>1. loop' = [at |-> "fault", ptr |-> Null, ref |-> Null, todo |-> <<>>, seen |-> <<>>]
      BY <2>4 DEF NoLoop
    <3> QED
      BY <3>1 DEF LoopState
  <2>6. LoopInv'
    BY <1>1, <2>3, <2>4, <2>5 DEF LoopInv, LoopState, NoLoop
  <2> QED
    BY <1>2, <2>6 DEF ListInv
<1>7. CASE next[h] # Null
  <2> DEFINE lp == [at |-> h, ptr |-> next[h], ref |-> next[next[h]], todo |-> L[h], seen |-> <<>>]
  <2>1. loop' = lp
    BY <1>4, <1>5, <1>7 DEF foreach_begin
  <2>2. next \in Links
    BY <1>1 DEF Well, Shape
  <2>3. next[h] \in Memory
    BY <1>5, <1>7
  <2>4. lp \in LoopState
    BY <1>5, <2>2, <2>3 DEF LoopState, Links, Memory
  <2>5. 0 < Len(L[h]) => next[next[h]] = At(kind, L, h, 2)
    <3>1. ASSUME 0 < Len(L[h]) PROVE 1 \in 0 .. Len(L[h]) /\ 1 + 1 = 2
      BY <1>5, <3>1
    <3> QED
      BY <1>5, <3>1
  <2>6. lp.at = h /\ lp.ptr = At(kind, L, h, 1) /\ lp.todo = L[h] /\ lp.seen = <<>>
        /\ lp.ref = next[next[h]]
    BY <1>5
  <2> HIDE DEF lp
  <2>7. Spot(kind, L, lp, 0)
    <3>1. Len(lp.seen) = 0
      BY <2>6
    <3>2. Len(L[lp.at]) - 0 = Len(lp.todo) - Len(lp.seen)
      BY <1>5, <2>6, <3>1
    <3>3. \A i \in 1 .. Len(L[lp.at]) - 0 : L[lp.at][0 + i] = lp.todo[Len(lp.seen) + i]
      BY <1>5, <2>6, <3>1
    <3> QED
      BY <2>5, <2>6, <3>2, <3>3 DEF Spot
  <2>8. Visiting(kind, L, lp)
    <3>1. 0 \in 0 .. Len(L[lp.at])
      BY <1>5, <2>6
    <3>2. \A i \in 1 .. Len(lp.seen) : lp.seen[i] = lp.todo[i]
      BY <2>6
    <3> QED
      BY <2>6, <2>7, <3>1, <3>2 DEF Visiting
  <2>9. LoopInv'
    BY <1>1, <1>2, <1>4, <2>1, <2>4, <2>8 DEF LoopInv
  <2> QED
    BY <1>2, <2>9 DEF ListInv
<1> QED
  BY <1>6, <1>7

\* A loop that goes on has a list, and the invariant says where it is.
LEMMA LoopingVisits ==
  ASSUME ListInv, loop.at \in Heads
  PROVE  /\ Well /\ loop \in LoopState /\ Visiting(kind, Lists, loop)
         /\ Shape(kind, next, prev, Lists) /\ Lists \in [Heads -> Seq(Elems)]
         /\ End(loop.at) = EndOf(kind, loop.at)
<1>1. loop # NoLoop /\ loop # [NoLoop EXCEPT !.at = "fault"]
  BY ListAssumption DEF NoLoop
<1> QED
  BY <1>1 DEF ListInv, LoopInv, Well, Shape, End, EndOf

LEMMA foreach_keep_Step ==
  ASSUME ListInv, foreach_keep
  PROVE  ListInv' /\ Lists' = Lists
<1>1. Looping /\ loop' = Advance(next) /\ UNCHANGED <<kind, next, prev>>
  BY DEF foreach_keep
<1>2. loop.at \in Heads /\ loop.ptr # EndOf(kind, loop.at)
  BY <1>1, LoopingVisits DEF Looping
<1>3. loop' = Advanced(loop, next)
  BY <1>1 DEF Advance, Advanced
<1>4. Well' /\ Lists' = Lists
  BY <1>1, <1>2, LoopingVisits, SameStep
<1>5. Advanced(loop, next) \in LoopState /\ Visiting(kind, Lists, Advanced(loop, next))
  BY <1>2, LoopingVisits, KeepVisits
<1>6. LoopInv'
  BY <1>1, <1>3, <1>4, <1>5 DEF LoopInv
<1> QED
  BY <1>4, <1>6 DEF ListInv

LEMMA foreach_delete_Step ==
  ASSUME ListInv, foreach_delete
  PROVE  /\ ListInv' /\ kind' = kind
         /\ \E h \in Heads : \E p \in 1 .. Len(Lists[h]) : TakeStep(h, p)
<1>1. Looping /\ loop' = Advance(next') /\ kind' = kind
  BY DEF foreach_delete
<1>2. loop.at \in Heads /\ loop.ptr # EndOf(kind, loop.at)
  BY <1>1, LoopingVisits DEF Looping
<1>3. PICK L : L = Lists
  OBVIOUS
<1>4. /\ L \in [Heads -> Seq(Elems)] /\ loop \in LoopState /\ Visiting(kind, L, loop)
      /\ Well /\ kind \in {"list", "slist", "hlist"}
  BY <1>2, <1>3, LoopingVisits DEF Shape
<1>5. PICK d \in 0 .. Len(L[loop.at]) - 1 :
        Spot(kind, L, loop, d) /\ loop.ptr = L[loop.at][d + 1] /\ loop.ptr \in Elems
  BY <1>2, <1>4, AtElement
<1>6. L[loop.at] \in Seq(Elems) /\ Len(L[loop.at]) \in Nat
  BY <1>2, <1>4
<1>7. PICK p \in 1 .. Len(L[loop.at]) : p = d + 1
  BY <1>6
<1>8. Deletes(loop.at, loop.ptr)
  <2>1. CASE kind = "list"
    BY <1>1, <2>1 DEF foreach_delete, Deletes
  <2>2. CASE kind = "slist"
    BY <1>1, <2>2 DEF foreach_delete, Deletes
  <2>3. CASE kind = "hlist"
    BY <1>1, <2>3 DEF foreach_delete, Deletes
  <2> QED
    BY <1>4, <2>1, <2>2, <2>3
<1>9. Deletes(loop.at, Lists[loop.at][p]) /\ p \in 1 .. Len(Lists[loop.at])
  BY <1>3, <1>5, <1>7, <1>8
<1>10. Well' /\ TakeStep(loop.at, p)
  BY <1>2, <1>4, <1>9, DeleteStep
<1>11. PICK L2 : L2 = Lists'
  OBVIOUS
<1>12. Shape(kind, next', prev', L2)
  BY <1>1, <1>10, <1>11 DEF Well
<1>13. L2[loop.at] = Drop(L[loop.at], d + 1)
  <2>1. L2 = [L EXCEPT ![loop.at] = Drop(L[loop.at], p)]
    BY <1>3, <1>10, <1>11 DEF TakeStep
  <2> QED
    BY <1>2, <1>4, <1>7, <2>1
<1>14. Advanced(loop, next') \in LoopState /\ Visiting(kind, L2, Advanced(loop, next'))
  BY <1>4, <1>5, <1>12, <1>13, DeleteVisits
<1>15. loop' = Advanced(loop, next')
  BY <1>1 DEF Advance, Advanced
<1>16. LoopInv'
  BY <1>1, <1>11, <1>14, <1>15 DEF LoopInv
<1> QED
  BY <1>1, <1>2, <1>9, <1>10, <1>16 DEF ListInv

LEMMA foreach_end_Step ==
  ASSUME ListInv, foreach_end
  PROVE  ListInv' /\ Lists' = Lists
<1>1. loop' = NoLoop /\ UNCHANGED <<kind, next, prev>>
  BY DEF foreach_end
<1>2. Well' /\ Lists' = Lists
  BY <1>1, SameStep DEF ListInv
<1>3. NoLoop \in LoopState
  BY DEF NoLoop, LoopState
<1>4. LoopInv'
  BY <1>1, <1>3 DEF LoopInv
<1> QED
  BY <1>2, <1>4 DEF ListInv

LEMMA InitInv ==
  ASSUME ListInit
  PROVE  ListInv /\ Lists = [h \in Heads |-> <<>>]
<1> DEFINE L == [h \in Heads |-> <<>>]
<1>1. L \in [Heads -> Seq(Elems)] /\ \A h \in Heads : L[h] = <<>> /\ Len(L[h]) = 0
  OBVIOUS
<1> HIDE DEF L
<1>2. Apart(L) /\ \A e : ~In(L, e)
  BY <1>1 DEF Apart, In
<1>3. /\ kind \in {"list", "slist", "hlist"}
      /\ next = [n \in Memory |-> IF n \in Heads /\ kind # "hlist" THEN n ELSE Null]
      /\ prev = [n \in Memory |-> IF n \in Heads /\ kind = "list" THEN n ELSE Null]
  BY DEF ListInit, Memory
<1>4. next \in Links /\ prev \in Links
  BY <1>3 DEF Links, Memory
<1>5. ASSUME NEW h \in Heads, NEW i \in 0 .. Len(L[h])
      PROVE  i = 0 /\ At(kind, L, h, i) = h /\ At(kind, L, h, i + 1) = EndOf(kind, h)
  <2>1. i = 0 /\ Len(L[h]) + 1 = i + 1
    BY <1>1
  <2> QED
    BY <1>1, <2>1, AtRules
<1>6. ASSUME NEW h \in Heads, NEW i \in 0 .. Len(L[h])
      PROVE  /\ next[At(kind, L, h, i)] = At(kind, L, h, i + 1)
             /\ Mirrored(kind, i, Len(L[h])) => prev[At(kind, L, h, i + 1)] = At(kind, L, h, i)
  <2>1. next[h] = EndOf(kind, h)
    BY <1>3 DEF EndOf, Memory
  <2>2. Mirrored(kind, i, Len(L[h])) => kind = "list"
    BY <1>1, <1>5 DEF Mirrored
  <2>3. kind = "list" => EndOf(kind, h) = h /\ prev[h] = h
    BY <1>3 DEF EndOf, Memory
  <2> QED
    BY <1>5, <2>1, <2>2, <2>3
<1>7. \A e \in Elems : next[e] = Null /\ prev[e] = Null
  BY <1>3, ListAssumption DEF Memory
<1>8. kind = "slist" => \A n \in Memory : prev[n] = Null
  BY <1>3
<1>9. Shape(kind, next, prev, L)
  BY <1>1, <1>2, <1>3, <1>4, <1>6, <1>7, <1>8 DEF Shape
<1>10. Lists = L
  BY <1>9, ShapeItems DEF Lists, Items
<1>11. Well
  BY <1>9, <1>10 DEF Well
<1>12. NoLoop \in LoopState /\ loop = NoLoop
  BY DEF NoLoop, LoopState, ListInit
<1> QED
  BY <1>10, <1>11, <1>12 DEF ListInv, LoopInv, L

\* An operation between two loops.
LEMMA BetweenLoops ==
  ASSUME ListInv, loop.at = Null, OpStep
  PROVE  ListInv' /\ LinkStep /\ kind' = kind
<1>1. loop = NoLoop /\ loop \in LoopState
  BY ListAssumption DEF ListInv, LoopInv, Visiting, NoLoop
<1> QED
  BY <1>1 DEF ListInv, LoopInv, OpStep

LEMMA ListStep ==
  ASSUME ListInv, [ListNext]_lvars
  PROVE  ListInv' /\ LinkStep /\ kind' = kind
<1>1. Well
  BY DEF ListInv
<1>2. ASSUME loop.at = Null, NEW h \in Heads, NEW e \in Elems,
             \/ list_add(h, e) \/ list_add_tail(h, e)
             \/ slist_add(h, e) \/ slist_add_tail(h, e) \/ slist_del(h, e) \/ hlist_add(h, e)
      PROVE  ListInv' /\ LinkStep /\ kind' = kind
  <2>1. CASE list_add(h, e)
    BY <1>1, <1>2, <2>1, list_add_Step, BetweenLoops
  <2>2. CASE list_add_tail(h, e)
    BY <1>1, <1>2, <2>2, list_add_tail_Step, BetweenLoops
  <2>3. CASE slist_add(h, e)
    <3>1. OpStep
      BY <1>1, <2>3, slist_front_Step DEF slist_add
    <3> QED
      BY <1>2, <3>1, BetweenLoops
  <2>4. CASE slist_add_tail(h, e)
    BY <1>1, <1>2, <2>4, slist_add_tail_Step, BetweenLoops
  <2>5. CASE slist_del(h, e)
    BY <1>1, <1>2, <2>5, slist_del_Step, BetweenLoops
  <2>6. CASE hlist_add(h, e)
    BY <1>1, <1>2, <2>6, hlist_add_Step, BetweenLoops
  <2> QED
    BY <1>2, <2>1, <2>2, <2>3, <2>4, <2>5, <2>6
<1>3. ASSUME loop.at = Null, NEW e \in Elems, list_del(e) \/ hlist_del(e)
      PROVE  ListInv' /\ LinkStep /\ kind' = kind
  BY <1>1, <1>3, list_del_Step, BetweenLoops
<1>4. ASSUME loop.at = Null, NEW l \in Heads, NEW h \in Heads, list_splice(l, h)
      PROVE  ListInv' /\ LinkStep /\ kind' = kind
  BY <1>1, <1>4, list_splice_Step, BetweenLoops
<1>5. ASSUME NEW h \in Heads, foreach_begin(h)
      PROVE  ListInv' /\ LinkStep /\ kind' = kind
  BY <1>5, foreach_begin_Step DEF LinkStep, foreach_begin
<1>6. CASE foreach_keep
  BY <1>6, foreach_keep_Step DEF LinkStep, foreach_keep
<1>7. CASE foreach_delete
  BY <1>7, foreach_delete_Step DEF LinkStep
<1>8. CASE foreach_end
  BY <1>8, foreach_end_Step DEF LinkStep, foreach_end
<1>9. CASE UNCHANGED lvars
  <2>1. Well' /\ Lists' = Lists /\ UNCHANGED <<kind, loop>>
    BY <1>1, <1>9, SameStep DEF lvars
  <2>2. LoopInv'
    BY <2>1 DEF LoopInv, ListInv
  <2> QED
    BY <2>1, <2>2 DEF ListInv, LinkStep
<1> QED
  BY <1>2, <1>3, <1>4, <1>5, <1>6, <1>7, <1>8, <1>9 DEF ListNext

\* The links of all lists stand for sequences without a common element, and a loop
\* that is under way stands where what is left to visit begins.
THEOREM ListInvariance == ListSpec => []ListInv
<1>1. ListInit => ListInv
  BY InitInv
<1>2. ListInv /\ [ListNext]_lvars => ListInv'
  BY ListStep
<1> QED
  BY <1>1, <1>2, PTL DEF ListSpec

-----------------------------------------------------------------------------
(* Links back *)

LEMMA ReverseRules ==
  ASSUME NEW s \in Seq(Elems), Distinct(s)
  PROVE  /\ Reverse(s) \in Seq(Elems) /\ Len(Reverse(s)) = Len(s) /\ Distinct(Reverse(s))
         /\ \A i \in 1 .. Len(s) : Reverse(s)[i] = s[(Len(s) - i) + 1]
<1> DEFINE n == Len(s)
<1>1. n \in Nat /\ \A i \in 1 .. n : s[i] \in Elems
  OBVIOUS
<1>2. \A i \in 1 .. n : (n - i) + 1 \in 1 .. n
  BY <1>1
<1> HIDE DEF n
<1>3. Reverse(s) = [i \in 1 .. n |-> s[(n - i) + 1]]
  BY DEF Reverse, n
<1>4. Reverse(s) \in [1 .. n -> Elems]
  BY <1>1, <1>2, <1>3
<1>5. Reverse(s) \in Seq(Elems) /\ Len(Reverse(s)) = n
  BY <1>1, <1>4
<1>6. ASSUME NEW i \in 1 .. n, NEW j \in 1 .. n, Reverse(s)[i] = Reverse(s)[j]
      PROVE  i = j
  <2>1. s[(n - i) + 1] = s[(n - j) + 1]
    BY <1>3, <1>6
  <2>2. (n - i) + 1 = (n - j) + 1
    BY <1>2, <2>1 DEF Distinct, n
  <2> QED
    BY <1>1, <2>2
<1>7. Distinct(Reverse(s))
  BY <1>5, <1>6 DEF Distinct
<1> QED
  BY <1>3, <1>5, <1>7 DEF n

LEMMA ReverseLeads ==
  ASSUME NEW nx, NEW pv, NEW L, Shape("list", nx, pv, L), NEW h \in Heads
  PROVE  Follow(pv, h) = Reverse(L[h])
<1> DEFINE s == L[h]
           n == Len(s)
           r == Reverse(s)
<1>1. L \in [Heads -> Seq(Elems)] /\ Apart(L) /\ s \in Seq(Elems) /\ n \in Nat
  BY DEF Shape
<1>2. Distinct(s)
  BY <1>1 DEF Apart, Distinct
<1>3. /\ r \in Seq(Elems) /\ Len(r) = n /\ Distinct(r)
      /\ \A i \in 1 .. n : r[i] = s[(n - i) + 1]
  BY <1>1, <1>2, ReverseRules
<1>4. /\ At("list", L, h, 0) = h /\ At("list", L, h, n + 1) = h
      /\ \A i \in 1 .. n : At("list", L, h, i) = s[i]
  BY <1>1, AtRules DEF EndOf
<1>5. \A i \in 0 .. n : pv[At("list", L, h, i + 1)] = At("list", L, h, i)
  BY DEF Shape, Mirrored
<1>6. h \notin Elems
  BY ListAssumption
<1> HIDE DEF s, n, r
<1>7. ASSUME NEW i \in 0 .. n + 1 PROVE Node(h, r, h, i) = At("list", L, h, (n + 1) - i)
  <2>1. CASE i = 0
    BY <1>1, <1>4, <2>1 DEF Node
  <2>2. CASE i = n + 1
    <3>1. ~(i <= Len(r)) /\ i # 0 /\ (n + 1) - i = 0
      BY <1>1, <1>3, <2>2
    <3> QED
      BY <1>4, <3>1 DEF Node
  <2>3. CASE i \in 1 .. n
    <3>1. i # 0 /\ i <= Len(r) /\ (n - i) + 1 = (n + 1) - i /\ (n + 1) - i \in 1 .. n
      BY <1>1, <1>3, <2>3
    <3>2. Node(h, r, h, i) = r[i]
      BY <3>1 DEF Node
    <3> QED
      BY <1>3, <1>4, <2>3, <3>1, <3>2
  <2> QED
    BY <1>1, <2>1, <2>2, <2>3
<1>8. ASSUME NEW i \in 0 .. n PROVE pv[Node(h, r, h, i)] = Node(h, r, h, i + 1)
  <2>1. PICK j \in 0 .. n : j = (n + 1) - (i + 1) /\ j + 1 = (n + 1) - i
    BY <1>1
  <2>2. i \in 0 .. n + 1 /\ i + 1 \in 0 .. n + 1
    BY <1>1
  <2>3. Node(h, r, h, i) = At("list", L, h, j + 1) /\ Node(h, r, h, i + 1) = At("list", L, h, j)
    BY <1>7, <2>1, <2>2
  <2> QED
    BY <1>5, <2>3
<1>9. Leads(pv, h, r, h)
  BY <1>3, <1>8 DEF Leads
<1>10. Follow(pv, h) = r
  BY <1>3, <1>6, <1>9, FollowLeads
<1> QED
  BY <1>10 DEF r, s

\* In an hlist the link back of what a node leads to is that node.
LEMMA BackOfNext ==
  ASSUME NEW nx, NEW pv, NEW L, Shape("hlist", nx, pv, L), NEW m \in Memory, nx[m] # Null
  PROVE  pv[nx[m]] = m
<1>1. L \in [Heads -> Seq(Elems)]
  BY DEF Shape
<1>2. \E h \in Heads : \E i \in 0 .. Len(L[h]) : m = At("hlist", L, h, i)
  <2>1. CASE m \in Heads
    <3>1. m = At("hlist", L, m, 0) /\ 0 \in 0 .. Len(L[m])
      BY <1>1, <2>1, AtRules
    <3> QED
      BY <2>1, <3>1
  <2>2. CASE m \in Elems
    <3>1. In(L, m)
      BY <2>2 DEF Shape
    <3>2. PICK h \in Heads : \E i \in 1 .. Len(L[h]) : L[h][i] = m
      BY <3>1 DEF In
    <3>3. PICK i \in 1 .. Len(L[h]) : L[h][i] = m
      BY <3>2
    <3>4. At("hlist", L, h, i) = m
      BY <1>1, <3>3, AtRules
    <3>5. i \in 0 .. Len(L[h])
      BY <1>1
    <3> QED
      BY <3>4, <3>5
  <2> QED
    BY <2>1, <2>2 DEF Memory
<1>3. PICK h \in Heads : \E i \in 0 .. Len(L[h]) : m = At("hlist", L, h, i)
  BY <1>2
<1>4. PICK i \in 0 .. Len(L[h]) : m = At("hlist", L, h, i)
  BY <1>3
<1>5. nx[m] = At("hlist", L, h, i + 1)
  BY <1>4 DEF Shape
<1>6. Len(L[h]) \in Nat /\ At("hlist", L, h, Len(L[h]) + 1) = Null
  BY <1>1, AtRules DEF EndOf
<1>7. i # Len(L[h])
  BY <1>5, <1>6
<1>8. Mirrored("hlist", i, Len(L[h]))
  <2>1. i < Len(L[h])
    BY <1>6, <1>7
  <2> QED
    BY <2>1 DEF Mirrored
<1>9. pv[At("hlist", L, h, i + 1)] = At("hlist", L, h, i)
  BY <1>8 DEF Shape
<1> QED
  BY <1>4, <1>5, <1>9

\* A list reads the same backwards, pprev of an hlist's node leads to the node in
\* front of it, and a node on no list has no links, after any operation of list.h.
THEOREM ListBackLinks == ListSpec => []BackLinks
<1>1. ASSUME ListInv PROVE BackLinks
  <2>1. Shape(kind, next, prev, Lists)
    BY <1>1 DEF ListInv, Well
  <2>2. \A h \in Heads : Lists[h] = Items(h)
    BY DEF Lists
  <2>3. kind = "list" => \A h \in Heads : Follow(prev, h) = Reverse(Items(h))
    BY <2>1, <2>2, ReverseLeads
  <2>4. kind = "hlist" => \A n \in Heads \cup Elems : next[n] # Null => prev[next[n]] = n
    BY <2>1, BackOfNext DEF Memory
  <2>5. \A e \in Elems : ~Linked(e) => next[e] = Null /\ prev[e] = Null
    BY <2>1, LinkedIn DEF Shape
  <2> QED
    BY <2>3, <2>4, <2>5 DEF BackLinks
<1> QED
  BY <1>1, ListInvariance, PTL

-----------------------------------------------------------------------------
(* What a loop visits *)

LEMMA VisitsPrefix ==
  ASSUME NEW k, NEW L, L \in [Heads -> Seq(Elems)], NEW lp \in LoopState, Visiting(k, L, lp)
  PROVE  /\ IsPrefix(lp.seen, lp.todo)
         /\ lp.ptr = EndOf(k, lp.at) => lp.seen = lp.todo
<1> DEFINE s == lp.seen
           t == lp.todo
<1>1. s \in Seq(Elems) /\ t \in Seq(Elems) /\ Len(s) \in Nat /\ Len(t) \in Nat
  BY DEF LoopState
<1>2. lp.at \in Heads /\ \A i \in 1 .. Len(s) : s[i] = t[i]
  BY DEF Visiting
<1>3. PICK d \in 0 .. Len(L[lp.at]) : Spot(k, L, lp, d)
  BY DEF Visiting
<1>4. /\ Len(L[lp.at]) \in Nat /\ EndOf(k, lp.at) \notin Elems
      /\ \A i \in 1 .. Len(L[lp.at]) : At(k, L, lp.at, i) = L[lp.at][i] /\ L[lp.at][i] \in Elems
  <2>1. PICK h \in Heads : h = lp.at
    BY <1>2
  <2>2. /\ Len(L[h]) \in Nat /\ EndOf(k, h) \notin Elems
        /\ \A i \in 1 .. Len(L[h]) : At(k, L, h, i) = L[h][i] /\ L[h][i] \in Elems
    BY AtRules
  <2> QED
    BY <2>1, <2>2
<1>5. Len(L[lp.at]) - d = Len(t) - Len(s) /\ lp.ptr = At(k, L, lp.at, d + 1)
  BY <1>3 DEF Spot
<1> HIDE DEF s, t
<1>6. Len(s) <= Len(t)
  BY <1>1, <1>3, <1>4, <1>5
<1>7. SubSeq(s, 1, Len(s)) = SubSeq(t, 1, Len(s))
  BY <1>1, <1>2, <1>6
<1>8. ASSUME lp.ptr = EndOf(k, lp.at) PROVE s = t
  <2>1. d = Len(L[lp.at])
    <3>1. CASE d + 1 \in 1 .. Len(L[lp.at])
      <4>1. PICK j \in 1 .. Len(L[lp.at]) : j = d + 1
        BY <3>1
      <4>2. At(k, L, lp.at, j) \in Elems /\ EndOf(k, lp.at) \notin Elems
        BY <1>4
      <4> QED
        BY <1>5, <1>8, <4>1, <4>2
    <3> QED
      BY <1>4, <3>1
  <2>2. Len(s) = Len(t)
    BY <1>1, <1>4, <1>5, <2>1
  <2> QED
    BY <1>1, <1>2, <2>2
<1> QED
  BY <1>6, <1>7, <1>8 DEF IsPrefix, s, t

\* The loops of the FOREACH_MUTABLE macros visit what was on the list when they
\* started, in order and each element once, and do not end before, whatever their
\* bodies delete; only one over an empty hlist reads through a null pointer.
THEOREM LoopsVisitAll == ListSpec => []LoopVisits
<1>1. ASSUME ListInv PROVE LoopVisits
  <2>1. CASE loop.at \in Heads
    <3>1. /\ Lists \in [Heads -> Seq(Elems)] /\ loop \in LoopState
          /\ Visiting(kind, Lists, loop) /\ End(loop.at) = EndOf(kind, loop.at)
      BY <1>1, <2>1, LoopingVisits
    <3>2. /\ IsPrefix(loop.seen, loop.todo)
          /\ loop.ptr = EndOf(kind, loop.at) => loop.seen = loop.todo
      BY <3>1, VisitsPrefix
    <3>3. loop.at # "fault"
      BY <2>1, ListAssumption
    <3> QED
      BY <3>1, <3>2, <3>3 DEF LoopVisits, Looping
  <2>2. CASE loop.at \notin Heads
    <3>1. loop = NoLoop \/ (loop = [NoLoop EXCEPT !.at = "fault"] /\ kind = "hlist")
      BY <1>1, <2>2 DEF ListInv, LoopInv, Visiting
    <3>2. loop.seen = <<>> /\ loop.todo = <<>> /\ (loop.at = "fault" => kind = "hlist")
      BY <3>1, ListAssumption DEF NoLoop
    <3>3. IsPrefix(<<>>, <<>>)
      BY DEF IsPrefix
    <3> QED
      BY <2>2, <3>2, <3>3 DEF LoopVisits
  <2> QED
    BY <2>1, <2>2
<1> QED
  BY <1>1, ListInvariance, PTL

-----------------------------------------------------------------------------
(* The lists as sequences *)

LEMMA InsertEnds ==
  ASSUME NEW s \in Seq(Elems), NEW e \in Elems
  PROVE  Insert(s, 0, e) = Cons(e, s) /\ Insert(s, Len(s), e) = Append(s, e)
<1> DEFINE n == Len(s)
<1>1. n \in Nat /\ n + 1 \in Nat
  OBVIOUS
<1>2. /\ Cons(e, s) \in Seq(Elems) /\ Len(Cons(e, s)) = n + 1
      /\ \A i \in 1 .. n + 1 : Cons(e, s)[i] = IF i <= 1 THEN e ELSE s[i - 1]
  BY DEF Cons
<1>3. /\ Append(s, e) \in Seq(Elems) /\ Len(Append(s, e)) = n + 1
      /\ \A i \in 1 .. n + 1 : Append(s, e)[i] = IF i <= n THEN s[i] ELSE e
  OBVIOUS
<1>4. /\ 0 \in 0 .. n /\ n \in 0 .. n
  BY <1>1
<1>5. /\ Insert(s, 0, e) \in Seq(Elems) /\ Len(Insert(s, 0, e)) = n + 1
      /\ \A i \in 1 .. n + 1 :
           Insert(s, 0, e)[i] = IF i <= 0 THEN s[i] ELSE IF i = 0 + 1 THEN e ELSE s[i - 1]
  BY <1>4, InsertRules
<1>6. /\ Insert(s, n, e) \in Seq(Elems) /\ Len(Insert(s, n, e)) = n + 1
      /\ \A i \in 1 .. n + 1 :
           Insert(s, n, e)[i] = IF i <= n THEN s[i] ELSE IF i = n + 1 THEN e ELSE s[i - 1]
  BY <1>4, InsertRules
<1> HIDE DEF n
<1>7. Insert(s, 0, e) = Cons(e, s)
  <2>1. \A i \in 1 .. n + 1 : Insert(s, 0, e)[i] = Cons(e, s)[i]
    BY <1>1, <1>2, <1>5
  <2> QED
    BY <1>2, <1>5, <2>1
<1>8. Insert(s, n, e) = Append(s, e)
  <2>1. \A i \in 1 .. n + 1 : Insert(s, n, e)[i] = Append(s, e)[i]
    BY <1>1, <1>3, <1>6
  <2> QED
    BY <1>3, <1>6, <2>1
<1> QED
  BY <1>7, <1>8 DEF n

LEMMA DropRemoves ==
  ASSUME NEW s \in Seq(Elems), NEW p \in 1 .. Len(s)
  PROVE  Drop(s, p) = RemoveAt(s, p)
<1> DEFINE n == Len(s)
           a == SubSeq(s, 1, p - 1)
           b == SubSeq(s, p + 1, n)
<1>1. n \in Nat /\ p \in Int /\ 1 <= p /\ p <= n
  OBVIOUS
<1>2. a \in Seq(Elems) /\ Len(a) = p - 1 /\ \A i \in 1 .. p - 1 : a[i] = s[i]
  BY <1>1
<1>3. b \in Seq(Elems) /\ Len(b) = n - p /\ \A i \in 1 .. n - p : b[i] = s[p + i]
  BY <1>1
<1>4. RemoveAt(s, p) = a \o b
  BY DEF RemoveAt
<1> HIDE DEF a, b, n
<1>5. /\ a \o b \in Seq(Elems) /\ Len(a \o b) = n - 1
      /\ \A i \in 1 .. n - 1 : (a \o b)[i] = IF i <= p - 1 THEN a[i] ELSE b[i - (p - 1)]
  <2>1. /\ a \o b \in Seq(Elems) /\ Len(a \o b) = Len(a) + Len(b)
        /\ \A i \in 1 .. Len(a) + Len(b) :
             (a \o b)[i] = IF i <= Len(a) THEN a[i] ELSE b[i - Len(a)]
    BY <1>2, <1>3, ConcatRules
  <2>2. Len(a) + Len(b) = n - 1
    BY <1>1, <1>2, <1>3
  <2> QED
    BY <1>2, <2>1, <2>2
<1>6. /\ Drop(s, p) \in Seq(Elems) /\ Len(Drop(s, p)) = n - 1
      /\ \A i \in 1 .. n - 1 : Drop(s, p)[i] = IF i < p THEN s[i] ELSE s[i + 1]
  BY DropRules DEF n
<1>7. ASSUME NEW i \in 1 .. n - 1 PROVE Drop(s, p)[i] = (a \o b)[i]
  <2>1. CASE i < p
    <3>1. i <= p - 1 /\ i \in 1 .. p - 1
      BY <1>1, <2>1
    <3> QED
      BY <1>2, <1>5, <1>6, <2>1, <3>1
  <2>2. CASE ~(i < p)
    <3>1. ~(i <= p - 1) /\ i - (p - 1) \in 1 .. n - p /\ p + (i - (p - 1)) = i + 1
      BY <1>1, <2>2
    <3>2. b[i - (p - 1)] = s[i + 1]
      BY <1>3, <3>1
    <3> QED
      BY <1>5, <1>6, <2>2, <3>1, <3>2
  <2> QED
    BY <2>1, <2>2
<1> QED
  BY <1>4, <1>5, <1>6, <1>7

LEMMA StepRefines ==
  ASSUME ListInv, LinkStep
  PROVE  [Seqs!Next]_Lists
<1>1. Lists \in [Heads -> Seq(Elems)]
  BY DEF ListInv, Well, Shape
<1>2. \A e : Seqs!On(e) <=> In(Lists, e)
  BY DEF Seqs!On, In, Lists, Seqs!Contains
<1>3. ASSUME NEW h \in Heads, NEW e \in Elems, NEW p \in {0, Len(Lists[h])}, PutStep(h, p, e)
      PROVE  Seqs!Next
  <2>1. Lists[h] \in Seq(Elems)
    BY <1>1
  <2>2. ~Seqs!On(e)
    BY <1>2, <1>3 DEF PutStep
  <2>3. Lists' = [Lists EXCEPT ![h] = Insert(Lists[h], p, e)]
    BY <1>3 DEF PutStep
  <2>4. Insert(Lists[h], p, e) = Cons(e, Lists[h]) \/ Insert(Lists[h], p, e) = Append(Lists[h], e)
    BY <2>1, InsertEnds
  <2>5. \/ Lists' = [Lists EXCEPT ![h] = Cons(e, Lists[h])]
        \/ Lists' = [Lists EXCEPT ![h] = Append(Lists[h], e)]
    BY <2>3, <2>4
  <2>6. Seqs!Put(h, e)
    BY <2>2, <2>5 DEF Seqs!Put, Lists, Seqs!Cons, Cons
  <2> QED
    BY <2>6 DEF Seqs!Next
<1>4. ASSUME NEW h \in Heads, NEW p \in 1 .. Len(Lists[h]), TakeStep(h, p)
      PROVE  Seqs!Next
  <2>1. Lists[h] \in Seq(Elems) /\ Lists[h][p] \in Elems
    BY <1>1
  <2>2. Lists' = [Lists EXCEPT ![h] = RemoveAt(Lists[h], p)]
    BY <1>4, <2>1, DropRemoves DEF TakeStep
  <2>3. Seqs!Take(h, Lists[h][p])
    BY <2>2 DEF Seqs!Take, Lists, Seqs!RemoveAt, RemoveAt
  <2> QED
    BY <2>1, <2>3 DEF Seqs!Next
<1>5. ASSUME NEW l \in Heads, NEW h \in Heads, SpliceStep(l, h)
      PROVE  Seqs!Next
  <2>1. l # h /\ Lists' = [Lists EXCEPT ![l] = <<>>, ![h] = Lists[l] \o Lists[h]]
    BY <1>5 DEF SpliceStep
  <2>2. Lists' = [Lists EXCEPT ![l] = <<>>, ![h] = Lists[l] \o @]
    BY <1>1, <2>1
  <2>3. Seqs!Splice(l, h)
    BY <2>2 DEF Seqs!Splice, Lists
  <2> QED
    BY <2>1, <2>3 DEF Seqs!Next
<1> QED
  BY <1>3, <1>4, <1>5 DEF LinkStep

\* After every operation, and at every step of a loop, the links stand for sequences
\* that changed as ListSeqs says: nothing is lost, doubled, reordered or mixed up.
THEOREM ListsRefineSequences == ListSpec => ImplementsLists
<1>1. ListInit => Seqs!Init
  BY InitInv DEF Seqs!Init, Lists
<1>2. ListInv /\ [ListNext]_lvars => [Seqs!Next]_[h \in Heads |-> Items(h)]
  BY ListStep, StepRefines DEF Lists
<1> QED
  BY <1>1, <1>2, ListInvariance, PTL DEF ListSpec, ImplementsLists, Seqs!Spec

=============================================================================
