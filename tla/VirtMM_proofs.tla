---------------------------- MODULE VirtMM_proofs ---------------------------
(***************************************************************************)
(* Proofs about the virtual memory manager for tables of any width, any    *)
(* finite set of frames and ranges of any length.                          *)
(***************************************************************************)
EXTENDS VirtMM, FiniteSetTheorems, WellFoundedInduction, TLAPS

Word == 0 .. Width - 1
Contents == [Frames -> [Word -> Nat \cup {Unmapped}]]

\* The walk of VirtMM, in tables T that are not those of the current state.
Hop(T, t, v, level) == IF t = Unmapped THEN Unmapped ELSE T[t][Index(v, level)]
PT(T, v) == Hop(T, Hop(T, Hop(T, Root, v, 4), v, 3), v, 2)
Leaf(T, v) == Hop(T, PT(T, v), v, 1)

-----------------------------------------------------------------------------
(* Numbers *)

Size == Width * Width * Width * Width

LEMMA DivModUnique ==
  ASSUME NEW m \in Nat \ {0}, NEW d \in Int, NEW e \in 0 .. m - 1, NEW x \in Int,
         x = m * d + e
  PROVE  x \div m = d /\ x % m = e
<1> DEFINE q == x \div m  r == x % m
<1>1. q \in Int /\ r \in 0 .. m - 1 /\ x = m * q + r
  OBVIOUS
<1> HIDE DEF q, r
<1>2. m * q + r = m * d + e
  BY <1>1
<1>3. m * (q - d) = e - r
  BY <1>1, <1>2
<1>4. ASSUME q > d PROVE FALSE
  <2>1. PICK k \in Nat : q - d = k + 1
    <3>1. q - d - 1 \in Nat /\ q - d = (q - d - 1) + 1
      BY <1>1, <1>4
    <3> QED
      BY <3>1
  <2>2. m * k \in Nat
    OBVIOUS
  <2>3. m * (k + 1) = m * k + m
    OBVIOUS
  <2> QED
    BY <1>1, <1>3, <2>1, <2>2, <2>3
<1>5. ASSUME q < d PROVE FALSE
  <2>1. PICK k \in Nat : d - q = k + 1
    <3>1. d - q - 1 \in Nat /\ d - q = (d - q - 1) + 1
      BY <1>1, <1>5
    <3> QED
      BY <3>1
  <2>2. m * k \in Nat
    OBVIOUS
  <2>3. m * (k + 1) = m * k + m /\ m * (d - q) = r - e
    BY <1>1, <1>3
  <2> QED
    BY <1>1, <2>1, <2>2, <2>3
<1>6. q = d
  BY <1>1, <1>4, <1>5
<1>7. r = e
  BY <1>1, <1>2, <1>6
<1> QED
  BY <1>6, <1>7 DEF q, r

\* The same, for a number that is known to be split into quotient and remainder.
Split(x, m, d, e) ==
  /\ m \in Nat \ {0} /\ d \in Int /\ e \in 0 .. m - 1 /\ x \in Int
  /\ x = m * d + e

LEMMA SplitIsDivMod ==
  ASSUME NEW x, NEW m, NEW d, NEW e, Split(x, m, d, e)
  PROVE  x \div m = d /\ x % m = e
BY DivModUnique DEF Split

LEMMA DivDiv ==
  ASSUME NEW v \in Nat, NEW a \in Nat \ {0}, NEW b \in Nat \ {0}
  PROVE  (v \div a) \div b = v \div (a * b)
<1> DEFINE x == v \div a  y == x \div b  r == v % a  s == x % b
<1>1. x \in Nat /\ r \in 0 .. a - 1 /\ v = a * x + r
  OBVIOUS
<1>2. y \in Nat /\ s \in 0 .. b - 1 /\ x = b * y + s
  BY <1>1
<1> HIDE DEF x, y, r, s
<1>3. a * x = (a * b) * y + a * s
  <2>1. a * (b * y + s) = (a * b) * y + a * s
    BY <1>1, <1>2
  <2> QED
    BY <1>2, <2>1
<1>4. a * s + r \in 0 .. a * b - 1
  <2>1. a * s + r \in Nat
    BY <1>1, <1>2
  <2>2. a * s + a = a * (s + 1) /\ a * b \in Int
    BY <1>2
  <2>3. s + 1 <= b
    BY <1>2
  <2>4. b - (s + 1) \in Nat /\ a * (b - (s + 1)) \in Nat
    BY <1>2, <2>3
  <2>5. a * b = a * (s + 1) + a * (b - (s + 1))
    BY <1>2
  <2>6. a * (s + 1) \in Int
    BY <1>2
  <2> HIDE DEF Size
  <2> QED
    BY <1>1, <1>2, <2>1, <2>2, <2>4, <2>5, <2>6
<1>5. v = (a * b) * y + (a * s + r)
  BY <1>1, <1>2, <1>3
<1>6. a * b \in Nat \ {0}
  OBVIOUS
<1>7. Split(v, a * b, y, a * s + r)
  BY <1>2, <1>4, <1>5, <1>6 DEF Split
<1>8. v \div (a * b) = y
  BY <1>7, SplitIsDivMod
<1> QED
  BY <1>8 DEF x, y

LEMMA SizeType == Size \in Nat \ {0} /\ Virt = 0 .. Size - 1 /\ Virt \subseteq Nat
<1>1. Width \in Nat \ {0}
  BY VirtAssumption
<1>2. Width * Width \in Nat \ {0}
  BY <1>1
<1>3. Width * Width * Width \in Nat \ {0}
  BY <1>1, <1>2
<1>4. Size \in Nat \ {0}
  BY <1>1, <1>3 DEF Size
<1> QED
  BY <1>4 DEF Size, Virt

\* An index is the number of an entry.
LEMMA IndexType ==
  ASSUME NEW v \in Nat, NEW level \in 1 .. 4
  PROVE  Index(v, level) \in Word
<1>1. Width \in Nat \ {0}
  BY VirtAssumption
<1>2. ASSUME NEW x \in Nat PROVE x % Width \in Word
  BY <1>1 DEF Word
<1>3. Width * Width \in Nat \ {0}
  BY <1>1
<1>4. Width * Width * Width \in Nat \ {0}
  BY <1>1, <1>3
<1>5. /\ v \div Width \in Nat
      /\ v \div (Width * Width) \in Nat
      /\ v \div (Width * Width * Width) \in Nat
  BY <1>1, <1>3, <1>4
<1> QED
  BY <1>2, <1>5 DEF Index

\* The four indices of a page tell it from every other page.
LEMMA IndicesTell ==
  ASSUME NEW v \in Virt, NEW w \in Virt,
         \A level \in 1 .. 4 : Index(v, level) = Index(w, level)
  PROVE  v = w
<1> DEFINE W2 == Width * Width  W3 == W2 * Width
<1>1. Width \in Nat \ {0} /\ v \in Nat /\ w \in Nat
  BY VirtAssumption, SizeType
<1>2. W2 \in Nat \ {0}
  BY <1>1
<1>3. W3 \in Nat \ {0}
  BY <1>1, <1>2
<1>4. Size = W3 * Width /\ W3 = W2 * Width /\ W2 = Width * Width
  BY DEF Size
<1>5. /\ v % Width = w % Width
      /\ (v \div Width) % Width = (w \div Width) % Width
      /\ (v \div W2) % Width = (w \div W2) % Width
      /\ (v \div W3) % Width = (w \div W3) % Width
  BY DEF Index
<1> HIDE DEF W2, W3
<1>6. ASSUME NEW x \in Virt PROVE x \div Size = 0
  <2>1. Split(x, Size, 0, x)
    BY SizeType DEF Split
  <2> QED
    BY <2>1, SplitIsDivMod
\* Two numbers with the same quotient and the same remainder are the same.
<1>7. ASSUME NEW x \in Nat, NEW y \in Nat, x \div Width = y \div Width, x % Width = y % Width
      PROVE  x = y
  <2>1. x = Width * (x \div Width) + (x % Width) /\ y = Width * (y \div Width) + (y % Width)
    BY <1>1
  <2> QED
    BY <1>7, <2>1
<1>8. \A x \in Nat : /\ x \div Width \in Nat /\ x \div W2 \in Nat /\ x \div W3 \in Nat
  BY <1>1, <1>2, <1>3
<1>9. ASSUME NEW x \in Nat
      PROVE  /\ (x \div Width) \div Width = x \div W2
             /\ (x \div W2) \div Width = x \div W3
             /\ (x \div W3) \div Width = x \div Size
  <2>1. (x \div Width) \div Width = x \div (Width * Width)
    BY <1>1, DivDiv
  <2>2. (x \div W2) \div Width = x \div (W2 * Width)
    BY <1>1, <1>2, DivDiv
  <2>3. (x \div W3) \div Width = x \div (W3 * Width)
    BY <1>1, <1>3, DivDiv
  <2> QED
    BY <1>4, <2>1, <2>2, <2>3, Zenon
<1>10. v \div W3 = w \div W3
  <2>1. (v \div W3) \div Width = (w \div W3) \div Width
    BY <1>1, <1>6, <1>9, Zenon
  <2> QED
    BY <1>1, <1>5, <1>7, <1>8, <2>1, Zenon
<1>11. v \div W2 = w \div W2
  <2>1. (v \div W2) \div Width = (w \div W2) \div Width
    BY <1>1, <1>9, <1>10, Zenon
  <2> QED
    BY <1>1, <1>5, <1>7, <1>8, <2>1, Zenon
<1>12. v \div Width = w \div Width
  <2>1. (v \div Width) \div Width = (w \div Width) \div Width
    BY <1>1, <1>9, <1>11, Zenon
  <2> QED
    BY <1>1, <1>5, <1>7, <1>8, <2>1, Zenon
<1> QED
  BY <1>1, <1>5, <1>7, <1>12, Zenon

\* Pages behind a page: they stay in range, follow each other, come back after
\* Size pages, and are different pages before that.
LEMMA PageAtFacts ==
  ASSUME NEW v \in Virt
  PROVE  /\ \A k \in Nat : PageAt(v, k) \in Virt
         /\ \A k \in Nat : NextPage(PageAt(v, k)) = PageAt(v, k + 1)
         /\ \A k \in Nat : v + k \in Virt => PageAt(v, k) = v + k
         /\ \A k \in Nat : PageAt(v, k + Size) = PageAt(v, k)
         /\ \A k \in Nat : \A n \in 0 .. k - 1 :
              k < Size => PageAt(v, n) # PageAt(v, k)
<1>1. Size \in Nat \ {0} /\ v \in 0 .. Size - 1 /\ Virt = 0 .. Size - 1
  BY SizeType
<1>2. \A u, k : PageAt(u, k) = (u + k) % Size
  BY DEF PageAt, Size
<1> HIDE DEF Size, Virt, PageAt
\* What the remainder of a number is.
<1>3. ASSUME NEW x \in Nat
      PROVE  \E q \in Nat : x % Size \in 0 .. Size - 1 /\ x = Size * q + (x % Size)
  <2>1. x \div Size \in Nat /\ x % Size \in 0 .. Size - 1 /\ x = Size * (x \div Size) + (x % Size)
    BY <1>1
  <2> QED
    BY <2>1
<1>4. ASSUME NEW k \in Nat PROVE PageAt(v, k) \in Virt
  <2>1. v + k \in Nat
    BY <1>1
  <2>2. (v + k) % Size \in 0 .. Size - 1
    BY <2>1, <1>3
  <2> QED
    BY <1>1, <1>2, <2>2, Zenon
<1>5. ASSUME NEW k \in Nat PROVE NextPage(PageAt(v, k)) = PageAt(v, k + 1)
  <2> DEFINE r == (v + k) % Size
  <2>1. v + k \in Nat
    BY <1>1
  <2>2. PICK q \in Nat : r \in 0 .. Size - 1 /\ v + k = Size * q + r
    BY <2>1, <1>3
  <2> HIDE DEF r
  <2>3. NextPage(PageAt(v, k)) = (r + 1) % Size /\ PageAt(v, k + 1) = (v + (k + 1)) % Size
    BY <1>2 DEF NextPage, r
  <2>4. CASE r + 1 < Size
    <3>1. Split(v + (k + 1), Size, q, r + 1) /\ Split(r + 1, Size, 0, r + 1)
      BY <1>1, <2>2, <2>4 DEF Split
    <3>2. (v + (k + 1)) % Size = r + 1 /\ (r + 1) % Size = r + 1
      BY <3>1, SplitIsDivMod
    <3> QED
      BY <2>3, <3>2, Zenon
  <2>5. CASE r + 1 = Size
    <3>1. Split(v + (k + 1), Size, q + 1, 0) /\ Split(r + 1, Size, 1, 0)
      BY <1>1, <2>2, <2>5 DEF Split
    <3>2. (v + (k + 1)) % Size = 0 /\ (r + 1) % Size = 0
      BY <3>1, SplitIsDivMod
    <3> QED
      BY <2>3, <3>2, Zenon
  <2> QED
    BY <1>1, <2>2, <2>4, <2>5
<1>6. ASSUME NEW k \in Nat, v + k \in Virt PROVE PageAt(v, k) = v + k
  <2>1. Split(v + k, Size, 0, v + k)
    BY <1>1, <1>6 DEF Split
  <2>2. (v + k) % Size = v + k
    BY <2>1, SplitIsDivMod
  <2> QED
    BY <1>2, <2>2, Zenon
<1>7. ASSUME NEW k \in Nat PROVE PageAt(v, k + Size) = PageAt(v, k)
  <2> DEFINE r == (v + k) % Size
  <2>1. v + k \in Nat
    BY <1>1
  <2>2. PICK q \in Nat : r \in 0 .. Size - 1 /\ v + k = Size * q + r
    BY <2>1, <1>3
  <2>3. PageAt(v, k) = r
    BY <1>2
  <2> HIDE DEF r
  <2>4. Split(v + (k + Size), Size, q + 1, r)
    BY <1>1, <2>2 DEF Split
  <2>5. (v + (k + Size)) % Size = r
    BY <2>4, SplitIsDivMod
  <2> QED
    BY <1>2, <2>3, <2>5, Zenon
<1>8. ASSUME NEW k \in Nat, NEW n \in 0 .. k - 1, k < Size, PageAt(v, n) = PageAt(v, k)
      PROVE  FALSE
  <2> DEFINE r == (v + k) % Size
  <2>1. v + k \in Nat /\ v + n \in Nat /\ (v + n) % Size = r
    <3>1. v + k \in Nat /\ v + n \in Nat
      BY <1>1
    <3> QED
      BY <1>2, <1>8, <3>1, Zenon
  <2>2. PICK q \in Nat : r \in 0 .. Size - 1 /\ v + k = Size * q + r
    BY <2>1, <1>3
  <2>3. PICK p \in Nat : v + n = Size * p + r
    BY <2>1, <1>3
  <2> HIDE DEF r
  <2>4. k - n = Size * (q - p)
    BY <1>1, <2>2, <2>3
  <2>5. k - n \in 1 .. Size - 1
    BY <1>1, <1>8
  <2>6. ASSUME q - p >= 1 PROVE FALSE
    <3>1. q - p - 1 \in Nat /\ Size * (q - p - 1) \in Nat
      BY <1>1, <2>6
    <3>2. Size * (q - p) = Size * (q - p - 1) + Size
      BY <1>1
    <3> QED
      BY <1>1, <2>4, <2>5, <3>1, <3>2
  <2>7. ASSUME q - p <= 0 PROVE FALSE
    <3>1. p - q \in Nat /\ Size * (p - q) \in Nat /\ Size * (q - p) = 0 - Size * (p - q)
      BY <1>1, <2>7
    <3> QED
      BY <1>1, <2>4, <2>5, <3>1
  <2> QED
    BY <2>6, <2>7
<1> QED
  BY <1>4, <1>5, <1>6, <1>7, <1>8

-----------------------------------------------------------------------------
(* The inductive invariant *)

\* lev grades the frames: the root is a table of level 4, an entry of a table
\* of level 4, 3 or 2 leads to a table of the next lower level, no two lead to
\* the same one, and a frame that no entry leads to is no table: level 0.  The
\* frames in F and in O are none.
Graded(T, F, O, lev) ==
  /\ lev \in [Frames -> 0 .. 4]
  /\ \A t \in Frames : lev[t] = 4 <=> t = Root
  /\ \A t \in Frames : lev[t] \in 2 .. 4 => \A i \in Word :
       T[t][i] = Unmapped \/ (T[t][i] \in Frames /\ lev[T[t][i]] = lev[t] - 1)
  /\ \A t \in Frames : lev[t] = 1 => \A i \in Word : T[t][i] \in Phys \cup {Unmapped}
  /\ \A t, u \in Frames : \A i, j \in Word :
       /\ lev[t] \in 2 .. 4 /\ lev[u] \in 2 .. 4
       /\ T[t][i] # Unmapped /\ T[t][i] = T[u][j]
       => t = u /\ i = j
  /\ \A t \in Frames : lev[t] \in 1 .. 3 =>
       \E u \in Frames, i \in Word : lev[u] \in 2 .. 4 /\ T[u][i] = t
  /\ \A t \in Frames : lev[t] > 0 => t \notin F /\ t \notin O

CallRecord ==
  [op : {"boot", "map", "unmap", "backtrack", "false"}, at : Virt, page : Nat,
   left : Nat \cup {Endless}, done : Nat, first : Virt]

VTypeOK ==
  /\ tab \in Contents
  /\ free \subseteq Frames /\ others \subseteq Frames /\ free \cap others = {}
  /\ mine \subseteq Virt
  /\ call \in CallRecord \cup {Idle}

Tree == \E lev : Graded(tab, free, others, lev)

\* The page has its tables, and physmm does not know the page it leads to.
Own(T, v) == PT(T, v) # Unmapped /\ Leaf(T, v) \notin Frames

\* Where the loops are, and what they have done: c is the call, T the tables.
BootLoop(c) ==
  c.op = "boot" =>
    /\ c.left \in 1 .. MaxPages
    /\ \E p \in Device : \E k \in 0 .. MaxPages - 1 : c.page = p + k /\ k + c.left <= MaxPages

MapLoop(c, T) ==
  c.op = "map" =>
    /\ c.left \in 1 .. MaxPages
    /\ c.at = PageAt(c.first, c.done)
    /\ \A k \in 0 .. c.done - 1 :
         Own(T, PageAt(c.first, k)) /\ Leaf(T, PageAt(c.first, k)) # Unmapped

UnmapLoop(c, T) ==
  c.op = "unmap" =>
    /\ c.left \in 1 .. c.done
    /\ c.at = PageAt(c.first, c.done - c.left)
    /\ \A k \in 0 .. c.done - 1 : Own(T, PageAt(c.first, k))

\* The pages that the backtrack leaves as they are: the last one that was
\* mapped, and the one that was not.
LastTwo(c, T) ==
  /\ c.done \in 2 .. Size - 1
  /\ Leaf(T, PageAt(c.first, c.done - 1)) # Unmapped
  /\ Leaf(T, PageAt(c.first, c.done)) = Unmapped

BacktrackLoop(c, T) ==
  c.op = "backtrack" /\ c.left # Endless =>
    /\ c.left \in 1 .. c.done - 1
    /\ c.at = PageAt(c.first, c.done - 1 - c.left)
    /\ LastTwo(c, T)
    /\ \A k \in 0 .. c.done - 1 : Own(T, PageAt(c.first, k))
    /\ \A k \in 0 .. c.done - 2 - c.left : Leaf(T, PageAt(c.first, k)) \in {Unmapped, 0}

Returned(c, T) ==
  c.op = "false" =>
    /\ LastTwo(c, T)
    /\ \A k \in 0 .. c.done - 2 : Leaf(T, PageAt(c.first, k)) \in {Unmapped, 0}

Loop(c, T) ==
  BootLoop(c) /\ MapLoop(c, T) /\ UnmapLoop(c, T) /\ BacktrackLoop(c, T) /\ Returned(c, T)

\* Nothing is mapped with map_address before init is done.
Stage ==
  /\ phase = "boot" => mine = {}
  /\ call # Idle => phase = IF call.op = "boot" THEN "boot" ELSE "running"

VInv ==
  /\ VTypeOK
  /\ Stage
  /\ Tree
  /\ \A v \in mine : Own(tab, v)
  /\ call # Idle => Loop(call, tab)

-----------------------------------------------------------------------------
(* The tree of tables *)

LEMMA Basics ==
  /\ Unmapped \notin Nat /\ Unmapped \notin Frames /\ Frames \subseteq Nat /\ Root \in Frames
  /\ Phys \subseteq Nat /\ 0 \in Phys /\ 0 \notin Frames
  /\ \A f \in Frames : f + Offset \in Phys /\ f + Offset \notin Frames
  /\ \A p \in Device : p \in Phys
<1>1. /\ Unmapped \notin Nat /\ Unmapped \notin Frames /\ Frames \subseteq Nat /\ Root \in Frames
      /\ 0 \notin Frames
  <2>1. Frames \subseteq Nat /\ Root \in Frames /\ 0 \notin Frames /\ Unmapped \notin Int
    BY VirtAssumption
  <2>2. Unmapped \notin Nat
    BY <2>1
  <2> QED
    BY <2>1, <2>2
<1>2. Phys \subseteq Nat /\ 0 \in Phys
  BY VirtAssumption DEF Phys
<1>3. \A f \in Frames : f + Offset \in Phys
  BY DEF Phys
<1>4. \A f \in Frames : f + Offset \notin Frames
  BY VirtAssumption
<1>5. ASSUME NEW p \in Device PROVE p \in Phys
  <2>1. p = p + 0 /\ 0 \in 0 .. MaxPages - 1
    BY VirtAssumption
  <2> QED
    BY <2>1 DEF Phys
<1> QED
  BY <1>1, <1>2, <1>3, <1>4, <1>5

OnLevel(t, lev, k) == t = Unmapped \/ (t \in Frames /\ lev[t] = k)

\* An entry of a table leads one level down.
LEMMA HopDown ==
  ASSUME NEW T, NEW F, NEW O, NEW lev, Graded(T, F, O, lev), NEW v \in Nat,
         NEW k \in 2 .. 4, NEW t, OnLevel(t, lev, k)
  PROVE  OnLevel(Hop(T, t, v, k), lev, k - 1)
<1>1. CASE t = Unmapped
  BY <1>1 DEF Hop, OnLevel
<1>2. CASE t # Unmapped
  <2>1. t \in Frames /\ lev[t] = k /\ Index(v, k) \in Word
    BY <1>2, IndexType DEF OnLevel
  <2>2. T[t][Index(v, k)] = Unmapped
          \/ (T[t][Index(v, k)] \in Frames /\ lev[T[t][Index(v, k)]] = k - 1)
    BY <2>1 DEF Graded
  <2> QED
    BY <1>2, <2>2 DEF Hop, OnLevel
<1> QED
  BY <1>1, <1>2

LEMMA WalkDown ==
  ASSUME NEW T, NEW F, NEW O, NEW lev, Graded(T, F, O, lev), NEW v \in Nat
  PROVE  /\ OnLevel(Root, lev, 4) /\ Root # Unmapped
         /\ OnLevel(Hop(T, Root, v, 4), lev, 3)
         /\ OnLevel(Hop(T, Hop(T, Root, v, 4), v, 3), lev, 2)
         /\ OnLevel(PT(T, v), lev, 1)
<1>1. OnLevel(Root, lev, 4) /\ Root # Unmapped
  BY Basics DEF Graded, OnLevel
<1>2. OnLevel(Hop(T, Root, v, 4), lev, 3)
  BY <1>1, HopDown
<1>3. OnLevel(Hop(T, Hop(T, Root, v, 4), v, 3), lev, 2)
  BY <1>2, HopDown
<1>4. OnLevel(PT(T, v), lev, 1)
  BY <1>3, HopDown DEF PT
<1> QED
  BY <1>1, <1>2, <1>3, <1>4

LEMMA LeafType ==
  ASSUME NEW T, NEW F, NEW O, NEW lev, Graded(T, F, O, lev), NEW v \in Nat
  PROVE  Leaf(T, v) \in Phys \cup {Unmapped}
<1>1. OnLevel(PT(T, v), lev, 1) /\ Index(v, 1) \in Word
  BY WalkDown, IndexType
<1> QED
  BY <1>1 DEF Leaf, Hop, OnLevel, Graded

\* A frame of physmm's becomes a table.
NewTable(T, at, i, f) == [T EXCEPT ![f] = Empty, ![at] = [@ EXCEPT ![i] = f]]

LEMMA NewTableEntries ==
  ASSUME NEW T \in Contents, NEW at \in Frames, NEW i \in Word, NEW f \in Frames, f # at
  PROVE  /\ NewTable(T, at, i, f) \in Contents
         /\ \A u \in Frames : \A j \in Word :
              NewTable(T, at, i, f)[u][j] =
                IF u = f THEN Unmapped ELSE IF u = at /\ j = i THEN f ELSE T[u][j]
<1> DEFINE T1 == [T EXCEPT ![f] = Empty]
<1>1. NewTable(T, at, i, f) = [T1 EXCEPT ![at] = [T1[at] EXCEPT ![i] = f]]
  BY DEF NewTable
<1>2. Empty \in [Word -> Nat \cup {Unmapped}]
  BY DEF Empty, Word
<1>3. T1 \in Contents /\ T1[at] = T[at] /\ T1[f] = Empty
  BY <1>2 DEF Contents
<1>4. f \in Nat
  BY Basics
<1>5. \A u \in Frames : T1[u] = IF u = f THEN Empty ELSE T[u]
  BY DEF Contents
<1> HIDE DEF T1
<1>6. [T1[at] EXCEPT ![i] = f] \in [Word -> Nat \cup {Unmapped}]
  BY <1>3, <1>4 DEF Contents
<1>7. NewTable(T, at, i, f) \in Contents
  BY <1>1, <1>3, <1>6 DEF Contents
<1>8. ASSUME NEW u \in Frames, NEW j \in Word
      PROVE  NewTable(T, at, i, f)[u][j] =
                IF u = f THEN Unmapped ELSE IF u = at /\ j = i THEN f ELSE T[u][j]
  <2>1. CASE u = at
    BY <1>1, <1>3, <2>1 DEF Contents
  <2>2. CASE u # at
    <3>1. NewTable(T, at, i, f)[u] = T1[u]
      BY <1>1, <1>3, <2>2 DEF Contents
    <3>2. Empty[j] = Unmapped
      BY DEF Empty, Word
    <3> QED
      BY <1>5, <2>2, <3>1, <3>2
  <2> QED
    BY <2>1, <2>2
<1> QED
  BY <1>7, <1>8

\* The frame gets the level below that of the table that leads to it.
LEMMA NewTableGraded ==
  ASSUME NEW T \in Contents, NEW F \in SUBSET Frames, NEW O \in SUBSET Frames,
         F \cap O = {}, NEW lev, Graded(T, F, O, lev),
         NEW at \in Frames, lev[at] \in 2 .. 4, NEW i \in Word, T[at][i] = Unmapped,
         NEW f \in F
  PROVE  Graded(NewTable(T, at, i, f), F \ {f}, O, [lev EXCEPT ![f] = lev[at] - 1])
<1> DEFINE T2 == NewTable(T, at, i, f)
           l2 == [lev EXCEPT ![f] = lev[at] - 1]
<1>1. lev \in [Frames -> 0 .. 4] /\ lev[f] = 0 /\ f # at /\ f # Root /\ f # Unmapped
  BY Basics DEF Graded
<1>2. \A u \in Frames : l2[u] = IF u = f THEN lev[at] - 1 ELSE lev[u]
  BY <1>1
<1>3. \A u \in Frames : \A j \in Word :
        T2[u][j] = IF u = f THEN Unmapped ELSE IF u = at /\ j = i THEN f ELSE T[u][j]
  BY <1>1, NewTableEntries
<1>4. l2 \in [Frames -> 0 .. 4]
  BY <1>1
<1> HIDE DEF T2, l2
\* Nothing led to f before.
<1>5. \A u \in Frames : \A j \in Word : lev[u] \in 2 .. 4 => T[u][j] # f
  BY <1>1, Basics DEF Graded
<1>6. \A t \in Frames : l2[t] = 4 <=> t = Root
  BY <1>1, <1>2 DEF Graded
<1>7. ASSUME NEW t \in Frames, l2[t] \in 2 .. 4, NEW j \in Word
      PROVE  T2[t][j] = Unmapped \/ (T2[t][j] \in Frames /\ l2[T2[t][j]] = l2[t] - 1)
  <2>1. CASE t = f
    BY <1>3, <2>1
  <2>2. CASE t = at /\ j = i
    BY <1>1, <1>2, <1>3, <2>2
  <2>3. CASE t # f /\ ~(t = at /\ j = i)
    <3>1. T2[t][j] = T[t][j] /\ l2[t] = lev[t]
      BY <1>2, <1>3, <2>3
    <3>2. T[t][j] # f
      BY <1>5, <1>7, <3>1
    <3> QED
      BY <1>2, <1>7, <3>1, <3>2 DEF Graded
  <2> QED
    BY <2>1, <2>2, <2>3
<1>8. ASSUME NEW t \in Frames, l2[t] = 1, NEW j \in Word
      PROVE  T2[t][j] \in Phys \cup {Unmapped}
  <2>1. CASE t = f
    BY <1>3, <2>1
  <2>2. CASE t # f
    <3>1. t # at /\ lev[t] = 1
      BY <1>1, <1>2, <1>8, <2>2
    <3> QED
      BY <1>3, <2>2, <3>1 DEF Graded
  <2> QED
    BY <2>1, <2>2
<1>9. ASSUME NEW t \in Frames, NEW u \in Frames, NEW j \in Word, NEW k \in Word,
             l2[t] \in 2 .. 4, l2[u] \in 2 .. 4, T2[t][j] # Unmapped, T2[t][j] = T2[u][k]
      PROVE  t = u /\ j = k
  <2>1. t # f /\ u # f
    BY <1>3, <1>9
  <2>2. lev[t] \in 2 .. 4 /\ lev[u] \in 2 .. 4
    BY <1>2, <1>9, <2>1
  <2>3. CASE t = at /\ j = i
    <3>1. T2[u][k] = f
      BY <1>3, <1>9, <2>1, <2>3
    <3> QED
      BY <1>3, <1>5, <2>1, <2>2, <2>3, <3>1
  <2>4. CASE u = at /\ k = i
    <3>1. T2[t][j] = f
      BY <1>3, <1>9, <2>1, <2>4
    <3> QED
      BY <1>3, <1>5, <2>1, <2>2, <2>4, <3>1
  <2>5. CASE ~(t = at /\ j = i) /\ ~(u = at /\ k = i)
    <3>1. T2[t][j] = T[t][j] /\ T2[u][k] = T[u][k]
      BY <1>3, <2>1, <2>5
    <3>2. T[t][j] # Unmapped /\ T[t][j] = T[u][k]
      BY <1>9, <3>1
    <3> QED
      BY <2>2, <3>2 DEF Graded
  <2> QED
    BY <2>3, <2>4, <2>5
<1>10. ASSUME NEW t \in Frames, l2[t] \in 1 .. 3
       PROVE  \E u \in Frames, j \in Word : l2[u] \in 2 .. 4 /\ T2[u][j] = t
  <2>1. CASE t = f
    <3>1. l2[at] \in 2 .. 4 /\ T2[at][i] = f
      BY <1>1, <1>2, <1>3
    <3> QED
      BY <2>1, <3>1
  <2>2. CASE t # f
    <3>1. lev[t] \in 1 .. 3
      BY <1>2, <1>10, <2>2
    <3>2. PICK u \in Frames, j \in Word : lev[u] \in 2 .. 4 /\ T[u][j] = t
      BY <3>1 DEF Graded
    <3>3. u # f /\ ~(u = at /\ j = i)
      BY <1>1, <3>2, Basics
    <3>4. l2[u] \in 2 .. 4 /\ T2[u][j] = t
      BY <1>2, <1>3, <3>2, <3>3
    <3> QED
      BY <3>4
  <2> QED
    BY <2>1, <2>2
<1>11. ASSUME NEW t \in Frames, l2[t] > 0 PROVE t \notin F \ {f} /\ t \notin O
  <2>1. CASE t = f
    BY <2>1
  <2>2. CASE t # f
    BY <1>2, <1>11, <2>2 DEF Graded
  <2> QED
    BY <2>1, <2>2
<1>12. Graded(T2, F \ {f}, O, l2)
  BY <1>4, <1>6, <1>7, <1>8, <1>9, <1>10, <1>11 DEF Graded
<1> QED
  BY <1>12 DEF T2, l2

\* A walk that ended at the entry now goes on to the new table, and ends there.
Entry(T, F, O, lev, at, i, f) ==
  /\ T \in Contents /\ F \in SUBSET Frames /\ Graded(T, F, O, lev)
  /\ at \in Frames /\ lev[at] \in 2 .. 4 /\ i \in Word /\ T[at][i] = Unmapped
  /\ f \in F

Near(a, b, f) == b = a \/ (a = Unmapped /\ b = f)

LEMMA NewTableHop ==
  ASSUME NEW T, NEW F, NEW O, NEW lev, NEW at, NEW i, NEW f, Entry(T, F, O, lev, at, i, f),
         NEW w \in Nat, NEW k \in 1 .. 4, NEW a, NEW b,
         OnLevel(a, lev, k), Near(a, b, f)
  PROVE  /\ Near(Hop(T, a, w, k), Hop(NewTable(T, at, i, f), b, w, k), f)
         /\ k = 1 => Hop(NewTable(T, at, i, f), b, w, k) = Hop(T, a, w, k)
<1> USE DEF Entry
<1> DEFINE T2 == NewTable(T, at, i, f)
<1>1. lev[f] = 0 /\ f # at /\ f # Unmapped
  BY Basics DEF Graded
<1>2. \A u \in Frames : \A j \in Word :
        T2[u][j] = IF u = f THEN Unmapped ELSE IF u = at /\ j = i THEN f ELSE T[u][j]
  BY <1>1, NewTableEntries
<1>3. Index(w, k) \in Word
  BY IndexType
<1> HIDE DEF T2
<1>4. CASE a = Unmapped /\ b = Unmapped
  BY <1>4 DEF Hop, T2, Near
<1>5. CASE a = Unmapped /\ b = f
  BY <1>1, <1>2, <1>3, <1>5 DEF Hop, T2, Near
<1>6. CASE a # Unmapped
  <2>1. b = a /\ a \in Frames /\ lev[a] = k /\ a # f
    BY <1>1, <1>6 DEF OnLevel, Near
  <2>2. a = at => k # 1
    BY <2>1
  <2>3. Hop(T, a, w, k) = T[a][Index(w, k)] /\ Hop(T2, b, w, k) = T2[a][Index(w, k)]
    BY <1>6, <2>1 DEF Hop
  <2> QED
    BY <1>2, <1>3, <2>1, <2>2, <2>3 DEF T2, Near
<1> QED
  BY <1>4, <1>5, <1>6 DEF Near

LEMMA NewTableWalk ==
  ASSUME NEW T, NEW F, NEW O, NEW lev, NEW at, NEW i, NEW f, Entry(T, F, O, lev, at, i, f),
         NEW w \in Nat
  PROVE  Leaf(NewTable(T, at, i, f), w) = Leaf(T, w)
<1> DEFINE T2 == NewTable(T, at, i, f)
           a3 == Hop(T, Root, w, 4)   b3 == Hop(T2, Root, w, 4)
           a2 == Hop(T, a3, w, 3)     b2 == Hop(T2, b3, w, 3)
           a1 == Hop(T, a2, w, 2)     b1 == Hop(T2, b2, w, 2)
           a0 == Hop(T, a1, w, 1)     b0 == Hop(T2, b1, w, 1)
<1>1. /\ OnLevel(Root, lev, 4) /\ OnLevel(a3, lev, 3) /\ OnLevel(a2, lev, 2)
      /\ OnLevel(a1, lev, 1)
  BY WalkDown DEF PT, Entry
<1>2. ASSUME NEW k \in 1 .. 4, NEW a, NEW b, OnLevel(a, lev, k), Near(a, b, f)
      PROVE  /\ Near(Hop(T, a, w, k), Hop(T2, b, w, k), f)
             /\ k = 1 => Hop(T2, b, w, k) = Hop(T, a, w, k)
  BY <1>2, NewTableHop
<1> HIDE DEF T2
<1>3. Near(a3, b3, f)
  BY <1>1, <1>2 DEF Near
<1> HIDE DEF a3, b3
<1>4. Near(a2, b2, f)
  BY <1>1, <1>2, <1>3
<1> HIDE DEF a2, b2
<1>5. Near(a1, b1, f)
  BY <1>1, <1>2, <1>4
<1> HIDE DEF a1, b1
<1>6. b0 = a0
  BY <1>1, <1>2, <1>5
<1>7. Leaf(T2, w) = b0 /\ Leaf(T, w) = a0
  BY DEF Leaf, PT, a1, a2, a3, b1, b2, b3
<1> QED
  BY <1>6, <1>7 DEF T2

\* What one and more levels of _map_region leave alone: tables stay tables,
\* entries that lead somewhere stay, and no page gets another translation.
Kept(T, lev, T2, lev2) ==
  /\ \A u \in Frames : lev[u] > 0 => lev2[u] = lev[u]
  /\ \A u \in Frames : lev[u] \in 2 .. 4 =>
       \A j \in Word : T[u][j] # Unmapped => T2[u][j] = T[u][j]
  /\ \A w \in Nat : Leaf(T2, w) = Leaf(T, w)

LEMMA KeptTransitive ==
  ASSUME NEW T, NEW T2, NEW T3, NEW l, NEW l2, NEW l3, l \in [Frames -> 0 .. 4],
         Kept(T, l, T2, l2), Kept(T2, l2, T3, l3)
  PROVE  Kept(T, l, T3, l3)
<1>1. \A u \in Frames : l[u] > 0 => l3[u] = l[u]
  BY DEF Kept
<1>2. ASSUME NEW u \in Frames, l[u] \in 2 .. 4, NEW j \in Word, T[u][j] # Unmapped
      PROVE  T3[u][j] = T[u][j]
  <2>1. l2[u] \in 2 .. 4
    BY <1>2 DEF Kept
  <2>2. T2[u][j] = T[u][j]
    BY <1>2 DEF Kept
  <2> QED
    BY <1>2, <2>1, <2>2 DEF Kept
<1>3. \A w \in Nat : Leaf(T3, w) = Leaf(T, w)
  BY DEF Kept
<1> QED
  BY <1>1, <1>2, <1>3 DEF Kept

\* A page that has its tables keeps them.
LEMMA KeptPT ==
  ASSUME NEW T, NEW F, NEW O, NEW lev, Graded(T, F, O, lev), NEW T2, NEW l2,
         Kept(T, lev, T2, l2), NEW w \in Nat, PT(T, w) # Unmapped
  PROVE  PT(T2, w) = PT(T, w)
<1> DEFINE a3 == Hop(T, Root, w, 4)  a2 == Hop(T, a3, w, 3)
<1>1. /\ OnLevel(Root, lev, 4) /\ OnLevel(a3, lev, 3) /\ OnLevel(a2, lev, 2)
      /\ Root # Unmapped
  BY WalkDown
<1>2. PT(T, w) = Hop(T, a2, w, 2)
  BY DEF PT
<1>3. a2 # Unmapped /\ a3 # Unmapped
  BY <1>2 DEF Hop
<1>4. ASSUME NEW k \in 2 .. 4, NEW t, OnLevel(t, lev, k), t # Unmapped, Hop(T, t, w, k) # Unmapped
      PROVE  Hop(T2, t, w, k) = Hop(T, t, w, k)
  <2>1. t \in Frames /\ lev[t] = k /\ Index(w, k) \in Word
    BY <1>4, IndexType DEF OnLevel
  <2>2. T[t][Index(w, k)] # Unmapped
    BY <1>4 DEF Hop
  <2>3. T2[t][Index(w, k)] = T[t][Index(w, k)]
    BY <2>1, <2>2 DEF Kept
  <2> QED
    BY <1>4, <2>3 DEF Hop
<1>5. Hop(T2, Root, w, 4) = a3
  BY <1>1, <1>3, <1>4
<1>6. Hop(T2, a3, w, 3) = a2
  <2> HIDE DEF a3
  <2> QED
    BY <1>1, <1>3, <1>4
<1>7. Hop(T2, a2, w, 2) = PT(T, w)
  <2> HIDE DEF a2
  <2> QED
    BY <1>1, <1>2, <1>3, <1>4
<1> QED
  BY <1>5, <1>6, <1>7 DEF PT

LEMMA LowestMember ==
  ASSUME NEW S \in SUBSET Frames, S # {}
  PROVE  Lowest(S) \in S
<1> DEFINE Less == {ss \in Nat \X Nat : ss[1] < ss[2]}
<1>1. IsWellFoundedOn(Less, Nat)
  BY NatLessThanWellFounded DEF OpToRel
<1>2. S \subseteq Nat
  BY Basics
<1> HIDE DEF Less
<1>3. \E p \in S : \A q \in S : ~(<<q, p>> \in Less)
  BY <1>1, <1>2, WFMin
<1>4. \E p \in S : \A q \in S : ~(q < p)
  BY <1>2, <1>3 DEF Less
<1>5. \E p \in S : \A q \in S : p <= q
  BY <1>2, <1>4
<1> QED
  BY <1>5 DEF Lowest

\* The state between two levels of _map_region: table t of level k was reached.
Reached(s, F, O, lev, k) ==
  /\ s = [tab |-> s.tab, free |-> s.free, at |-> s.at]
  /\ s.tab \in Contents /\ s.free \in SUBSET F
  /\ Graded(s.tab, s.free, O, lev)
  /\ OnLevel(s.at, lev, k)

Grown(s, r, v, F, O, lev, l2, k) ==
  /\ Reached(r, F, O, l2, k - 1)
  /\ Kept(s.tab, lev, r.tab, l2)
  /\ r.at # Unmapped => s.at # Unmapped /\ r.tab[s.at][Index(v, k)] = r.at
  /\ s.at # Unmapped /\ s.tab[s.at][Index(v, k)] # Unmapped => r.at = s.tab[s.at][Index(v, k)]

LEMMA GrowStep ==
  ASSUME NEW F \in SUBSET Frames, NEW O \in SUBSET Frames, F \cap O = {},
         NEW v \in Nat, NEW k \in 2 .. 4, NEW s, NEW lev, Reached(s, F, O, lev, k)
  PROVE  \E l2 : Grown(s, Grow(s, v, k), v, F, O, lev, l2, k)
<1> DEFINE r == Grow(s, v, k)  i == Index(v, k)
<1>1. i \in Word
  BY IndexType
<1>2. /\ s.tab \in Contents /\ s.free \in SUBSET F /\ s.free \cap O = {}
      /\ Graded(s.tab, s.free, O, lev) /\ OnLevel(s.at, lev, k)
      /\ s = [tab |-> s.tab, free |-> s.free, at |-> s.at]
  BY DEF Reached
<1>3. Kept(s.tab, lev, s.tab, lev)
  BY DEF Kept
<1>4. CASE s.at = Unmapped
  <2>1. r = s
    BY <1>4 DEF Grow
  <2>2. OnLevel(s.at, lev, k - 1)
    BY <1>4 DEF OnLevel
  <2> QED
    BY <1>2, <1>3, <1>4, <2>1, <2>2 DEF Reached, Grown
<1>5. CASE s.at # Unmapped /\ s.tab[s.at][i] # Unmapped
  <2>1. r = [tab |-> s.tab, free |-> s.free, at |-> s.tab[s.at][i]]
    <3>1. r = [s EXCEPT !.at = s.tab[s.at][i]]
      BY <1>5 DEF Grow
    <3> QED
      BY <1>2, <3>1
  <2>2. OnLevel(s.tab[s.at][i], lev, k - 1)
    <3>1. Hop(s.tab, s.at, v, k) = s.tab[s.at][i]
      BY <1>5 DEF Hop
    <3> QED
      BY <1>2, <3>1, HopDown
  <2> HIDE DEF r, i, Grown
  <2>3. r.tab = s.tab /\ r.free = s.free /\ r.at = s.tab[s.at][i]
    BY <2>1
  <2>4. Reached(r, F, O, lev, k - 1)
    BY <1>2, <2>1, <2>2, <2>3 DEF Reached
  <2> QED
    BY <1>3, <1>5, <2>3, <2>4 DEF r, i, Grown
<1>6. CASE s.at # Unmapped /\ s.tab[s.at][i] = Unmapped /\ s.free = {}
  <2>1. r = [tab |-> s.tab, free |-> s.free, at |-> Unmapped]
    <3>1. r = [s EXCEPT !.at = Unmapped]
      BY <1>6 DEF Grow
    <3> QED
      BY <1>2, <3>1
  <2> HIDE DEF r, i, Grown
  <2>2. Reached(r, F, O, lev, k - 1)
    BY <1>2, <2>1 DEF Reached, OnLevel
  <2>3. r.tab = s.tab /\ r.at = Unmapped
    BY <2>1
  <2> QED
    BY <1>3, <1>6, <2>2, <2>3 DEF r, i, Grown
<1>7. CASE s.at # Unmapped /\ s.tab[s.at][i] = Unmapped /\ s.free # {}
  <2> DEFINE f == Lowest(s.free)
             l2 == [lev EXCEPT ![f] = lev[s.at] - 1]
             T2 == NewTable(s.tab, s.at, i, f)
  <2>1. f \in s.free
    BY <1>2, <1>7, LowestMember
  <2>2. s.at \in Frames /\ lev[s.at] = k /\ lev \in [Frames -> 0 .. 4]
    BY <1>2, <1>7 DEF OnLevel, Graded
  <2>3. r = [tab |-> T2, free |-> s.free \ {f}, at |-> f]
    BY <1>7 DEF Grow, NewTable
  <2>4. f \in Frames /\ lev[f] = 0 /\ f # s.at /\ f # Unmapped
    BY <1>2, <2>1, <2>2, Basics DEF Graded
  <2> HIDE DEF f, i
  <2>5. Graded(T2, s.free \ {f}, O, l2)
    BY <1>1, <1>2, <1>7, <2>1, <2>2, NewTableGraded
  <2>6. T2 \in Contents /\ \A u \in Frames : \A j \in Word :
              T2[u][j] = IF u = f THEN Unmapped ELSE IF u = s.at /\ j = i THEN f ELSE s.tab[u][j]
    BY <1>1, <1>2, <2>2, <2>4, NewTableEntries
  <2>7. \A w \in Nat : Leaf(T2, w) = Leaf(s.tab, w)
    <3>1. Entry(s.tab, s.free, O, lev, s.at, i, f)
      BY <1>1, <1>2, <1>7, <2>1, <2>2 DEF Entry
    <3> QED
      BY <3>1, NewTableWalk
  <2>8. \A u \in Frames : l2[u] = IF u = f THEN k - 1 ELSE lev[u]
    BY <2>2
  <2> HIDE DEF T2, l2
  <2>9. Kept(s.tab, lev, T2, l2)
    BY <1>7, <2>2, <2>4, <2>6, <2>7, <2>8 DEF Kept
  <2>10. OnLevel(f, l2, k - 1)
    BY <2>4, <2>8 DEF OnLevel
  <2> HIDE DEF r
  <2>11. r.tab = T2 /\ r.free = s.free \ {f} /\ r.at = f
    BY <2>3
  <2>12. Reached(r, F, O, l2, k - 1)
    BY <1>2, <2>3, <2>5, <2>6, <2>10, <2>11 DEF Reached
  <2>13. T2[s.at][i] = f
    BY <1>1, <2>2, <2>4, <2>6
  <2> QED
    BY <1>7, <2>9, <2>11, <2>12, <2>13 DEF r, i, Grown
<1> QED
  BY <1>4, <1>5, <1>6, <1>7

\* Two pages with the same page table have the same indices above it.
LEMMA SharedTable ==
  ASSUME NEW T, NEW F, NEW O, NEW lev, Graded(T, F, O, lev), NEW v \in Nat, NEW w \in Nat,
         PT(T, v) # Unmapped, PT(T, v) = PT(T, w)
  PROVE  \A k \in 2 .. 4 : Index(v, k) = Index(w, k)
<1> DEFINE a3 == Hop(T, Root, v, 4)  a2 == Hop(T, a3, v, 3)
           b3 == Hop(T, Root, w, 4)  b2 == Hop(T, b3, w, 3)
<1>1. /\ OnLevel(Root, lev, 4) /\ Root # Unmapped
      /\ OnLevel(a3, lev, 3) /\ OnLevel(a2, lev, 2) /\ OnLevel(b3, lev, 3) /\ OnLevel(b2, lev, 2)
  BY WalkDown
<1>2. PT(T, v) = Hop(T, a2, v, 2) /\ PT(T, w) = Hop(T, b2, w, 2)
  BY DEF PT
<1>3. a2 # Unmapped /\ b2 # Unmapped /\ a3 # Unmapped /\ b3 # Unmapped
  BY <1>2 DEF Hop
<1>4. ASSUME NEW k \in 2 .. 4, NEW t, NEW u, OnLevel(t, lev, k), OnLevel(u, lev, k),
             t # Unmapped, u # Unmapped, Hop(T, t, v, k) # Unmapped,
             Hop(T, t, v, k) = Hop(T, u, w, k)
      PROVE  t = u /\ Index(v, k) = Index(w, k)
  <2>1. t \in Frames /\ u \in Frames /\ lev[t] \in 2 .. 4 /\ lev[u] \in 2 .. 4
    BY <1>4 DEF OnLevel
  <2>2. Index(v, k) \in Word /\ Index(w, k) \in Word
    BY IndexType
  <2>3. T[t][Index(v, k)] # Unmapped /\ T[t][Index(v, k)] = T[u][Index(w, k)]
    BY <1>4 DEF Hop
  <2> QED
    BY <2>1, <2>2, <2>3 DEF Graded
<1>5. a2 = b2 /\ Index(v, 2) = Index(w, 2)
  <2>1. Hop(T, a2, v, 2) # Unmapped /\ Hop(T, a2, v, 2) = Hop(T, b2, w, 2)
    BY <1>2
  <2> HIDE DEF a2, b2
  <2> QED
    BY <1>1, <1>3, <1>4, <2>1
<1>6. a3 = b3 /\ Index(v, 3) = Index(w, 3)
  <2>1. Hop(T, a3, v, 3) # Unmapped /\ Hop(T, a3, v, 3) = Hop(T, b3, w, 3)
    BY <1>3, <1>5
  <2> HIDE DEF a3, b3
  <2> QED
    BY <1>1, <1>3, <1>4, <2>1
<1>7. Index(v, 4) = Index(w, 4)
  <2>1. Hop(T, Root, v, 4) # Unmapped /\ Hop(T, Root, v, 4) = Hop(T, Root, w, 4)
    BY <1>3, <1>6
  <2> QED
    BY <1>1, <1>4, <2>1
<1>8. \A k \in 2 .. 4 : k = 2 \/ k = 3 \/ k = 4
  OBVIOUS
<1> QED
  BY <1>5, <1>6, <1>7, <1>8

\* Writing the entry of page v in its page table changes the translation of v,
\* and nothing else.
SetLeaf(T, v, x) == [T EXCEPT ![PT(T, v)] = [@ EXCEPT ![Index(v, 1)] = x]]

LEMMA SetLeafStep ==
  ASSUME NEW T \in Contents, NEW F, NEW O, NEW lev, Graded(T, F, O, lev),
         NEW v \in Virt, PT(T, v) # Unmapped, NEW x \in Phys \cup {Unmapped}
  PROVE  /\ SetLeaf(T, v, x) \in Contents
         /\ Graded(SetLeaf(T, v, x), F, O, lev)
         /\ \A w \in Virt : PT(SetLeaf(T, v, x), w) = PT(T, w)
         /\ Leaf(SetLeaf(T, v, x), v) = x
         /\ \A w \in Virt : w # v => Leaf(SetLeaf(T, v, x), w) = Leaf(T, w)
<1> DEFINE t == PT(T, v)  i == Index(v, 1)  T2 == SetLeaf(T, v, x)
<1>1. v \in Nat /\ i \in Word /\ Virt \subseteq Nat
  BY SizeType, IndexType
<1>2. t \in Frames /\ lev[t] = 1 /\ lev \in [Frames -> 0 .. 4]
  <2>1. OnLevel(t, lev, 1)
    BY <1>1, WalkDown
  <2> QED
    BY <2>1 DEF OnLevel, Graded
<1>3. x \in Nat \cup {Unmapped}
  BY Basics
<1>4. T2 = [T EXCEPT ![t] = [T[t] EXCEPT ![i] = x]]
  BY DEF SetLeaf
<1> HIDE DEF t, i, T2
<1>5. [T[t] EXCEPT ![i] = x] \in [Word -> Nat \cup {Unmapped}]
  BY <1>2, <1>3 DEF Contents
<1>6. T2 \in Contents
  BY <1>2, <1>4, <1>5 DEF Contents
<1>7. \A u \in Frames : \A j \in Word : T2[u][j] = IF u = t /\ j = i THEN x ELSE T[u][j]
  BY <1>1, <1>2, <1>4 DEF Contents
<1>8. \A u \in Frames : lev[u] \in 2 .. 4 => \A j \in Word : T2[u][j] = T[u][j]
  BY <1>2, <1>7
<1>9. Graded(T2, F, O, lev)
  <2>1. \A u \in Frames : lev[u] \in 2 .. 4 => \A j \in Word :
          T2[u][j] = Unmapped \/ (T2[u][j] \in Frames /\ lev[T2[u][j]] = lev[u] - 1)
    BY <1>8 DEF Graded
  <2>2. \A u \in Frames : lev[u] = 1 => \A j \in Word : T2[u][j] \in Phys \cup {Unmapped}
    BY <1>7 DEF Graded
  <2>3. ASSUME NEW p \in Frames, NEW u \in Frames, NEW j \in Word, NEW k \in Word,
               lev[p] \in 2 .. 4, lev[u] \in 2 .. 4, T2[p][j] # Unmapped, T2[p][j] = T2[u][k]
        PROVE  p = u /\ j = k
    <3>1. T[p][j] # Unmapped /\ T[p][j] = T[u][k]
      BY <1>8, <2>3
    <3> QED
      BY <2>3, <3>1 DEF Graded
  <2>4. ASSUME NEW p \in Frames, lev[p] \in 1 .. 3
        PROVE  \E u \in Frames, j \in Word : lev[u] \in 2 .. 4 /\ T2[u][j] = p
    <3>1. PICK u \in Frames, j \in Word : lev[u] \in 2 .. 4 /\ T[u][j] = p
      BY <2>4 DEF Graded
    <3>2. T2[u][j] = p
      BY <1>8, <3>1
    <3> QED
      BY <3>1, <3>2
  <2>5. /\ lev \in [Frames -> 0 .. 4]
        /\ \A u \in Frames : lev[u] = 4 <=> u = Root
        /\ \A u \in Frames : lev[u] > 0 => u \notin F /\ u \notin O
    BY DEF Graded
  <2> QED
    BY <2>1, <2>2, <2>3, <2>4, <2>5 DEF Graded
<1>10. ASSUME NEW w \in Virt PROVE PT(T2, w) = PT(T, w)
  <2>1. w \in Nat
    BY <1>1
  <2>2. ASSUME NEW k \in 2 .. 4, NEW u, OnLevel(u, lev, k)
        PROVE  Hop(T2, u, w, k) = Hop(T, u, w, k)
    <3>1. Index(w, k) \in Word
      BY <2>1, IndexType
    <3> QED
      BY <1>8, <2>2, <3>1 DEF Hop, OnLevel
  <2>3. /\ OnLevel(Root, lev, 4)
        /\ OnLevel(Hop(T, Root, w, 4), lev, 3)
        /\ OnLevel(Hop(T, Hop(T, Root, w, 4), w, 3), lev, 2)
    BY <2>1, WalkDown
  <2> QED
    BY <2>2, <2>3 DEF PT
<1>11. Leaf(T2, v) = x
  <2>1. PT(T2, v) = t /\ t # Unmapped
    BY <1>10 DEF t
  <2> QED
    BY <1>1, <1>2, <1>7, <2>1 DEF Leaf, Hop, i
<1>12. ASSUME NEW w \in Virt, w # v PROVE Leaf(T2, w) = Leaf(T, w)
  <2>1. w \in Nat /\ Index(w, 1) \in Word
    BY <1>1, IndexType
  <2>2. CASE PT(T, w) = Unmapped
    BY <1>10, <2>2 DEF Leaf, Hop
  <2>3. CASE PT(T, w) # Unmapped
    <3>1. PT(T, w) \in Frames
      BY <2>1, <2>3, WalkDown DEF OnLevel
    <3>2. ~(PT(T, w) = t /\ Index(w, 1) = i)
      <4>1. SUFFICES ASSUME PT(T, w) = PT(T, v), Index(w, 1) = Index(v, 1) PROVE FALSE
        BY DEF t, i
      <4>2. \A k \in 2 .. 4 : Index(w, k) = Index(v, k)
        BY <1>1, <2>1, <2>3, <4>1, SharedTable
      <4>3. \A k \in 1 .. 4 : Index(w, k) = Index(v, k)
        BY <4>1, <4>2
      <4> QED
        BY <1>12, <4>3, IndicesTell
    <3>3. T2[PT(T, w)][Index(w, 1)] = T[PT(T, w)][Index(w, 1)]
      BY <1>7, <2>1, <3>1, <3>2
    <3> QED
      BY <1>10, <2>3, <3>3 DEF Leaf, Hop
  <2> QED
    BY <2>2, <2>3
<1> QED
  BY <1>6, <1>9, <1>10, <1>11, <1>12 DEF T2

\* The three tables of a page: reached or not for want of memory, no page gets
\* another translation.
LEMMA TablesStep ==
  ASSUME NEW v \in Nat, NEW F \in SUBSET free, NEW lev, VTypeOK,
         Graded(tab, free, others, lev)
  PROVE  \E l2 :
           /\ Reached(Tables(v, F), F, others, l2, 1)
           /\ Kept(tab, lev, Tables(v, F).tab, l2)
           /\ Maps(v, F) => PT(Tables(v, F).tab, v) = Tables(v, F).at
           /\ PT(tab, v) # Unmapped => Maps(v, F)
<1> DEFINE s0 == [tab |-> tab, free |-> F, at |-> Root]
           s1 == Grow(s0, v, 4)  s2 == Grow(s1, v, 3)  s3 == Grow(s2, v, 2)
           i4 == Index(v, 4)  i3 == Index(v, 3)  i2 == Index(v, 2)
<1>1. Tables(v, F) = s3 /\ (Maps(v, F) <=> s3.at # Unmapped)
  BY DEF Tables, Maps
<1>2. Graded(tab, F, others, lev)
  BY DEF Graded
<1>3. Reached(s0, F, others, lev, 4)
  BY <1>2, WalkDown DEF Reached, VTypeOK
<1>4. s0.tab = tab /\ s0.at = Root /\ Root # Unmapped /\ Root \in Frames
  BY Basics
<1>5. F \in SUBSET Frames /\ others \in SUBSET Frames /\ F \cap others = {}
  BY DEF VTypeOK
<1>6. i4 \in Word /\ i3 \in Word /\ i2 \in Word
  BY IndexType
<1> HIDE DEF s0, i4, i3, i2
<1>7. PICK l1 : Grown(s0, s1, v, F, others, lev, l1, 4)
  <2>1. Reached(s0, F, others, lev, 4) /\ 4 \in 2 .. 4
    BY <1>3 DEF Grown
  <2> HIDE DEF s2, s3
  <2> QED
    BY <1>5, <2>1, GrowStep
<1> HIDE DEF s1
<1>8. PICK l2 : Grown(s1, s2, v, F, others, l1, l2, 3)
  <2>1. Reached(s1, F, others, l1, 3) /\ 3 \in 2 .. 4
    BY <1>7 DEF Grown
  <2> HIDE DEF s3
  <2> QED
    BY <1>5, <2>1, GrowStep
<1> HIDE DEF s2
<1>9. PICK l3 : Grown(s2, s3, v, F, others, l2, l3, 2)
  <2>1. Reached(s2, F, others, l2, 2) /\ 2 \in 2 .. 4
    BY <1>8 DEF Grown
  <2> QED
    BY <1>5, <2>1, GrowStep
<1> HIDE DEF s3
<1>10. /\ Reached(s1, F, others, l1, 3) /\ Kept(s0.tab, lev, s1.tab, l1)
       /\ s1.at # Unmapped => s0.at # Unmapped /\ s1.tab[s0.at][i4] = s1.at
       /\ s0.at # Unmapped /\ s0.tab[s0.at][i4] # Unmapped => s1.at = s0.tab[s0.at][i4]
  BY <1>7 DEF Grown, i4
<1>11. /\ Reached(s2, F, others, l2, 2) /\ Kept(s1.tab, l1, s2.tab, l2)
       /\ s2.at # Unmapped => s1.at # Unmapped /\ s2.tab[s1.at][i3] = s2.at
       /\ s1.at # Unmapped /\ s1.tab[s1.at][i3] # Unmapped => s2.at = s1.tab[s1.at][i3]
  BY <1>8 DEF Grown, i3
<1>12. /\ Reached(s3, F, others, l3, 1) /\ Kept(s2.tab, l2, s3.tab, l3)
       /\ s3.at # Unmapped => s2.at # Unmapped /\ s3.tab[s2.at][i2] = s3.at
       /\ s2.at # Unmapped /\ s2.tab[s2.at][i2] # Unmapped => s3.at = s2.tab[s2.at][i2]
  BY <1>9 DEF Grown, i2
<1>13. /\ lev \in [Frames -> 0 .. 4] /\ l1 \in [Frames -> 0 .. 4] /\ l2 \in [Frames -> 0 .. 4]
       /\ Graded(s1.tab, s1.free, others, l1) /\ Graded(s2.tab, s2.free, others, l2)
       /\ l1[Root] = 4 /\ l2[Root] = 4
       /\ s1.at # Unmapped => s1.at \in Frames /\ l1[s1.at] = 3
       /\ s2.at # Unmapped => s2.at \in Frames /\ l2[s2.at] = 2
  <2>1. Graded(s1.tab, s1.free, others, l1) /\ OnLevel(s1.at, l1, 3)
    BY <1>10 DEF Reached
  <2>2. Graded(s2.tab, s2.free, others, l2) /\ OnLevel(s2.at, l2, 2)
    BY <1>11 DEF Reached
  <2>3. lev \in [Frames -> 0 .. 4]
    BY DEF Graded
  <2>4. l1 \in [Frames -> 0 .. 4] /\ l1[Root] = 4
    BY <1>4, <2>1 DEF Graded
  <2>5. l2 \in [Frames -> 0 .. 4] /\ l2[Root] = 4
    BY <1>4, <2>2 DEF Graded
  <2> QED
    BY <2>1, <2>2, <2>3, <2>4, <2>5 DEF OnLevel
<1>14. Kept(tab, lev, s2.tab, l2)
  BY <1>4, <1>10, <1>11, <1>13, KeptTransitive
<1>15. Kept(tab, lev, s3.tab, l3)
  BY <1>12, <1>13, <1>14, KeptTransitive
\* The walk to a table that was reached before.
<1>16. ASSUME s2.at # Unmapped
       PROVE  /\ s2.tab[Root][i4] = s1.at /\ s2.tab[s1.at][i3] = s2.at
              /\ s1.at # Unmapped
  <2>1. s1.at # Unmapped /\ s2.tab[s1.at][i3] = s2.at
    BY <1>11, <1>16
  <2>2. s1.tab[Root][i4] = s1.at
    BY <1>4, <1>10, <2>1
  <2>3. s2.tab[Root][i4] = s1.at
    BY <1>4, <1>6, <1>11, <1>13, <2>1, <2>2 DEF Kept
  <2> QED
    BY <2>1, <2>3
<1>17. ASSUME s3.at # Unmapped PROVE PT(s3.tab, v) = s3.at
  <2>1. s2.at # Unmapped /\ s3.tab[s2.at][i2] = s3.at
    BY <1>12, <1>17
  <2>2. s2.tab[Root][i4] = s1.at /\ s2.tab[s1.at][i3] = s2.at /\ s1.at # Unmapped
    BY <1>16, <2>1
  <2>3. l2[s1.at] = 3 /\ s1.at \in Frames
    BY <1>11, <1>13, <2>2 DEF Kept
  <2>4. s3.tab[Root][i4] = s1.at
    BY <1>4, <1>6, <1>12, <1>13, <2>2 DEF Kept
  <2>5. s3.tab[s1.at][i3] = s2.at
    BY <1>6, <1>12, <2>1, <2>2, <2>3 DEF Kept
  <2>6. Hop(s3.tab, Root, v, 4) = s1.at
    BY <1>4, <2>4 DEF Hop, i4
  <2>7. Hop(s3.tab, s1.at, v, 3) = s2.at
    BY <2>2, <2>5 DEF Hop, i3
  <2>8. Hop(s3.tab, s2.at, v, 2) = s3.at
    BY <2>1 DEF Hop, i2
  <2> QED
    BY <2>6, <2>7, <2>8 DEF PT
<1>18. ASSUME PT(tab, v) # Unmapped PROVE s3.at # Unmapped
  <2>1. PT(s1.tab, v) # Unmapped /\ PT(s2.tab, v) # Unmapped
    BY <1>4, <1>10, <1>14, <1>18, KeptPT
  <2>2. Hop(tab, Root, v, 4) # Unmapped
    BY <1>18 DEF PT, Hop
  <2>3. s1.at # Unmapped
    BY <1>4, <1>10, <2>2 DEF Hop, i4
  <2>4. Hop(s1.tab, Root, v, 4) = s1.at
    BY <1>4, <1>10, <2>3 DEF Hop, i4
  <2>5. Hop(s1.tab, s1.at, v, 3) # Unmapped
    BY <2>1, <2>4 DEF PT, Hop
  <2>6. s2.at # Unmapped
    BY <1>11, <2>3, <2>5 DEF Hop, i3
  <2>7. Hop(s2.tab, Root, v, 4) = s1.at /\ Hop(s2.tab, s1.at, v, 3) = s2.at
    BY <1>4, <1>16, <2>6 DEF Hop, i4, i3
  <2>8. Hop(s2.tab, s2.at, v, 2) # Unmapped
    BY <2>1, <2>7 DEF PT
  <2> QED
    BY <1>12, <2>6, <2>8 DEF Hop, i2
<1> QED
  BY <1>1, <1>12, <1>15, <1>17, <1>18

-----------------------------------------------------------------------------
(* Rounds of the loops *)

LEMMA Walks ==
  ASSUME NEW v
  PROVE  /\ PageTable(v) = PT(tab, v) /\ Translate(v) = Leaf(tab, v)
         /\ PageTable(v)' = PT(tab', v) /\ Translate(v)' = Leaf(tab', v)
<1>1. PageTable(v) = PT(tab, v) /\ Translate(v) = Leaf(tab, v)
  BY DEF PageTable, Translate, Down, PT, Leaf, Hop
<1>2. PageTable(v)' = PT(tab', v) /\ Translate(v)' = Leaf(tab', v)
  BY DEF PageTable, Translate, Down, PT, Leaf, Hop
<1> QED
  BY <1>1, <1>2

\* From tables T to T2 only page v gets another translation, and no table is lost.
OnlyPage(T, T2, v) ==
  /\ \A w \in Virt : w # v => Leaf(T2, w) = Leaf(T, w)
  /\ \A w \in Virt : PT(T, w) # Unmapped => PT(T2, w) # Unmapped

\* One round of _map_region: the page is mapped, or it was not mapped and no
\* page gets another translation.
LEMMA MapStep ==
  ASSUME VTypeOK, Tree, NEW v \in Virt, NEW p \in Phys, NEW F \in SUBSET free,
         MapPage(v, p, F)
  PROVE  /\ tab' \in Contents /\ free' \in SUBSET F
         /\ \E l2 : Graded(tab', free', others, l2)
         /\ OnlyPage(tab, tab', v)
         /\ Maps(v, F) => PT(tab', v) # Unmapped /\ Leaf(tab', v) = p
         /\ ~Maps(v, F) => Leaf(tab, v) = Unmapped /\ Leaf(tab', v) = Unmapped
<1>1. PICK lev : Graded(tab, free, others, lev)
  BY DEF Tree
<1>2. v \in Nat /\ Virt \subseteq Nat
  BY SizeType
<1> DEFINE s == Tables(v, F)
<1>3. PICK l2 :
        /\ Reached(s, F, others, l2, 1)
        /\ Kept(tab, lev, s.tab, l2)
        /\ Maps(v, F) => PT(s.tab, v) = s.at
        /\ PT(tab, v) # Unmapped => Maps(v, F)
  BY <1>1, <1>2, TablesStep
<1>4. free' = s.free /\ tab' = IF s.at = Unmapped THEN s.tab
                                ELSE [s.tab EXCEPT ![s.at] = [@ EXCEPT ![Index(v, 1)] = p]]
  BY DEF MapPage
<1>5. Maps(v, F) <=> s.at # Unmapped
  BY DEF Maps
<1> HIDE DEF s
<1>6. s.tab \in Contents /\ s.free \in SUBSET F /\ Graded(s.tab, s.free, others, l2)
  BY <1>3 DEF Reached
<1>7. \A w \in Virt : Leaf(s.tab, w) = Leaf(tab, w)
  BY <1>2, <1>3 DEF Kept
<1>8. ASSUME NEW w \in Virt, PT(tab, w) # Unmapped PROVE PT(s.tab, w) # Unmapped
  BY <1>1, <1>2, <1>3, <1>8, KeptPT
<1>9. CASE ~Maps(v, F)
  <2>1. tab' = s.tab
    BY <1>4, <1>5, <1>9
  <2>2. Leaf(tab, v) = Unmapped
    BY <1>3, <1>9 DEF Leaf, Hop
  <2>3. OnlyPage(tab, tab', v)
    BY <1>7, <1>8, <2>1 DEF OnlyPage
  <2> QED
    BY <1>4, <1>6, <1>7, <1>9, <2>1, <2>2, <2>3
<1>10. CASE Maps(v, F)
  <2>1. PT(s.tab, v) = s.at /\ s.at # Unmapped
    BY <1>3, <1>5, <1>10
  <2>2. tab' = SetLeaf(s.tab, v, p)
    BY <1>4, <2>1 DEF SetLeaf
  <2>3. p \in Phys \cup {Unmapped} /\ PT(s.tab, v) # Unmapped
    BY <2>1
  <2>4. /\ tab' \in Contents /\ Graded(tab', s.free, others, l2)
        /\ \A w \in Virt : PT(tab', w) = PT(s.tab, w)
        /\ Leaf(tab', v) = p
        /\ \A w \in Virt : w # v => Leaf(tab', w) = Leaf(s.tab, w)
    BY <1>6, <2>2, <2>3, SetLeafStep
  <2>5. OnlyPage(tab, tab', v)
    BY <1>7, <1>8, <2>4 DEF OnlyPage
  <2>6. PT(tab', v) # Unmapped
    BY <2>1, <2>4
  <2> QED
    BY <1>4, <1>6, <1>10, <2>4, <2>5, <2>6
<1> QED
  BY <1>9, <1>10

\* One round of _unmap_region, for a page that physmm does not take back.
LEMMA UnmapStep ==
  ASSUME VTypeOK, Tree, NEW v \in Virt, NEW g \in BOOLEAN, UnmapPage(v, g),
         g => Translate(v) \notin Frames
  PROVE  /\ tab' \in Contents /\ free' = free
         /\ \E l2 : Graded(tab', free, others, l2)
         /\ OnlyPage(tab, tab', v)
         /\ Leaf(tab', v) \in {Unmapped, 0}
         /\ Leaf(tab, v) = Unmapped => Leaf(tab', v) = Unmapped
<1>1. PICK lev : Graded(tab, free, others, lev)
  BY DEF Tree
<1>2. PageTable(v) = PT(tab, v) /\ Translate(v) = Leaf(tab, v) /\ tab \in Contents
  BY Walks DEF VTypeOK
<1>3. CASE PT(tab, v) = Unmapped \/ Leaf(tab, v) \in {Unmapped, 0}
  <2>1. tab' = tab /\ free' = free
    BY <1>2, <1>3 DEF UnmapPage
  <2>2. Leaf(tab, v) \in {Unmapped, 0}
    BY <1>3 DEF Leaf, Hop
  <2>3. OnlyPage(tab, tab', v)
    BY <2>1 DEF OnlyPage
  <2> QED
    BY <1>1, <1>2, <2>1, <2>2, <2>3
<1>4. CASE ~(PT(tab, v) = Unmapped \/ Leaf(tab, v) \in {Unmapped, 0})
  <2>1. /\ tab' = [tab EXCEPT ![PT(tab, v)] = [@ EXCEPT ![Index(v, 1)] = Unmapped]]
        /\ free' = IF g THEN free \cup FreePage(Leaf(tab, v)) ELSE free
    BY <1>2, <1>4 DEF UnmapPage
  <2>2. tab' = SetLeaf(tab, v, Unmapped)
    BY <2>1 DEF SetLeaf
  <2>3. free' = free
    BY <1>2, <2>1 DEF FreePage
  <2>4. Unmapped \in Phys \cup {Unmapped} /\ PT(tab, v) # Unmapped
    BY <1>4
  <2>5. /\ tab' \in Contents /\ Graded(tab', free, others, lev)
        /\ \A w \in Virt : PT(tab', w) = PT(tab, w)
        /\ Leaf(tab', v) = Unmapped
        /\ \A w \in Virt : w # v => Leaf(tab', w) = Leaf(tab, w)
    BY <1>1, <1>2, <2>2, <2>4, SetLeafStep
  <2>6. OnlyPage(tab, tab', v)
    BY <2>5 DEF OnlyPage
  <2> QED
    BY <2>3, <2>5, <2>6
<1> QED
  BY <1>3, <1>4

-----------------------------------------------------------------------------
(* The invariant is inductive *)

LEMMA VInvInit == Init => VInv
<1> SUFFICES ASSUME Init PROVE VInv
  OBVIOUS
<1>1. /\ tab = [f \in Frames |-> IF f = Root THEN Empty ELSE Junk]
      /\ free = Frames \ {Root} /\ others = {} /\ mine = {} /\ call = Idle
  BY DEF Init
<1>2. Empty \in [Word -> Nat \cup {Unmapped}] /\ Junk \in [Word -> Nat \cup {Unmapped}]
  BY Basics DEF Empty, Junk, Word
<1>3. tab \in Contents
  BY <1>1, <1>2 DEF Contents
<1>4. VTypeOK
  BY <1>1, <1>3 DEF VTypeOK
<1>5. \A j \in Word : tab[Root][j] = Unmapped
  BY <1>1, Basics DEF Empty, Word
<1> DEFINE lev == [f \in Frames |-> IF f = Root THEN 4 ELSE 0]
<1>6. lev \in [Frames -> 0 .. 4] /\ \A f \in Frames : lev[f] = IF f = Root THEN 4 ELSE 0
  OBVIOUS
<1> HIDE DEF lev
<1>7. Graded(tab, free, others, lev)
  BY <1>1, <1>5, <1>6 DEF Graded
<1> QED
  BY <1>1, <1>4, <1>7 DEF VInv, Tree, Stage

\* What alloc_page gives to map_address is no frame, by the forgotten conversion.
LEMMA AllocFacts ==
  ASSUME VTypeOK
  PROVE  /\ AllocPage \in Phys /\ AllocPage \notin Frames /\ AllocPage # Unmapped
         /\ AfterAlloc \in SUBSET free
<1>1. free \in SUBSET Frames
  BY DEF VTypeOK
<1>2. CASE free = {}
  BY <1>2, Basics DEF AllocPage, AfterAlloc
<1>3. CASE free # {}
  <2>1. Lowest(free) \in Frames
    BY <1>1, <1>3, LowestMember
  <2>2. AllocPage = Lowest(free) + Offset
    BY <1>3 DEF AllocPage
  <2>3. AllocPage \in Phys /\ AllocPage \notin Frames
    BY <2>1, <2>2, Basics
  <2> QED
    BY <2>3, Basics DEF AfterAlloc
<1> QED
  BY <1>2, <1>3

\* A page of which only the translation of another page changes stays as it is.
LEMMA OwnKept ==
  ASSUME NEW T, NEW T2, NEW v, OnlyPage(T, T2, v), NEW w \in Virt, Own(T, w),
         w # v \/ Leaf(T2, v) \notin Frames
  PROVE  Own(T2, w)
BY DEF OnlyPage, Own

\* The calls that work on one page.
LEMMA SinglePageStep ==
  ASSUME VInv,
         \/ \E v \in Starts, p \in Device : map_fixed(v, p)
         \/ \E v \in Starts : map_address(v) \/ unmap_address(v) \/ unmap_fixed(v)
  PROVE  VInv'
<1> USE DEF VInv
<1>1. Starts \subseteq Virt
  BY VirtAssumption
<1>2. ASSUME NEW v \in Virt, NEW M, tab' \in Contents, free' \in SUBSET free,
             \E l2 : Graded(tab', free', others, l2), M \subseteq Virt, M = mine',
             UNCHANGED <<others, call, phase>>, Ready,
             \A w \in M : Own(tab', w)
      PROVE  VInv'
  <2>1. VTypeOK'
    BY <1>2 DEF VTypeOK
  <2>2. Tree'
    BY <1>2 DEF Tree
  <2>3. Stage'
    BY <1>2 DEF Stage, Ready
  <2> QED
    BY <1>2, <2>1, <2>2, <2>3 DEF Ready
<1>3. ASSUME NEW v \in Starts, NEW p \in Device, map_fixed(v, p) PROVE VInv'
  <2>1. v \in Virt /\ p \in Phys
    BY <1>1, Basics
  <2>2. MapPage(v, p, free) /\ UNCHANGED <<others, call, phase>> /\ Ready
        /\ mine' = IF Maps(v, free) THEN mine \ {v} ELSE mine
    BY <1>3 DEF map_fixed
  <2>3. /\ tab' \in Contents /\ free' \in SUBSET free
        /\ \E l2 : Graded(tab', free', others, l2)
        /\ OnlyPage(tab, tab', v)
        /\ ~Maps(v, free) => Leaf(tab', v) = Unmapped
    BY <2>1, <2>2, MapStep
  <2>4. ASSUME NEW w \in mine' PROVE Own(tab', w)
    <3>1. w \in mine /\ w \in Virt /\ (w # v \/ Leaf(tab', v) \notin Frames)
      BY <2>2, <2>3, Basics DEF VTypeOK
    <3> QED
      BY <2>3, <3>1, OwnKept
  <2>5. mine' \subseteq Virt
    BY <2>2 DEF VTypeOK
  <2> QED
    BY <1>2, <2>1, <2>2, <2>3, <2>4, <2>5
<1>4. ASSUME NEW v \in Starts, map_address(v) PROVE VInv'
  <2>1. v \in Virt /\ AllocPage \in Phys /\ AfterAlloc \in SUBSET free
    BY <1>1, AllocFacts
  <2>2. MapPage(v, AllocPage, AfterAlloc) /\ UNCHANGED <<others, call, phase>> /\ Ready
        /\ mine' = IF Maps(v, AfterAlloc) THEN mine \cup {v} ELSE mine
    BY <1>4 DEF map_address
  <2>3. /\ tab' \in Contents /\ free' \in SUBSET AfterAlloc
        /\ \E l2 : Graded(tab', free', others, l2)
        /\ OnlyPage(tab, tab', v)
        /\ Maps(v, AfterAlloc) => PT(tab', v) # Unmapped /\ Leaf(tab', v) = AllocPage
        /\ ~Maps(v, AfterAlloc) => Leaf(tab', v) = Unmapped
    BY <2>1, <2>2, MapStep
  <2>4. Leaf(tab', v) \notin Frames
    BY <2>3, AllocFacts, Basics
  <2>5. ASSUME NEW w \in mine' PROVE Own(tab', w)
    <3>1. CASE w \in mine
      <4>1. w \in Virt
        BY <3>1 DEF VTypeOK
      <4> QED
        BY <2>3, <2>4, <3>1, <4>1, OwnKept
    <3>2. CASE w \notin mine
      BY <2>2, <2>3, <2>4, <3>2 DEF Own
    <3> QED
      BY <3>1, <3>2
  <2>6. mine' \subseteq Virt /\ free' \in SUBSET free
    BY <2>1, <2>2, <2>3 DEF VTypeOK
  <2> QED
    BY <1>2, <2>1, <2>2, <2>3, <2>5, <2>6
<1>5. ASSUME NEW v \in Starts, unmap_address(v) PROVE VInv'
  <2>1. v \in Virt /\ v \in mine /\ UnmapPage(v, TRUE) /\ UNCHANGED <<others, call, phase>>
        /\ Ready /\ mine' = mine \ {v}
    BY <1>1, <1>5 DEF unmap_address
  <2>2. Translate(v) \notin Frames
    BY <2>1, Walks DEF Own
  <2>3. /\ tab' \in Contents /\ free' = free
        /\ \E l2 : Graded(tab', free, others, l2)
        /\ OnlyPage(tab, tab', v)
    BY <2>1, <2>2, UnmapStep
  <2>4. ASSUME NEW w \in mine' PROVE Own(tab', w)
    <3>1. w \in mine /\ w \in Virt /\ w # v
      BY <2>1 DEF VTypeOK
    <3> QED
      BY <2>3, <3>1, OwnKept
  <2>5. mine' \subseteq Virt
    BY <2>1 DEF VTypeOK
  <2> QED
    BY <1>2, <2>1, <2>3, <2>4, <2>5
<1>6. ASSUME NEW v \in Starts, unmap_fixed(v) PROVE VInv'
  <2>1. v \in Virt /\ v \notin mine /\ UnmapPage(v, FALSE) /\ UNCHANGED <<others, call, phase>>
        /\ Ready /\ mine' = mine
    BY <1>1, <1>6 DEF unmap_fixed
  <2>2. /\ tab' \in Contents /\ free' = free
        /\ \E l2 : Graded(tab', free, others, l2)
        /\ OnlyPage(tab, tab', v)
    BY <2>1, UnmapStep
  <2>3. ASSUME NEW w \in mine' PROVE Own(tab', w)
    <3>1. w \in mine /\ w \in Virt /\ w # v
      BY <2>1 DEF VTypeOK
    <3> QED
      BY <2>2, <3>1, OwnKept
  <2>4. mine' \subseteq Virt
    BY <2>1 DEF VTypeOK
  <2> QED
    BY <1>2, <2>1, <2>2, <2>3, <2>4
<1> QED
  BY <1>3, <1>4, <1>5, <1>6

\* The start and the end of a range call, and init.
LEMMA StartStep ==
  ASSUME VInv,
         \/ \E v \in Starts, p \in Device, n \in 1 .. MaxPages : create_system_vm(v, p, n)
         \/ init
         \/ \E v \in Starts, n \in 1 .. MaxPages : map_address_range(v, n)
         \/ \E v \in Starts, n \in 1 .. MaxPages : unmap_address_range(v, n)
         \/ range_return
  PROVE  VInv'
<1> USE DEF VInv
<1>1. Starts \subseteq Virt /\ MaxPages \in Nat /\ Device \subseteq Nat
  BY VirtAssumption
<1>2. ASSUME UNCHANGED <<tab, free, others, mine>>, call' \in CallRecord \cup {Idle},
             call' # Idle => Loop(call', tab), Stage'
      PROVE  VInv'
  <2>1. VTypeOK' /\ Tree'
    BY <1>2 DEF VTypeOK, Tree
  <2> QED
    BY <1>2, <2>1
<1>3. ASSUME NEW v \in Starts, NEW p \in Device, NEW n \in 1 .. MaxPages, create_system_vm(v, p, n)
      PROVE  VInv'
  <2> DEFINE c == [op |-> "boot", at |-> v, page |-> p, left |-> n, done |-> 0, first |-> v]
  <2>1. call' = c /\ UNCHANGED <<tab, free, others, mine>>
    BY <1>3 DEF create_system_vm
  <2>5. Stage'
    BY <1>3, <2>1 DEF create_system_vm, Stage
  <2>2. c \in CallRecord
    BY <1>1 DEF CallRecord
  <2>3. c.page = p + 0 /\ 0 + c.left <= MaxPages /\ 0 \in 0 .. MaxPages - 1
    BY <1>1
  <2>4. Loop(c, tab)
    BY <2>3 DEF Loop, BootLoop, MapLoop, UnmapLoop, BacktrackLoop, Returned
  <2> QED
    BY <1>2, <2>1, <2>2, <2>4, <2>5
<1>4. ASSUME init PROVE VInv'
  BY <1>2, <1>4 DEF init, VTypeOK, Stage
<1>5. ASSUME NEW v \in Starts, NEW n \in 1 .. MaxPages, map_address_range(v, n)
      PROVE  VInv'
  <2> DEFINE c == [op |-> "map", at |-> v, page |-> 0, left |-> n, done |-> 0, first |-> v]
  <2>1. call' = c /\ UNCHANGED <<tab, free, others, mine>>
    BY <1>5 DEF map_address_range
  <2>5. Stage'
    BY <1>5, <2>1 DEF map_address_range, Stage, Ready
  <2>2. c \in CallRecord
    BY <1>1 DEF CallRecord
  <2>3. PageAt(v, 0) = v
    <3>1. v + 0 = v /\ v \in Virt
      BY <1>1, SizeType
    <3> QED
      BY <3>1, PageAtFacts
  <2>4. Loop(c, tab)
    BY <2>3 DEF Loop, BootLoop, MapLoop, UnmapLoop, BacktrackLoop, Returned
  <2> QED
    BY <1>2, <2>1, <2>2, <2>4, <2>5
<1>6. ASSUME NEW v \in Starts, NEW n \in 1 .. MaxPages, unmap_address_range(v, n)
      PROVE  VInv'
  <2> DEFINE c == [op |-> "unmap", at |-> v, page |-> 0, left |-> n, done |-> n, first |-> v]
  <2>1. call' = c /\ UNCHANGED <<tab, free, others, mine>> /\ \A k \in 0 .. n - 1 : v + k \in mine
    BY <1>6 DEF unmap_address_range
  <2>6. Stage'
    BY <1>6, <2>1 DEF unmap_address_range, Stage, Ready
  <2>2. c \in CallRecord
    BY <1>1 DEF CallRecord
  <2>3. PageAt(v, n - n) = v
    <3>1. v + 0 = v /\ v \in Virt /\ n - n = 0
      BY <1>1, SizeType
    <3> QED
      BY <3>1, PageAtFacts
  <2>4. ASSUME NEW k \in 0 .. n - 1 PROVE Own(tab, PageAt(v, k))
    <3>1. v + k \in mine /\ v + k \in Virt /\ k \in Nat /\ v \in Virt
      BY <1>1, <2>1 DEF VTypeOK
    <3>2. PageAt(v, k) = v + k
      BY <3>1, PageAtFacts
    <3> QED
      BY <3>1, <3>2
  <2>5. Loop(c, tab)
    BY <2>3, <2>4 DEF Loop, BootLoop, MapLoop, UnmapLoop, BacktrackLoop, Returned
  <2> QED
    BY <1>2, <2>1, <2>2, <2>5, <2>6
<1>7. ASSUME range_return PROVE VInv'
  BY <1>2, <1>7 DEF range_return, Stage
<1> QED
  BY <1>3, <1>4, <1>5, <1>6, <1>7

\* A call after a step, and its fields.
BootCall(c, a, p, l) == [c EXCEPT !.at = a, !.page = p, !.left = l]
MapCall(c, a, l, n) == [c EXCEPT !.at = a, !.left = l, !.done = n]
FailCall(c, a, l) == [c EXCEPT !.op = "backtrack", !.at = a, !.left = l]
UnmapCall(c, a, l) == [c EXCEPT !.at = a, !.left = l]
FalseCall(c) == [c EXCEPT !.op = "false"]

LEMMA BootFields ==
  ASSUME NEW c \in CallRecord, NEW a \in Virt, NEW p \in Nat, NEW l \in Nat
  PROVE  /\ BootCall(c, a, p, l) \in CallRecord
         /\ BootCall(c, a, p, l).op = c.op
         /\ BootCall(c, a, p, l).page = p
         /\ BootCall(c, a, p, l).left = l
BY DEF CallRecord, BootCall

LEMMA MapFields ==
  ASSUME NEW c \in CallRecord, NEW a \in Virt, NEW l \in Nat, NEW n \in Nat
  PROVE  /\ MapCall(c, a, l, n) \in CallRecord
         /\ MapCall(c, a, l, n).op = c.op
         /\ MapCall(c, a, l, n).at = a
         /\ MapCall(c, a, l, n).left = l
         /\ MapCall(c, a, l, n).done = n
         /\ MapCall(c, a, l, n).first = c.first
BY DEF CallRecord, MapCall

LEMMA FailFields ==
  ASSUME NEW c \in CallRecord, NEW a \in Virt, NEW l \in Nat \cup {Endless}
  PROVE  /\ FailCall(c, a, l) \in CallRecord
         /\ FailCall(c, a, l).op = "backtrack"
         /\ FailCall(c, a, l).at = a
         /\ FailCall(c, a, l).left = l
         /\ FailCall(c, a, l).done = c.done
         /\ FailCall(c, a, l).first = c.first
BY DEF CallRecord, FailCall

LEMMA UnmapFields ==
  ASSUME NEW c \in CallRecord, NEW a \in Virt, NEW l \in Nat \cup {Endless}
  PROVE  /\ UnmapCall(c, a, l) \in CallRecord
         /\ UnmapCall(c, a, l).op = c.op
         /\ UnmapCall(c, a, l).at = a
         /\ UnmapCall(c, a, l).left = l
         /\ UnmapCall(c, a, l).done = c.done
         /\ UnmapCall(c, a, l).first = c.first
BY DEF CallRecord, UnmapCall

LEMMA FalseFields ==
  ASSUME NEW c \in CallRecord
  PROVE  /\ FalseCall(c) \in CallRecord
         /\ FalseCall(c).op = "false"
         /\ FalseCall(c).done = c.done
         /\ FalseCall(c).first = c.first
BY DEF CallRecord, FalseCall

LEMMA PageAtApart ==
  ASSUME NEW v \in Virt, NEW k \in Nat, NEW n \in 0 .. k - 1, k < Size
  PROVE  PageAt(v, n) # PageAt(v, k)
BY PageAtFacts

LEMMA NextInVirt == \A v \in Virt : NextPage(v) \in Virt
BY PageAtFacts DEF NextPage

\* A round of the boot code's loop.
LEMMA BootStep ==
  ASSUME VInv, boot_step
  PROVE  VInv'
<1> USE DEF VInv
<1>1. PICK c : c = call
  OBVIOUS
<1>2. /\ c # Idle /\ c.op = "boot" /\ c \in CallRecord /\ Loop(c, tab)
      /\ MapPage(c.at, c.page, free) /\ UNCHANGED <<others, mine>>
      /\ \/ call' = Idle
         \/ /\ c.left # 1
            /\ call' = [c EXCEPT !.at = NextPage(@), !.page = @ + 1, !.left = @ - 1]
  BY <1>1 DEF boot_step, VTypeOK
<1>3. c.at \in Virt /\ c.page \in Nat /\ c.done \in Nat /\ c.first \in Virt
  BY <1>2 DEF CallRecord
<1>4. PICK p \in Device, k \in 0 .. MaxPages - 1 : c.page = p + k /\ k + c.left <= MaxPages
  BY <1>2 DEF Loop, BootLoop
<1>5. c.left \in 1 .. MaxPages /\ MaxPages \in Nat /\ Device \subseteq Nat
  BY <1>2, VirtAssumption DEF Loop, BootLoop
<1>6. c.page \in Phys
  BY <1>4 DEF Phys
<1>7. /\ tab' \in Contents /\ free' \in SUBSET free
      /\ \E l2 : Graded(tab', free', others, l2)
      /\ OnlyPage(tab, tab', c.at)
      /\ Maps(c.at, free) => Leaf(tab', c.at) = c.page
      /\ ~Maps(c.at, free) => Leaf(tab', c.at) = Unmapped
  BY <1>2, <1>3, <1>6, MapStep
<1>8. Tree'
  BY <1>2, <1>7 DEF Tree
<1>9. call' \in CallRecord \cup {Idle} /\ (call' # Idle => Loop(call', tab'))
  <2>1. CASE call' = Idle
    BY <2>1
  <2>2. CASE call' # Idle
    <3> DEFINE d == BootCall(c, NextPage(c.at), c.page + 1, c.left - 1)
    <3>1. call' = d /\ c.left # 1
      BY <1>2, <2>2 DEF BootCall
    <3>2. NextPage(c.at) \in Virt
      BY <1>3, NextInVirt
    <3>7. c.page + 1 \in Nat /\ c.left - 1 \in Nat
      BY <1>3, <1>5
    <3>3. d.op = "boot" /\ d.left = c.left - 1 /\ d.page = c.page + 1 /\ d \in CallRecord
      BY <1>2, <3>2, <3>7, BootFields
    <3> HIDE DEF d
    <3>4. d.page = p + (k + 1) /\ (k + 1) + d.left <= MaxPages /\ k + 1 \in 0 .. MaxPages - 1
          /\ d.left \in 1 .. MaxPages
      BY <1>4, <1>5, <3>1, <3>3
    <3>5. BootLoop(d)
      BY <3>4 DEF BootLoop
    <3>6. Loop(d, tab')
      BY <3>3, <3>5 DEF Loop, MapLoop, UnmapLoop, BacktrackLoop, Returned
    <3> QED
      BY <3>1, <3>3, <3>6
  <2> QED
    BY <2>1, <2>2
<1>10. VTypeOK'
  BY <1>2, <1>7, <1>9 DEF VTypeOK
<1>11. mine = {} /\ Stage'
  <2>1. phase = "boot" /\ mine = {}
    BY <1>1, <1>2 DEF Stage
  <2>2. call' # Idle => phase' = "boot" /\ call'.op = "boot"
    BY <1>1, <1>2, <2>1 DEF boot_step, CallRecord
  <2> QED
    BY <1>2, <2>1, <2>2 DEF Stage
<1> QED
  BY <1>2, <1>8, <1>9, <1>10, <1>11

\* What the steps of the loops have in common.
LEMMA LoopStep ==
  ASSUME VInv, tab' \in Contents, free' \in SUBSET free,
         \E l2 : Graded(tab', free', others, l2), UNCHANGED others,
         mine' \subseteq Virt, \A w \in mine' : Own(tab', w),
         call' \in CallRecord \cup {Idle}, call' # Idle => Loop(call', tab'), Stage'
  PROVE  VInv'
<1>1. VTypeOK'
  BY DEF VInv, VTypeOK
<1>2. Tree'
  BY DEF Tree
<1> QED
  BY <1>1, <1>2 DEF VInv

\* map_address_range maps another page.
LEMMA RangeStep ==
  ASSUME VInv, range_step
  PROVE  VInv'
<1>1. PICK c : c = call
  OBVIOUS
<1>2. VTypeOK /\ Tree /\ Stage /\ (\A w \in mine : Own(tab, w)) /\ mine \subseteq Virt
  BY DEF VInv, VTypeOK
<1>3. /\ c # Idle /\ c.op = "map" /\ Maps(c.at, AfterAlloc)
      /\ MapPage(c.at, AllocPage, AfterAlloc) /\ UNCHANGED <<others, phase>>
      /\ mine' = mine \cup {c.at}
      /\ call' = IF c.left = 1 THEN Idle
                 ELSE [c EXCEPT !.at = NextPage(@), !.left = @ - 1, !.done = @ + 1]
  BY <1>1 DEF range_step
<1>4. c \in CallRecord /\ MapLoop(c, tab)
  BY <1>1, <1>3 DEF VInv, VTypeOK, Loop
<1>5. c.at \in Virt /\ c.done \in Nat /\ c.first \in Virt
  BY <1>4 DEF CallRecord
<1>6. /\ c.left \in 1 .. MaxPages /\ MaxPages \in Nat /\ c.at = PageAt(c.first, c.done)
      /\ \A k \in 0 .. c.done - 1 :
           Own(tab, PageAt(c.first, k)) /\ Leaf(tab, PageAt(c.first, k)) # Unmapped
  BY <1>3, <1>4, VirtAssumption DEF MapLoop
<1>7. /\ tab' \in Contents /\ free' \in SUBSET AfterAlloc
      /\ \E l2 : Graded(tab', free', others, l2)
      /\ OnlyPage(tab, tab', c.at)
      /\ PT(tab', c.at) # Unmapped /\ Leaf(tab', c.at) = AllocPage
  BY <1>2, <1>3, <1>5, AllocFacts, MapStep
<1>8. AllocPage \notin Frames /\ AllocPage # Unmapped /\ free' \in SUBSET free
  BY <1>2, <1>7, AllocFacts
<1>9. Own(tab', c.at) /\ Leaf(tab', c.at) # Unmapped
  BY <1>7, <1>8 DEF Own
<1>10. ASSUME NEW w \in Virt, Own(tab, w) PROVE Own(tab', w)
  BY <1>7, <1>8, <1>10, OwnKept
<1>11. \A w \in mine' : Own(tab', w)
  BY <1>2, <1>3, <1>9, <1>10
<1>12. mine' \subseteq Virt
  BY <1>2, <1>3, <1>5
<1>13. call' \in CallRecord \cup {Idle} /\ (call' # Idle => call'.op = "map" /\ Loop(call', tab'))
  <2>1. CASE c.left = 1
    BY <1>3, <2>1
  <2>2. CASE c.left # 1
    <3> DEFINE d == MapCall(c, NextPage(c.at), c.left - 1, c.done + 1)
    <3>1. call' = d
      BY <1>3, <2>2 DEF MapCall
    <3>2. NextPage(c.at) \in Virt /\ NextPage(c.at) = PageAt(c.first, c.done + 1)
      <4>1. NextPage(c.at) \in Virt
        BY <1>5, NextInVirt
      <4>2. NextPage(PageAt(c.first, c.done)) = PageAt(c.first, c.done + 1)
        BY <1>5, PageAtFacts
      <4> QED
        BY <1>6, <4>1, <4>2
    <3>3. c.left - 1 \in 1 .. MaxPages /\ c.left - 1 \in Nat /\ c.done + 1 \in Nat
      BY <1>5, <1>6, <2>2
    <3>4. /\ d \in CallRecord /\ d.op = "map" /\ d.at = NextPage(c.at)
          /\ d.left = c.left - 1 /\ d.done = c.done + 1 /\ d.first = c.first
      BY <1>3, <1>4, <3>2, <3>3, MapFields
    <3> HIDE DEF d
    <3>5. ASSUME NEW k \in 0 .. d.done - 1
          PROVE  Own(tab', PageAt(d.first, k)) /\ Leaf(tab', PageAt(d.first, k)) # Unmapped
      <4>1. CASE PageAt(c.first, k) = c.at
        BY <1>9, <3>4, <4>1
      <4>2. CASE PageAt(c.first, k) # c.at
        <5>1. k \in 0 .. c.done - 1 /\ k \in Nat
          <6>1. k # c.done
            BY <1>6, <4>2
          <6> QED
            BY <1>5, <3>4, <6>1
        <5>2. PageAt(c.first, k) \in Virt
          BY <1>5, <5>1, PageAtFacts
        <5>3. Own(tab, PageAt(c.first, k)) /\ Leaf(tab, PageAt(c.first, k)) # Unmapped
          BY <1>6, <5>1
        <5>4. Leaf(tab', PageAt(c.first, k)) = Leaf(tab, PageAt(c.first, k))
          BY <1>7, <4>2, <5>2 DEF OnlyPage
        <5> QED
          BY <1>10, <3>4, <5>2, <5>3, <5>4
      <4> QED
        BY <4>1, <4>2
    <3>6. MapLoop(d, tab')
      BY <3>2, <3>3, <3>4, <3>5 DEF MapLoop
    <3>7. Loop(d, tab')
      BY <3>4, <3>6 DEF Loop, BootLoop, UnmapLoop, BacktrackLoop, Returned
    <3> QED
      BY <3>1, <3>4, <3>7
  <2> QED
    BY <2>1, <2>2
<1>14. Stage'
  BY <1>1, <1>2, <1>3, <1>13 DEF Stage
<1> QED
  BY <1>3, <1>7, <1>8, <1>11, <1>12, <1>13, <1>14, LoopStep

\* map_address_range finds no table and starts to undo what it did.
LEMMA FailStep ==
  ASSUME VInv, range_fail
  PROVE  VInv'
<1>1. PICK c : c = call
  OBVIOUS
<1>2. VTypeOK /\ Tree /\ Stage /\ (\A w \in mine : Own(tab, w)) /\ mine \subseteq Virt
  BY DEF VInv, VTypeOK
<1>3. /\ c # Idle /\ c.op = "map" /\ ~Maps(c.at, AfterAlloc)
      /\ MapPage(c.at, AllocPage, AfterAlloc) /\ UNCHANGED <<others, mine, phase>>
      /\ call' = FailCall(c, c.first, Backtrack(c.done))
  BY <1>1 DEF range_fail, FailCall
<1>4. c \in CallRecord /\ MapLoop(c, tab)
  BY <1>1, <1>3 DEF VInv, VTypeOK, Loop
<1>5. c.at \in Virt /\ c.done \in Nat /\ c.first \in Virt
  BY <1>4 DEF CallRecord
<1>6. /\ c.at = PageAt(c.first, c.done)
      /\ \A k \in 0 .. c.done - 1 :
           Own(tab, PageAt(c.first, k)) /\ Leaf(tab, PageAt(c.first, k)) # Unmapped
  BY <1>3, <1>4 DEF MapLoop
<1>7. /\ tab' \in Contents /\ free' \in SUBSET AfterAlloc
      /\ \E l2 : Graded(tab', free', others, l2)
      /\ OnlyPage(tab, tab', c.at)
      /\ Leaf(tab, c.at) = Unmapped /\ Leaf(tab', c.at) = Unmapped
  BY <1>2, <1>3, <1>5, AllocFacts, MapStep
<1>8. free' \in SUBSET free /\ Leaf(tab', c.at) \notin Frames
  BY <1>2, <1>7, AllocFacts, Basics
<1>9. ASSUME NEW w \in Virt, Own(tab, w) PROVE Own(tab', w)
  BY <1>7, <1>8, <1>9, OwnKept
<1>10. mine' \subseteq Virt /\ \A w \in mine' : Own(tab', w)
  BY <1>2, <1>3, <1>9
<1> DEFINE d == FailCall(c, c.first, Backtrack(c.done))
<1>11. Backtrack(c.done) = IF c.done < 2 THEN Endless ELSE c.done - 1
  BY DEF Backtrack
<1>12. Backtrack(c.done) \in Nat \cup {Endless}
  BY <1>5, <1>11
<1>13. /\ d \in CallRecord /\ d.op = "backtrack" /\ d.at = c.first
       /\ d.left = Backtrack(c.done) /\ d.done = c.done /\ d.first = c.first
  BY <1>4, <1>5, <1>12, FailFields
<1> HIDE DEF d
<1>14. ASSUME d.left # Endless
       PROVE  /\ d.left \in 1 .. d.done - 1
              /\ d.at = PageAt(d.first, d.done - 1 - d.left)
              /\ LastTwo(d, tab')
              /\ \A k \in 0 .. d.done - 1 : Own(tab', PageAt(d.first, k))
              /\ \A k \in 0 .. d.done - 2 - d.left : Leaf(tab', PageAt(d.first, k)) \in {Unmapped, 0}
  <2>1. c.done >= 2 /\ d.left = c.done - 1
    BY <1>5, <1>11, <1>13, <1>14
  <2>2. d.left \in 1 .. d.done - 1 /\ d.done - 1 - d.left = 0 /\ d.done - 2 - d.left = 0 - 1
    BY <1>5, <1>13, <2>1
  <2>3. d.at = PageAt(d.first, d.done - 1 - d.left)
    <3>1. c.first + 0 = c.first
      BY <1>5, SizeType
    <3>2. PageAt(c.first, 0) = c.first
      BY <1>5, <3>1, PageAtFacts
    <3> QED
      BY <1>13, <2>2, <3>2
  \* The call would have met a page of its own.
  <2>4. c.done < Size
    <3> SUFFICES ASSUME c.done >= Size PROVE FALSE
      BY <1>5, SizeType
    <3>1. c.done - Size \in Nat /\ c.done - Size \in 0 .. c.done - 1 /\ (c.done - Size) + Size = c.done
      BY <1>5, SizeType
    <3>2. PageAt(c.first, c.done - Size) = PageAt(c.first, (c.done - Size) + Size)
      BY <1>5, <3>1, PageAtFacts
    <3> QED
      BY <1>6, <1>7, <3>1, <3>2
  <2>5. c.done - 1 \in Nat /\ c.done - 1 \in 0 .. c.done - 1
    BY <1>5, <2>1
  <2>6. PageAt(c.first, c.done - 1) \in Virt /\ Leaf(tab, PageAt(c.first, c.done - 1)) # Unmapped
    BY <1>5, <1>6, <2>5, PageAtFacts
  <2>7. Leaf(tab', PageAt(c.first, c.done - 1)) # Unmapped
    BY <1>7, <2>6 DEF OnlyPage
  <2>8. d.done \in 2 .. Size - 1
    BY <1>5, <1>13, <2>1, <2>4, SizeType
  <2>9. LastTwo(d, tab')
    BY <1>6, <1>7, <1>13, <2>7, <2>8 DEF LastTwo
  <2>10. ASSUME NEW k \in 0 .. d.done - 1 PROVE Own(tab', PageAt(d.first, k))
    <3>1. k \in Nat /\ k \in 0 .. c.done - 1
      BY <1>5, <1>13
    <3>2. PageAt(c.first, k) \in Virt /\ Own(tab, PageAt(c.first, k))
      BY <1>5, <1>6, <3>1, PageAtFacts
    <3> QED
      BY <1>9, <1>13, <3>2
  <2>11. \A k \in 0 .. d.done - 2 - d.left : FALSE
    BY <2>2
  <2> QED
    BY <2>2, <2>3, <2>9, <2>10, <2>11
<1>15. Loop(d, tab')
  BY <1>13, <1>14 DEF Loop, BootLoop, MapLoop, UnmapLoop, BacktrackLoop, Returned
<1>16. call' = d
  BY <1>3 DEF d
<1>17. Stage'
  BY <1>1, <1>2, <1>3, <1>13, <1>16 DEF Stage
<1> QED
  BY <1>3, <1>7, <1>8, <1>10, <1>13, <1>15, <1>16, <1>17, LoopStep

\* A round of _unmap_region's loop, for a range or for the backtrack.  A backtrack
\* that runs away meets pages that the call did not map: if one of them leads to
\* a frame, that frame goes back to physmm.
LEMMA UnmapLoopStep ==
  ASSUME VInv, Runaway => Apart, unmap_step
  PROVE  VInv'
<1>1. PICK c : c = call
  OBVIOUS
<1>2. VTypeOK /\ Tree /\ Stage /\ (\A w \in mine : Own(tab, w)) /\ mine \subseteq Virt
  BY DEF VInv, VTypeOK
<1>3. /\ c # Idle /\ c.op \in {"unmap", "backtrack"}
      /\ UnmapPage(c.at, TRUE) /\ UNCHANGED <<others, phase>>
      /\ mine' \subseteq mine
      /\ call' = IF c.left = 1
                 THEN IF c.op = "unmap" THEN Idle ELSE FalseCall(c)
                 ELSE UnmapCall(c, IF PT(tab, c.at) = Unmapped THEN c.at ELSE NextPage(c.at),
                                IF c.left = Endless THEN c.left ELSE c.left - 1)
  BY <1>1, Walks DEF unmap_step, FalseCall, UnmapCall
<1>4. c \in CallRecord /\ UnmapLoop(c, tab) /\ BacktrackLoop(c, tab)
  BY <1>1, <1>3 DEF VInv, VTypeOK, Loop
<1>5. c.at \in Virt /\ c.done \in Nat /\ c.first \in Virt /\ c.left \in Nat \cup {Endless}
  BY <1>4 DEF CallRecord
<1>6. tab \in Contents /\ NextPage(c.at) \in Virt
  BY <1>2, <1>5, NextInVirt DEF VTypeOK
\* The number of the page, and how many pages physmm does not know.
<1>7. ASSUME c.left # Endless
      PROVE  \E m \in Nat :
               /\ m < c.done /\ c.at = PageAt(c.first, m)
               /\ m = IF c.op = "unmap" THEN c.done - c.left ELSE c.done - 1 - c.left
               /\ c.left \in 1 .. c.done
               /\ \A k \in 0 .. c.done - 1 : Own(tab, PageAt(c.first, k))
  <2>1. CASE c.op = "unmap"
    <3>1. /\ c.left \in 1 .. c.done /\ c.at = PageAt(c.first, c.done - c.left)
          /\ \A k \in 0 .. c.done - 1 : Own(tab, PageAt(c.first, k))
      BY <1>4, <2>1 DEF UnmapLoop
    <3>2. c.done - c.left \in Nat /\ c.done - c.left < c.done
      BY <1>5, <3>1
    <3> QED
      BY <2>1, <3>1, <3>2
  <2>2. CASE c.op = "backtrack"
    <3>1. /\ c.left \in 1 .. c.done - 1 /\ c.at = PageAt(c.first, c.done - 1 - c.left)
          /\ \A k \in 0 .. c.done - 1 : Own(tab, PageAt(c.first, k))
      BY <1>4, <1>7, <2>2 DEF BacktrackLoop
    <3>2. c.done - 1 - c.left \in Nat /\ c.done - 1 - c.left < c.done /\ c.left \in 1 .. c.done
      BY <1>5, <3>1
    <3> QED
      BY <2>2, <3>1, <3>2
  <2> QED
    BY <1>3, <2>1, <2>2
<1>8. ASSUME c.left # Endless PROVE Own(tab, c.at)
  <2>1. PICK m \in Nat : /\ m < c.done /\ c.at = PageAt(c.first, m)
                         /\ \A k \in 0 .. c.done - 1 : Own(tab, PageAt(c.first, k))
    BY <1>7, <1>8
  <2>2. m \in 0 .. c.done - 1
    BY <1>5, <2>1
  <2> QED
    BY <2>1, <2>2
<1>9. Leaf(tab, c.at) \notin Frames
  <2>1. CASE c.left # Endless
    BY <1>8, <2>1 DEF Own
  <2>2. CASE c.left = Endless
    <3>1. Apart
      BY <1>1, <1>3, <2>2 DEF Runaway
    <3>2. \A x \in Phys : x \notin Frames
      BY <3>1, Basics DEF Phys, Apart
    <3>3. PICK lev : Graded(tab, free, others, lev)
      BY <1>2 DEF Tree
    <3>4. c.at \in Nat
      BY <1>5, SizeType
    <3>5. Leaf(tab, c.at) \in Phys \cup {Unmapped}
      BY <1>6, <3>3, <3>4, LeafType
    <3> QED
      BY <3>2, <3>5, Basics
  <2> QED
    BY <2>1, <2>2
<1>10. /\ tab' \in Contents /\ free' = free
       /\ \E l2 : Graded(tab', free, others, l2)
       /\ OnlyPage(tab, tab', c.at)
       /\ Leaf(tab', c.at) \in {Unmapped, 0}
  BY <1>2, <1>3, <1>5, <1>9, Walks, UnmapStep
<1>11. ASSUME NEW w \in Virt, Own(tab, w) PROVE Own(tab', w)
  <2>1. Leaf(tab', c.at) \notin Frames
    BY <1>10, Basics
  <2> QED
    BY <1>10, <1>11, <2>1, OwnKept
<1>12. mine' \subseteq Virt /\ \A w \in mine' : Own(tab', w)
  BY <1>2, <1>3, <1>11
<1>13. ASSUME \A k \in 0 .. c.done - 1 : Own(tab, PageAt(c.first, k))
       PROVE  \A k \in 0 .. c.done - 1 : Own(tab', PageAt(c.first, k))
  <2> TAKE k \in 0 .. c.done - 1
  <2>1. k \in Nat
    BY <1>5
  <2>2. PageAt(c.first, k) \in Virt
    BY <1>5, <2>1, PageAtFacts
  <2> QED
    BY <1>11, <1>13, <2>2
\* The two pages behind the backtrack are not reached.
<1>14. ASSUME c.op = "backtrack", c.left # Endless, NEW d, d.done = c.done, d.first = c.first
       PROVE  LastTwo(d, tab')
  <2>1. c.done \in 2 .. Size - 1 /\ Size \in Nat
        /\ Leaf(tab, PageAt(c.first, c.done - 1)) # Unmapped
        /\ Leaf(tab, PageAt(c.first, c.done)) = Unmapped
    BY <1>4, <1>14, SizeType DEF BacktrackLoop, LastTwo
  <2>2. PICK m \in Nat : /\ c.at = PageAt(c.first, m) /\ m = c.done - 1 - c.left /\ c.left \in 1 .. c.done
    BY <1>7, <1>14
  <2>3. /\ c.done \in Nat /\ m \in 0 .. c.done - 1 /\ c.done < Size
        /\ c.done - 1 \in Nat /\ m \in 0 .. (c.done - 1) - 1 /\ c.done - 1 < Size
    BY <1>5, <2>1, <2>2
  <2>4. PageAt(c.first, c.done) # c.at /\ PageAt(c.first, c.done) \in Virt
    <3>1. PageAt(c.first, m) # PageAt(c.first, c.done)
      BY <1>5, <2>3, PageAtApart
    <3>2. PageAt(c.first, c.done) \in Virt
      BY <1>5, PageAtFacts
    <3> QED
      BY <2>2, <3>1, <3>2
  <2>5. PageAt(c.first, c.done - 1) # c.at /\ PageAt(c.first, c.done - 1) \in Virt
    <3>1. PageAt(c.first, m) # PageAt(c.first, c.done - 1)
      BY <1>5, <2>3, PageAtApart
    <3>2. PageAt(c.first, c.done - 1) \in Virt
      BY <1>5, <2>3, PageAtFacts
    <3> QED
      BY <2>2, <3>1, <3>2
  <2>6. /\ Leaf(tab', PageAt(c.first, c.done)) = Unmapped
        /\ Leaf(tab', PageAt(c.first, c.done - 1)) # Unmapped
    BY <1>10, <2>1, <2>4, <2>5 DEF OnlyPage
  <2> QED
    BY <1>14, <2>1, <2>6 DEF LastTwo
\* The pages that are undone, this one included.
<1>15. ASSUME c.op = "backtrack", c.left # Endless, NEW k \in 0 .. c.done - 1 - c.left
       PROVE  Leaf(tab', PageAt(c.first, k)) \in {Unmapped, 0}
  <2>1. CASE PageAt(c.first, k) = c.at
    BY <1>10, <2>1
  <2>2. CASE PageAt(c.first, k) # c.at
    <3>1. PICK m \in Nat : /\ c.at = PageAt(c.first, m) /\ m = c.done - 1 - c.left /\ c.left \in 1 .. c.done
      BY <1>7, <1>15
    <3>2. k # m
      BY <2>2, <3>1
    <3>3. k \in Nat /\ k \in 0 .. c.done - 2 - c.left
      BY <1>5, <3>1, <3>2
    <3>4. PageAt(c.first, k) \in Virt
      BY <1>5, <3>3, PageAtFacts
    <3>5. Leaf(tab, PageAt(c.first, k)) \in {Unmapped, 0}
      BY <1>4, <1>15, <3>3 DEF BacktrackLoop
    <3> QED
      BY <1>10, <2>2, <3>4, <3>5 DEF OnlyPage
  <2> QED
    BY <2>1, <2>2
<1>16. CASE c.left = 1 /\ c.op = "unmap"
  <2>1. call' = Idle
    BY <1>3, <1>16
  <2>2. Stage'
    BY <1>1, <1>2, <1>3, <1>16, <2>1 DEF Stage
  <2> QED
    BY <1>3, <1>10, <1>12, <2>1, <2>2, LoopStep
<1>17. CASE c.left = 1 /\ c.op = "backtrack"
  <2> DEFINE d == FalseCall(c)
  <2>1. call' = d
    BY <1>3, <1>17
  <2>2. d \in CallRecord /\ d.op = "false" /\ d.done = c.done /\ d.first = c.first
    BY <1>4, FalseFields
  <2> HIDE DEF d
  <2>3. c.left # Endless /\ c.done - 1 - c.left = d.done - 2
    BY <1>5, <1>17, <2>2 DEF Endless
  <2>4. LastTwo(d, tab')
    BY <1>14, <1>17, <2>2, <2>3
  <2>5. \A k \in 0 .. d.done - 2 : Leaf(tab', PageAt(d.first, k)) \in {Unmapped, 0}
    BY <1>15, <1>17, <2>2, <2>3
  <2>6. Loop(d, tab')
    BY <2>2, <2>4, <2>5 DEF Loop, BootLoop, MapLoop, UnmapLoop, BacktrackLoop, Returned
  <2>7. Stage'
    BY <1>1, <1>2, <1>3, <1>17, <2>1, <2>2 DEF Stage
  <2> QED
    BY <1>3, <1>10, <1>12, <2>1, <2>2, <2>6, <2>7, LoopStep
<1>18. CASE c.left # 1
  <2>1. PICK a, l : /\ a = IF PT(tab, c.at) = Unmapped THEN c.at ELSE NextPage(c.at)
                    /\ l = IF c.left = Endless THEN c.left ELSE c.left - 1
    OBVIOUS
  <2> DEFINE d == UnmapCall(c, a, l)
  <2>2. call' = d
    BY <1>3, <1>18, <2>1
  <2>3. a \in Virt
    BY <1>5, <1>6, <2>1
  <2>4. c.left # Endless => c.left \in 1 .. c.done
    BY <1>7
  <2>5. l \in Nat \cup {Endless}
    BY <1>5, <2>1, <2>4
  <2>6. /\ d \in CallRecord /\ d.op = c.op /\ d.at = a /\ d.left = l
        /\ d.done = c.done /\ d.first = c.first
    BY <1>4, <2>3, <2>5, UnmapFields
  <2> HIDE DEF d
  <2>7. UnmapLoop(d, tab') /\ BacktrackLoop(d, tab')
    <3>1. CASE c.left = Endless
      <4>1. c.op # "unmap"
        BY <1>4, <1>5, <3>1 DEF UnmapLoop, Endless
      <4> QED
        BY <2>1, <2>6, <3>1, <4>1 DEF UnmapLoop, BacktrackLoop
    <3>2. CASE c.left # Endless
      <4>1. PICK m \in Nat :
               /\ m < c.done /\ c.at = PageAt(c.first, m)
               /\ m = IF c.op = "unmap" THEN c.done - c.left ELSE c.done - 1 - c.left
               /\ c.left \in 1 .. c.done
               /\ \A k \in 0 .. c.done - 1 : Own(tab, PageAt(c.first, k))
        BY <1>7, <3>2
      <4>2. PT(tab, c.at) # Unmapped
        BY <1>8, <3>2 DEF Own
      <4>3. d.at = PageAt(c.first, m + 1)
        <5>1. NextPage(PageAt(c.first, m)) = PageAt(c.first, m + 1)
          BY <1>5, PageAtFacts
        <5>2. d.at = NextPage(c.at)
          BY <2>1, <2>6, <4>2
        <5> QED
          BY <4>1, <5>1, <5>2
      <4>4. d.left = c.left - 1 /\ d.left \in 1 .. c.done - 1
        BY <1>5, <1>18, <2>1, <2>6, <3>2, <4>1
      <4>5. \A k \in 0 .. d.done - 1 : Own(tab', PageAt(d.first, k))
        BY <1>13, <2>6, <4>1
      <4>6. CASE c.op = "unmap"
        <5>1. m + 1 = d.done - d.left /\ d.left \in 1 .. d.done
          BY <1>5, <2>6, <4>1, <4>4, <4>6
        <5> QED
          BY <2>6, <4>3, <4>5, <4>6, <5>1 DEF UnmapLoop, BacktrackLoop
      <4>7. CASE c.op = "backtrack"
        <5>1. m + 1 = d.done - 1 - d.left /\ d.left \in 1 .. d.done - 1
              /\ d.done - 2 - d.left = c.done - 1 - c.left
          BY <1>5, <2>6, <4>1, <4>4, <4>7
        <5>2. LastTwo(d, tab')
          BY <1>14, <2>6, <3>2, <4>7
        <5>3. \A k \in 0 .. d.done - 2 - d.left : Leaf(tab', PageAt(d.first, k)) \in {Unmapped, 0}
          BY <1>15, <2>6, <3>2, <4>7, <5>1
        <5>4. d.at = PageAt(d.first, d.done - 1 - d.left)
          BY <2>6, <4>3, <5>1
        <5> QED
          BY <2>6, <4>5, <4>7, <5>1, <5>2, <5>3, <5>4 DEF UnmapLoop, BacktrackLoop
      <4> QED
        BY <1>3, <4>6, <4>7
    <3> QED
      BY <3>1, <3>2
  <2>8. Loop(d, tab')
    BY <1>3, <2>6, <2>7 DEF Loop, BootLoop, MapLoop, Returned
  <2>9. Stage'
    BY <1>1, <1>2, <1>3, <2>2, <2>6 DEF Stage
  <2> QED
    BY <1>3, <1>10, <1>12, <2>2, <2>6, <2>8, <2>9, LoopStep
<1> QED
  BY <1>3, <1>16, <1>17, <1>18

\* The other users of physmm: none of the frames that change hands is a table.
LEMMA OthersStep ==
  ASSUME VInv, NEW f \in Frames, take(f) \/ give(f)
  PROVE  VInv'
<1>1. VTypeOK /\ Stage /\ UNCHANGED <<tab, mine, call, phase>>
  BY DEF VInv, take, give
<1>2. VTypeOK'
  BY <1>1 DEF VTypeOK, take, give
<1>3. Stage'
  BY <1>1 DEF Stage
<1>4. PICK lev : Graded(tab, free, others, lev)
  BY DEF VInv, Tree
<1>5. \A t \in Frames : lev[t] > 0 => t \notin free' /\ t \notin others'
  BY <1>4 DEF Graded, take, give
<1>6. Graded(tab, free', others', lev)
  BY <1>4, <1>5 DEF Graded
<1>7. Tree'
  BY <1>1, <1>6 DEF Tree
<1> QED
  BY <1>1, <1>2, <1>3, <1>7 DEF VInv

LEMMA VInvNext == VInv /\ (Runaway => Apart) /\ [Next]_vars => VInv'
<1> SUFFICES ASSUME VInv, Runaway => Apart, [Next]_vars PROVE VInv'
  OBVIOUS
<1>1. CASE UNCHANGED vars
  <2>1. UNCHANGED tab /\ UNCHANGED free /\ UNCHANGED others /\ UNCHANGED mine
        /\ UNCHANGED call /\ UNCHANGED phase
    BY <1>1 DEF vars
  <2>2. VTypeOK' /\ Stage'
    BY <2>1 DEF VInv, VTypeOK, Stage
  <2>3. Tree'
    BY <2>1 DEF VInv, Tree
  <2> QED
    BY <2>1, <2>2, <2>3 DEF VInv
<1>2. CASE Next
  BY <1>2, SinglePageStep, StartStep, BootStep, RangeStep, FailStep, UnmapLoopStep,
     OthersStep DEF Next
<1> QED
  BY <1>1, <1>2

\* The invariant behind everything below, for as long as no backtrack runs away
\* over frames that the kernel has mapped itself.
THEOREM TablesInvariant == Spec /\ [](Runaway => Apart) => []VInv
<1>1. Init => VInv
  BY VInvInit
<1>2. VInv /\ (Runaway => Apart) /\ [Next]_vars => VInv'
  BY VInvNext
<1> QED
  BY <1>1, <1>2, PTL DEF Spec

-----------------------------------------------------------------------------
(* No frame is a table twice *)

\* The tables that the entries of one level lead to.
LEMMA InnerLevel ==
  ASSUME VTypeOK, NEW lev, Graded(tab, free, others, lev), NEW k \in 2 .. 4
  PROVE  Inner({t \in Frames : lev[t] = k}) = {t \in Frames : lev[t] = k - 1}
<1> DEFINE S == {t \in Frames : lev[t] = k}
<1>1. /\ \A t \in Frames : lev[t] \in 0 .. 4
      /\ \A t \in Frames : lev[t] \in 2 .. 4 => \A i \in Word :
           tab[t][i] = Unmapped \/ (tab[t][i] \in Frames /\ lev[tab[t][i]] = lev[t] - 1)
      /\ \A t \in Frames : lev[t] \in 1 .. 3 =>
           \E u \in Frames, i \in Word : lev[u] \in 2 .. 4 /\ tab[u][i] = t
  BY DEF Graded
<1>2. Inner(S) = {tab[t][i] : t \in S, i \in Word} \ {Unmapped}
  <2>1. S \cap Frames = S
    OBVIOUS
  <2> QED
    BY <2>1 DEF Inner, Word
<1>3. ASSUME NEW x \in Inner(S) PROVE x \in Frames /\ lev[x] = k - 1
  <2>1. PICK t \in S, i \in Word : x = tab[t][i] /\ x # Unmapped
    BY <1>2, <1>3
  <2> QED
    BY <1>1, <2>1
<1>4. ASSUME NEW x \in Frames, lev[x] = k - 1 PROVE x \in Inner(S)
  <2>1. lev[x] \in 1 .. 3
    BY <1>4
  <2>2. PICK u \in Frames, i \in Word : lev[u] \in 2 .. 4 /\ tab[u][i] = x
    BY <1>1, <2>1
  <2>3. x # Unmapped
    BY Basics
  <2>4. lev[x] = lev[u] - 1
    BY <1>1, <2>2, <2>3
  <2>5. lev[u] = k
    BY <1>4, <2>2, <2>4
  <2>6. u \in S
    BY <2>5
  <2> QED
    BY <1>2, <2>2, <2>3, <2>6
<1> QED
  BY <1>3, <1>4

LEMMA TreeIsExclusive == VInv => TablesExclusive
<1> SUFFICES ASSUME VInv PROVE TablesExclusive
  OBVIOUS
<1>1. VTypeOK
  BY DEF VInv
<1>2. PICK lev : Graded(tab, free, others, lev)
  BY DEF VInv, Tree
<1> DEFINE L(k) == {t \in Frames : lev[t] = k}
           A == {t \in Frames : lev[t] > 0}
           B == {t \in Frames : lev[t] \in 2 .. 4}
           slots == {x \in B \X Word : tab[x[1]][x[2]] # Unmapped}
<1>3. /\ \A t \in Frames : lev[t] \in 0 .. 4
      /\ \A t \in Frames : lev[t] = 4 <=> t = Root
  BY <1>2 DEF Graded
<1>4. Level4 = L(4)
  BY <1>3, Basics DEF Level4
<1>5. Level3 = L(3) /\ Level2 = L(2) /\ Level1 = L(1)
  <2>1. 4 \in 2 .. 4 /\ 3 \in 2 .. 4 /\ 2 \in 2 .. 4 /\ 4 - 1 = 3 /\ 3 - 1 = 2 /\ 2 - 1 = 1
    OBVIOUS
  <2>2. Inner(L(4)) = L(3)
    BY <1>1, <1>2, <2>1, InnerLevel
  <2>3. Inner(L(3)) = L(2)
    BY <1>1, <1>2, <2>1, InnerLevel
  <2>4. Inner(L(2)) = L(1)
    BY <1>1, <1>2, <2>1, InnerLevel
  <2> QED
    BY <1>4, <2>2, <2>3, <2>4 DEF Level3, Level2, Level1
<1>6. Level4 \cup Level3 \cup Level2 = B
  BY <1>3, <1>4, <1>5
<1>7. B \cup Level1 = A
  BY <1>3, <1>5
<1>8. B \cap Frames = B
  OBVIOUS
<1>9. A \cap (free \cup others) = {}
  BY <1>2 DEF Graded
<1>10. Cardinality(slots) = Cardinality(A) - 1
  <2>1. IsFiniteSet(slots)
    <3>1. IsFiniteSet(Frames) /\ IsFiniteSet(Word)
      BY VirtAssumption, FS_Interval DEF Word
    <3>2. IsFiniteSet(Frames \X Word)
      BY <3>1, FS_Product
    <3>3. slots \in SUBSET (Frames \X Word)
      OBVIOUS
    <3> QED
      BY <3>2, <3>3, FS_Subset
  <2>2. IsFiniteSet(A)
    BY VirtAssumption, FS_Subset
  <2> DEFINE F == [x \in slots |-> tab[x[1]][x[2]]]
             C == A \ {Root}
  <2>3. ASSUME NEW x \in slots
        PROVE  /\ x[1] \in Frames /\ lev[x[1]] \in 2 .. 4 /\ x[2] \in Word
               /\ tab[x[1]][x[2]] # Unmapped /\ x = <<x[1], x[2]>>
               /\ F[x] = tab[x[1]][x[2]]
    OBVIOUS
  <2>4. ASSUME NEW t \in Frames, lev[t] \in 2 .. 4, NEW i \in Word, tab[t][i] # Unmapped
        PROVE  <<t, i>> \in slots /\ F[<<t, i>>] = tab[t][i]
    <3>1. <<t, i>> \in slots
      BY <2>4
    <3> QED
      BY <3>1
  <2> HIDE DEF F, slots
  <2>5. F \in [slots -> C]
    <3>1. ASSUME NEW x \in slots PROVE F[x] \in C
      <4>1. F[x] \in Frames /\ lev[F[x]] = lev[x[1]] - 1
        BY <1>2, <2>3 DEF Graded
      <4> QED
        BY <1>3, <2>3, <4>1
    <3> QED
      BY <3>1 DEF F
  <2>6. \A x, y \in slots : F[x] = F[y] => x = y
    <3> TAKE x, y \in slots
    <3> HAVE F[x] = F[y]
    <3>1. x[1] = y[1] /\ x[2] = y[2]
      BY <1>2, <2>3 DEF Graded
    <3> QED
      BY <2>3, <3>1
  <2>7. \A t \in C : \E x \in slots : F[x] = t
    <3> TAKE t \in C
    <3>1. t \in Frames /\ lev[t] \in 1 .. 3
      BY <1>3
    <3>2. PICK u \in Frames, i \in Word : lev[u] \in 2 .. 4 /\ tab[u][i] = t
      BY <1>2, <3>1 DEF Graded
    <3>3. tab[u][i] # Unmapped
      BY <3>1, <3>2, Basics
    <3> QED
      BY <2>4, <3>2, <3>3
  <2>8. F \in Bijection(slots, C)
    <3>1. DOMAIN F = slots
      BY <2>5
    <3>2. F \in Injection(slots, C)
      BY <2>5, <2>6, <3>1 DEF Injection, IsInjective
    <3>3. F \in Surjection(slots, C)
      BY <2>5, <2>7 DEF Surjection
    <3> QED
      BY <3>2, <3>3 DEF Bijection
  <2>9. ExistsBijection(slots, C)
    BY <2>8 DEF ExistsBijection
  <2>10. Cardinality(C) = Cardinality(slots)
    BY <2>1, <2>9, FS_Bijection
  <2>11. Root \in A
    BY <1>3, Basics
  <2>12. Cardinality(C) = Cardinality(A) - 1
    BY <2>2, <2>11, FS_RemoveElement
  <2> QED
    BY <2>10, <2>12
<1> QED
  BY <1>6, <1>7, <1>8, <1>9, <1>10 DEF TablesExclusive, Word

\* No frame is a table twice, and none is in physmm's or in other hands: the
\* tables that _map_region (virtmm.cc) allocates form a tree, whatever calls
\* were made, failed half-way or ran between those of physmm's other users.
THEOREM TablesAlwaysExclusive == Spec /\ [](Runaway => Apart) => []TablesExclusive
<1>1. VInv => TablesExclusive
  BY TreeIsExclusive
<1> QED
  BY <1>1, TablesInvariant, PTL

-----------------------------------------------------------------------------
(* The backtrack *)

LEMMA ReturnedOneShort == VInv => BacktrackOneShort
<1> SUFFICES ASSUME VInv, call # Idle, call.op = "false"
             PROVE  /\ \A k \in 0 .. call.done - 2 : ~lookup_mapping(PageAt(call.first, k))
                    /\ Translate(PageAt(call.first, call.done - 1)) # Unmapped
                    /\ Translate(PageAt(call.first, call.done)) = Unmapped
  BY DEF BacktrackOneShort
<1>1. Returned(call, tab)
  BY DEF VInv, Loop
<1>2. /\ Leaf(tab, PageAt(call.first, call.done - 1)) # Unmapped
      /\ Leaf(tab, PageAt(call.first, call.done)) = Unmapped
      /\ \A k \in 0 .. call.done - 2 : Leaf(tab, PageAt(call.first, k)) \in {Unmapped, 0}
  BY <1>1 DEF Returned, LastTwo
<1>3. \A v : Translate(v) = Leaf(tab, v)
  BY Walks
<1> QED
  BY <1>2, <1>3 DEF lookup_mapping

\* When map_address_range returns false, all of its pages but the last one are
\* unmapped again, whatever the range and however its pages wrap around.
THEOREM BacktrackAlwaysOneShort == Spec /\ [](Runaway => Apart) => []BacktrackOneShort
<1>1. VInv => BacktrackOneShort
  BY ReturnedOneShort
<1> QED
  BY <1>1, TablesInvariant, PTL

-----------------------------------------------------------------------------
(* The refinement of the flat map *)

\* At most one page gets another translation.
OnePage == \E v \in Virt : \A w \in Virt : w # v => Leaf(tab', w) = Leaf(tab, w)

LEMMA UnmapOnePage ==
  ASSUME VTypeOK, Tree, NEW v \in Virt, NEW g, UnmapPage(v, g)
  PROVE  OnePage
<1>1. PICK lev : Graded(tab, free, others, lev)
  BY DEF Tree
<1>2. PageTable(v) = PT(tab, v) /\ tab \in Contents
  BY Walks DEF VTypeOK
<1>3. CASE tab' = tab
  BY <1>3 DEF OnePage
<1>4. CASE tab' # tab
  <2>1. PT(tab, v) # Unmapped /\ tab' = SetLeaf(tab, v, Unmapped)
    BY <1>2, <1>4 DEF UnmapPage, SetLeaf
  <2>2. Unmapped \in Phys \cup {Unmapped}
    OBVIOUS
  <2>3. \A w \in Virt : w # v => Leaf(tab', w) = Leaf(tab, w)
    BY <1>1, <1>2, <2>1, <2>2, SetLeafStep
  <2> QED
    BY <2>3 DEF OnePage
<1> QED
  BY <1>3, <1>4

LEMMA MapOnePage ==
  ASSUME VTypeOK, Tree, NEW v \in Virt, NEW p \in Phys, NEW F \in SUBSET free, MapPage(v, p, F)
  PROVE  OnePage
<1>1. OnlyPage(tab, tab', v)
  BY MapStep
<1> QED
  BY <1>1 DEF OnlyPage, OnePage

LEMMA NextOnePage == VInv /\ [Next]_vars => OnePage
<1> SUFFICES ASSUME VInv, [Next]_vars PROVE OnePage
  OBVIOUS
<1>1. VTypeOK /\ Tree /\ Starts \subseteq Virt /\ (\A p \in Device : p \in Phys)
  BY VirtAssumption, Basics DEF VInv
<1>2. AllocPage \in Phys /\ AfterAlloc \in SUBSET free
  BY <1>1, AllocFacts
<1>3. call # Idle => call.at \in Virt
  BY <1>1 DEF VTypeOK, CallRecord
<1>4. ASSUME tab' = tab PROVE OnePage
  <2>1. 0 \in Virt
    BY SizeType
  <2> QED
    BY <1>4, <2>1 DEF OnePage
<1>5. ASSUME NEW v \in Starts, NEW p \in Device, map_fixed(v, p) PROVE OnePage
  BY <1>1, <1>5, MapOnePage DEF map_fixed
<1>6. ASSUME NEW v \in Starts, map_address(v) PROVE OnePage
  BY <1>1, <1>2, <1>6, MapOnePage DEF map_address
<1>7. ASSUME NEW v \in Starts, unmap_address(v) \/ unmap_fixed(v) PROVE OnePage
  BY <1>1, <1>7, UnmapOnePage DEF unmap_address, unmap_fixed
<1>8. ASSUME boot_step PROVE OnePage
  <2>1. call.page \in Phys
    <3>1. BootLoop(call) /\ call.op = "boot"
      BY <1>8 DEF VInv, Loop, boot_step
    <3> QED
      BY <3>1 DEF BootLoop, Phys
  <2>2. MapPage(call.at, call.page, free) /\ call.at \in Virt
    BY <1>3, <1>8 DEF boot_step
  <2> QED
    BY <1>1, <2>1, <2>2, MapOnePage
<1>9. ASSUME range_step \/ range_fail PROVE OnePage
  <2>1. MapPage(call.at, AllocPage, AfterAlloc) /\ call.at \in Virt
    BY <1>3, <1>9 DEF range_step, range_fail
  <2> QED
    BY <1>1, <1>2, <2>1, MapOnePage
<1>10. ASSUME unmap_step PROVE OnePage
  BY <1>1, <1>3, <1>10, UnmapOnePage DEF unmap_step
<1>11. ASSUME UNCHANGED vars PROVE OnePage
  BY <1>4, <1>11 DEF vars
<1> QED
  BY <1>4, <1>5, <1>6, <1>7, <1>8, <1>9, <1>10, <1>11 DEF Next, create_system_vm, init,
     map_address_range, unmap_address_range, range_return, take, give

LEMMA InitFlat == Init => Flat!Init
<1> SUFFICES ASSUME Init PROVE Mapping = [v \in Virt |-> Unmapped]
  BY DEF Flat!Init
<1>1. \A j \in Word : tab[Root][j] = Unmapped
  BY Basics DEF Init, Empty, Word
<1>2. ASSUME NEW v \in Virt PROVE Translate(v) = Unmapped
  <2>1. Index(v, 4) \in Word
    BY IndexType, SizeType
  <2>2. Down(Root, v, 4) = Unmapped
    BY <1>1, <2>1 DEF Down
  <2> QED
    BY <2>2 DEF Translate, PageTable, Down
<1> QED
  BY <1>2 DEF Mapping

LEMMA NextFlat == VInv /\ VInv' /\ [Next]_vars => [Flat!Next]_Mapping
<1> SUFFICES ASSUME VInv, VInv', [Next]_vars PROVE Flat!Next
  OBVIOUS
<1>1. PICK v \in Virt : \A w \in Virt : w # v => Leaf(tab', w) = Leaf(tab, w)
  BY NextOnePage DEF OnePage
<1>2. \A w : Translate(w) = Leaf(tab, w) /\ Translate(w)' = Leaf(tab', w)
  BY Walks
<1>3. Mapping = [w \in Virt |-> Leaf(tab, w)] /\ Mapping' = [w \in Virt |-> Leaf(tab', w)]
  BY <1>2 DEF Mapping
<1>4. PICK lev : Graded(tab', free', others', lev)
  BY DEF VInv, Tree
<1>5. Leaf(tab', v) \in Phys \cup {Unmapped}
  BY <1>4, LeafType, SizeType
<1>6. Mapping' = [Mapping EXCEPT ![v] = Mapping'[v]]
  BY <1>1, <1>3
<1>7. Flat!Set(v)
  BY <1>3, <1>5, <1>6 DEF Flat!Set
<1> QED
  BY <1>7 DEF Flat!Next

\* The tables in memory implement a flat map from pages to pages: every round of
\* a loop, and every call on a page, changes the translation of one page at the
\* most, although pages share their tables.
THEOREM TablesImplementFlatMap == Spec /\ [](Runaway => Apart) => ImplementsFlatMap
<1>1. Init => Flat!Init
  BY InitFlat
<1>2. VInv /\ VInv' /\ [Next]_vars => [Flat!Next]_Mapping
  BY NextFlat
<1> QED
  BY <1>1, <1>2, TablesInvariant, PTL DEF Spec, ImplementsFlatMap, Flat!Spec
=============================================================================
