--------------------------- MODULE PhysMM_proofs ----------------------------
(***************************************************************************)
(* Proofs about the page allocator for every map size, every set of        *)
(* reserved pages and any number of clients.                               *)
(***************************************************************************)
EXTENDS PhysMM, FiniteSetTheorems, WellFoundedInduction, TLAPS

\* The number of the first page of a block.
First(b) == IF b.addr >= VMBase THEN b.addr - VMBase ELSE b.addr

\* Blocks start inside of the map, behind page 0, and only a relocated map
\* hands out addresses of the linear mapping.
BlocksPlaced ==
  \A c \in Holding :
    /\ First(held[c]) \in Pages \ {0}
    /\ held[c].addr >= VMBase => base = VMBase

\* The inductive invariant.
IInv ==
  /\ TypeOK
  /\ UsedCountExact
  /\ Accounting
  /\ BlocksDisjoint
  /\ AtMostOnePast
  /\ BlocksPlaced

-----------------------------------------------------------------------------
(* Numbers and finite sets *)

\* The bitmap describes a finite number of pages.
LEMMA PagesFinite ==
  /\ NPages \in Nat /\ NPages >= 64
  /\ IsFiniteSet(Pages)
  /\ Cardinality(Pages) = NPages
<1>1. NPages \in Nat /\ NPages >= 64
  BY MapAssumption DEF NPages
<1>2. QED
  BY <1>1, FS_Interval DEF Pages

\* Every set of pages is finite and no larger than the map.
LEMMA PageSetFinite ==
  ASSUME NEW S \in SUBSET Pages
  PROVE  IsFiniteSet(S) /\ Cardinality(S) \in 0 .. NPages
<1>1. IsFiniteSet(S) /\ Cardinality(S) <= NPages
  BY PagesFinite, FS_Subset
<1>2. QED
  BY <1>1, FS_CardinalityType, PagesFinite

\* The search returns a member of a non-empty set of candidates.
LEMMA LowestMember ==
  ASSUME NEW S \in SUBSET Nat, S # {}
  PROVE  Lowest(S) \in S /\ \A q \in S : Lowest(S) <= q
<1> DEFINE Less == {ss \in Nat \X Nat : ss[1] < ss[2]}
<1>1. IsWellFoundedOn(Less, Nat)
  BY NatLessThanWellFounded DEF OpToRel
<1> HIDE DEF Less
<1>2. \E p \in S : \A q \in S : ~(<<q, p>> \in Less)
  BY <1>1, WFMin
<1>3. \E p \in S : \A q \in S : ~(q < p)
  BY <1>2 DEF Less
<1>4. \E p \in S : \A q \in S : p <= q
  BY <1>3
<1>5. QED
  BY <1>4 DEF Lowest

\* The pages searched lie in the map.
LEMMA SearchableInMap == Searchable \subseteq Pages
BY MapAssumption DEF Searchable, Pages, NPages

\* What a successful search promises about the pages it found.
LEMMA SearchFound ==
  ASSUME TypeOK, NEW num \in Nat \ {0}, SearchFirstFree(num) # 0
  PROVE  LET p == SearchFirstFree(num) IN
         /\ p \in Pages \ {0}
         /\ p + num - 1 <= NPages
         /\ \A q \in p .. p + num - 1 :
              q \notin used /\ (q = NPages => ~pastEnd)
<1> DEFINE p == SearchFirstFree(num)
<1>1. Fits(num) \subseteq Searchable
  BY DEF Fits
<1>2. Fits(num) \in SUBSET Nat
  <2>1. Pages \subseteq Nat
    BY PagesFinite DEF Pages
  <2>2. QED
    BY <1>1, <2>1, SearchableInMap
<1>3. p \in Fits(num)
  BY <1>2, LowestMember DEF SearchFirstFree
<1>4. p \in Pages
  BY <1>1, <1>3, SearchableInMap
<1>5. \A n \in 0 .. num - 1 : ~PeekUsed(p + n)
  BY <1>3 DEF Fits
<1>6. p \in Nat
  BY <1>4 DEF Pages
<1>7. \A q \in p .. p + num - 1 : ~PeekUsed(q)
  <2>1. SUFFICES ASSUME NEW q \in p .. p + num - 1 PROVE ~PeekUsed(q)
    OBVIOUS
  <2>2. q - p \in 0 .. num - 1 /\ p + (q - p) = q
    BY <1>6
  <2>3. QED
    BY <1>5, <2>2
<1>8. p + num - 1 <= NPages
  BY <1>6, <1>7, PagesFinite DEF PeekUsed
<1>9. QED
  BY <1>4, <1>7, <1>8 DEF PeekUsed

\* _mark_used keeps the counter exact.
LEMMA MarkUsedCount ==
  ASSUME TypeOK, UsedCountExact, NEW p \in Nat, NEW len \in Nat,
         MarkUsedRange(p, len)
  PROVE  UsedCountExact' /\ used' \subseteq Pages /\ usedCount' \in 0 .. NPages
<1> DEFINE R == Run(p, len) \cap Pages
<1>1. used \in SUBSET Pages /\ R \in SUBSET Pages /\ used' = used \cup R
  BY DEF TypeOK, MarkUsedRange
<1>2. IsFiniteSet(used) /\ IsFiniteSet(R) /\ IsFiniteSet(R \ used)
  BY <1>1, PageSetFinite, FS_Difference
<1>3. used \cap (R \ used) = {} /\ used \cup (R \ used) = used \cup R
  OBVIOUS
<1>4. Cardinality(used \cup R)
        = Cardinality(used) + Cardinality(R \ used) - Cardinality({})
  BY <1>2, <1>3, FS_Union
<1>5. Cardinality(used \cup R) = Cardinality(used) + Cardinality(R \ used)
  BY <1>2, <1>4, FS_EmptySet, FS_CardinalityType
<1>6. Cardinality(used') = usedCount'
  BY <1>1, <1>5 DEF MarkUsedRange, UsedCountExact
<1>7. used' \in SUBSET Pages
  BY <1>1
<1>8. QED
  BY <1>6, <1>7, PageSetFinite DEF UsedCountExact

\* _mark_free keeps the counter exact.
LEMMA MarkFreeCount ==
  ASSUME TypeOK, UsedCountExact, NEW p \in Nat, NEW len \in Nat,
         MarkFreeRange(p, len)
  PROVE  UsedCountExact' /\ used' \subseteq Pages /\ usedCount' \in 0 .. NPages
<1> DEFINE R == Run(p, len) \cap Pages
<1>1. used \in SUBSET Pages /\ used' = used \ R /\ used' \in SUBSET Pages
  BY DEF TypeOK, MarkFreeRange
<1>2. IsFiniteSet(used)
  BY <1>1, PageSetFinite
<1>3. Cardinality(used \ R) = Cardinality(used) - Cardinality(used \cap R)
  BY <1>2, FS_Difference
<1>4. used \cap R = R \cap used
  OBVIOUS
<1>5. Cardinality(used') = usedCount'
  BY <1>1, <1>3, <1>4 DEF MarkFreeRange, UsedCountExact
<1>6. QED
  BY <1>1, <1>5, PageSetFinite DEF UsedCountExact

-----------------------------------------------------------------------------
(* Blocks *)

\* The free functions recover the page number of every block, also of one
\* that was handed out before the map moved.
LEMMA ToPageFirst ==
  ASSUME IInv, NEW c \in Holding
  PROVE  /\ ToPage(held[c].addr) = First(held[c])
         /\ First(held[c]) \in Pages \ {0}
         /\ held[c].count \in Nat \ {0}
         /\ held[c].count % WrapPages = held[c].count
         /\ First(held[c]) + held[c].count - 1 <= NPages
         /\ BlockPages(held[c]) = Run(First(held[c]), held[c].count)
<1>1. held[c] \in Block
  BY DEF Holding, IInv, TypeOK
<1>2. held[c].addr \in Nat /\ held[c].count \in 1 .. MaxRange + 1
  BY <1>1 DEF Block
<1>3. First(held[c]) \in Pages \ {0}
  BY DEF IInv, BlocksPlaced
<1>4. ToPage(held[c].addr) = First(held[c])
  BY <1>2, BaseAssumption, PagesFinite DEF IInv, BlocksPlaced, TypeOK, ToPage, First
<1>5. BlockPages(held[c]) = Run(First(held[c]), held[c].count)
  BY DEF BlockPages, Run, First
<1>6. First(held[c]) \in Nat /\ held[c].count \in Nat \ {0}
  BY <1>2, <1>3, RangeAssumption, PagesFinite DEF Pages
<1>7. First(held[c]) + held[c].count - 1 \in BlockPages(held[c])
  BY <1>5, <1>6 DEF Run
<1>8. First(held[c]) + held[c].count - 1 <= NPages
  <2>1. First(held[c]) + held[c].count - 1 \in HeldPages
    BY <1>7 DEF HeldPages
  <2>2. QED
    BY <1>6, <2>1, PagesFinite DEF IInv, AtMostOnePast
<1>9. held[c].count % WrapPages = held[c].count
  BY <1>2, RangeAssumption
<1>10. QED
  BY <1>3, <1>4, <1>5, <1>6, <1>8, <1>9

\* Neither bounds test of the free functions gets in the way of a held block:
\* free_page is not refused and free_page_range is not cut short.
LEMMA BoundsTestsPass ==
  ASSUME NEW p \in Pages, NEW k \in Nat \ {0}, p + k - 1 <= NPages,
         k % WrapPages = k
  PROVE  ~(WordPlusBit(p) > NPages) /\ Trim(p, k) = k
<1>1. p \in Nat /\ p < NPages
  BY PagesFinite DEF Pages
<1>2. ~(WordPlusBit(p) > NPages)
  BY <1>1, PagesFinite DEF WordPlusBit
<1>3. WordPlusBit(p + (k % WrapPages)) < NPages
  BY <1>1, PagesFinite DEF WordPlusBit
<1> DEFINE ok == {j \in 1 .. k : WordPlusBit(p + (j % WrapPages)) < NPages}
<1>4. k \in ok /\ \A j \in ok : j <= k
  BY <1>3
<1>5. \A j \in ok : (\A i \in ok : i <= j) => j = k
  BY <1>4
<1>6. (CHOOSE j \in ok : \A i \in ok : i <= j) = k
  BY <1>4, <1>5
<1>7. Trim(p, k) = k
  BY <1>4, <1>6 DEF Trim
<1>8. QED
  BY <1>2, <1>7

\* free_page_range never frees more pages than it was asked to.
LEMMA TrimRange ==
  ASSUME NEW p \in Nat, NEW k \in Nat
  PROVE  Trim(p, k) = 0 \/ Trim(p, k) \in 1 .. k
<1> DEFINE ok == {j \in 1 .. k : WordPlusBit(p + (j % WrapPages)) < NPages}
           top == {k - j : j \in ok}
<1>1. CASE ok = {}
  BY <1>1 DEF Trim
<1>2. CASE ok # {}
  <2>1. top \in SUBSET Nat /\ top # {}
    BY <1>2
  <2>2. Lowest(top) \in top /\ \A q \in top : Lowest(top) <= q
    BY <2>1, LowestMember
  <2>3. PICK j \in ok : Lowest(top) = k - j
    BY <2>2
  <2>4. \A i \in ok : i <= j
    <3>1. TAKE i \in ok
    <3>2. k - i \in top
      OBVIOUS
    <3>3. k - j <= k - i
      BY <2>2, <2>3, <3>2
    <3>4. i \in Nat /\ j \in Nat
      OBVIOUS
    <3>5. QED
      BY <3>3, <3>4
  <2>5. (CHOOSE i \in ok : \A h \in ok : h <= i) \in ok
    BY <2>4
  <2>6. QED
    BY <1>2, <2>5 DEF Trim
<1>3. QED
  BY <1>1, <1>2

\* A stray free leaves the bitmap and its counter alone.
LEMMA StrayHarmless ==
  ASSUME TypeOK, NEW p \in Stray, NEW k \in Nat,
         FreePage(p + base) \/ FreePages(p + base, k)
  PROVE  /\ used' = used /\ usedCount' = usedCount
         /\ slabFlag' \subseteq Pages
         /\ link' \in [Pages -> {"null", "self"} \cup Clients]
         /\ overrun' \in BOOLEAN
<1>1. p \in Nat /\ (p = 0 \/ p >= NPages)
  BY PagesFinite, BaseAssumption DEF Stray
<1>2. ToPage(p + base) = p
  BY <1>1, BaseAssumption, PagesFinite DEF ToPage, TypeOK
<1>3. ASSUME NEW len \in Nat, p # 0, MarkFreeRange(p, len)
      PROVE  used' = used /\ usedCount' = usedCount
  <2>1. Run(p, len) \cap Pages = {}
    BY <1>1, <1>3, PagesFinite DEF Run, Pages
  <2>2. used' = used /\ usedCount' = usedCount - Cardinality({} \cap used)
    BY <1>3, <2>1 DEF MarkFreeRange
  <2>3. {} \cap used = {}
    OBVIOUS
  <2>4. QED
    BY <2>2, <2>3, FS_EmptySet, PagesFinite DEF TypeOK
<1>4. ASSUME NEW len \in Nat, FreePageRange(p, len)
      PROVE  /\ slabFlag' \subseteq Pages
             /\ link' \in [Pages -> {"null", "self"} \cup Clients]
             /\ overrun' \in BOOLEAN
  BY <1>4 DEF FreePageRange, TypeOK
<1>5. CASE FreePage(p + base)
  BY <1>2, <1>3, <1>4, <1>5 DEF FreePage, TypeOK
<1>6. CASE FreePages(p + base, k)
  <2> DEFINE n == Trim(p, IF k < 1 THEN 1 ELSE k)
  <2>1. n = 0 \/ n \in 1 .. (IF k < 1 THEN 1 ELSE k)
    BY <1>1, TrimRange
  <2>2. n % WrapPages \in Nat
    BY <2>1, RangeAssumption
  <2>3. QED
    BY <1>2, <1>3, <1>4, <1>6, <2>2 DEF FreePages, TypeOK
<1>7. QED
  BY <1>5, <1>6

-----------------------------------------------------------------------------
(* Giving blocks to clients and taking them back *)

\* Grant adds one block to the pages the clients hold and takes none away.
LEMMA HeldGrant ==
  ASSUME TypeOK, NEW c \in Clients, held[c] = NoBlock,
         NEW b \in Block, held' = [held EXCEPT ![c] = b]
  PROVE  /\ Holding' = Holding \cup {c} /\ c \notin Holding
         /\ held'[c] = b /\ \A d \in Holding : held'[d] = held[d]
         /\ HeldPages' = HeldPages \cup BlockPages(b)
         /\ held' \in [Clients -> Block \cup {NoBlock}]
<1>1. b # NoBlock
  BY NoBlockAssumption, RangeAssumption DEF Block
<1>2. held \in [Clients -> Block \cup {NoBlock}]
  BY DEF TypeOK
<1>3. Holding' = Holding \cup {c} /\ c \notin Holding
  BY <1>1, <1>2 DEF Holding
<1>4. held'[c] = b /\ \A d \in Holding : held'[d] = held[d]
  BY <1>2, <1>3 DEF Holding
<1>5. HeldPages' = HeldPages \cup BlockPages(b)
  BY <1>3, <1>4 DEF HeldPages, BlockPages
<1>6. QED
  BY <1>2, <1>3, <1>4, <1>5

\* A client that gives its block back leaves the blocks of the others alone.
LEMMA HeldDrop ==
  ASSUME TypeOK, BlocksDisjoint, NEW c \in Holding,
         held' = [held EXCEPT ![c] = NoBlock]
  PROVE  /\ Holding' = Holding \ {c}
         /\ \A d \in Holding' : held'[d] = held[d]
         /\ HeldPages' = HeldPages \ BlockPages(held[c])
         /\ held' \in [Clients -> Block \cup {NoBlock}]
<1>1. held \in [Clients -> Block \cup {NoBlock}]
  BY DEF TypeOK
<1>2. Holding' = Holding \ {c} /\ \A d \in Holding' : held'[d] = held[d]
  BY <1>1 DEF Holding
<1>3. HeldPages' = UNION {BlockPages(held[d]) : d \in Holding \ {c}}
  BY <1>2 DEF HeldPages, BlockPages
<1>4. \A d \in Holding \ {c} : BlockPages(held[d]) \cap BlockPages(held[c]) = {}
  BY DEF BlocksDisjoint
<1>5. HeldPages' = HeldPages \ BlockPages(held[c])
  BY <1>3, <1>4 DEF HeldPages
<1>6. QED
  BY <1>1, <1>2, <1>5

\* A successful allocation preserves the invariant.
LEMMA AllocStep ==
  ASSUME IInv, NEW c \in Clients, held[c] = NoBlock,
         NEW num \in 1 .. MaxRange + 1, NEW slab \in BOOLEAN, NEW p,
         p = SearchFirstFree(num), p # 0,
         MarkUsedRange(p, num), FlagPageRange(p, slab, num),
         Grant(c, p, num, slab), UNCHANGED <<base, pastEnd>>
  PROVE  IInv'
<1> DEFINE b == [addr |-> p + base, count |-> num, slab |-> slab, tagged |-> FALSE]
           B == p .. p + num - 1
<1>1. num \in Nat \ {0}
  BY RangeAssumption
<1>2. /\ p \in Pages \ {0} /\ p \in Nat /\ p + num - 1 <= NPages
      /\ \A q \in B : q \notin used /\ (q = NPages => ~pastEnd)
  BY <1>1, SearchFound, PagesFinite DEF IInv, Pages
<1>3. p < VMBase /\ base \in {0, VMBase} /\ VMBase \in Nat /\ VMBase > NPages
  BY <1>2, BaseAssumption, PagesFinite DEF IInv, TypeOK, Pages
<1>4. b \in Block
  BY <1>2, <1>3 DEF Block
<1>5. First(b) = p /\ (b.addr >= VMBase => base = VMBase)
  BY <1>2, <1>3 DEF First
<1>6. BlockPages(b) = B
  BY <1>5 DEF BlockPages, First
<1>7. /\ Holding' = Holding \cup {c} /\ c \notin Holding
      /\ held'[c] = b /\ \A d \in Holding : held'[d] = held[d]
      /\ HeldPages' = HeldPages \cup B
      /\ held' \in [Clients -> Block \cup {NoBlock}]
  BY <1>4, <1>6, HeldGrant DEF IInv, Grant
<1> HIDE DEF b
<1>8. B \cap Reserved = {} /\ B \cap HeldPages \cap Pages = {}
  BY <1>2 DEF IInv, Accounting
<1>9. \A d \in Holding : BlockPages(held[d]) \cap B = {}
  <2>1. SUFFICES ASSUME NEW d \in Holding, NEW q \in BlockPages(held[d]), q \in B
                 PROVE  FALSE
    OBVIOUS
  <2>2. BlockPages(held[d]) \subseteq HeldPages
    BY DEF HeldPages
  <2>3. q = NPages
    BY <1>2, <1>8, <2>1, <2>2, PagesFinite DEF Pages
  <2>4. First(held[d]) \in Pages \ {0} /\ held[d].count \in Nat \ {0}
        /\ BlockPages(held[d]) = Run(First(held[d]), held[d].count)
    BY ToPageFirst
  <2>5. NPages - 1 \in BlockPages(held[d])
    BY <2>1, <2>3, <2>4, PagesFinite DEF Run, Pages
  <2>6. NPages - 1 \in B /\ NPages - 1 \in Pages
    BY <1>2, <2>1, <2>3, PagesFinite DEF Pages
  <2>7. QED
    BY <1>8, <2>2, <2>5, <2>6
<1>10. TypeOK' /\ UsedCountExact'
  <2>1. UsedCountExact' /\ used' \subseteq Pages /\ usedCount' \in 0 .. NPages
    BY <1>1, <1>2, MarkUsedCount DEF IInv
  <2>2. /\ slabFlag' \subseteq Pages /\ overrun' \in BOOLEAN
        /\ link' \in [Pages -> {"null", "self"} \cup Clients]
    BY DEF IInv, TypeOK, FlagPageRange
  <2>3. QED
    BY <1>7, <2>1, <2>2 DEF IInv, TypeOK
<1>11. Accounting'
  <2>1. used' = used \cup (B \cap Pages)
    BY DEF MarkUsedRange, Run
  <2>2. QED
    BY <1>7, <1>8, <2>1 DEF IInv, Accounting
<1>12. BlocksDisjoint'
  <2>1. BlockPages(held'[c]) = B
    BY <1>6, <1>7
  <2>2. \A d \in Holding : BlockPages(held'[d]) = BlockPages(held[d])
    BY <1>7
  <2> HIDE DEF B
  <2>3. SUFFICES ASSUME NEW d \in Holding', NEW e \in Holding', d # e
                 PROVE  BlockPages(held'[d]) \cap BlockPages(held'[e]) = {}
    BY DEF BlocksDisjoint, BlockPages
  <2>4. CASE d = c
    BY <1>7, <1>9, <2>1, <2>2, <2>3, <2>4
  <2>5. CASE e = c
    BY <1>7, <1>9, <2>1, <2>2, <2>3, <2>5
  <2>6. CASE d # c /\ e # c
    BY <1>7, <2>2, <2>3, <2>6 DEF IInv, BlocksDisjoint
  <2>7. QED
    BY <2>4, <2>5, <2>6
<1>13. AtMostOnePast'
  BY <1>2, <1>7, PagesFinite DEF IInv, AtMostOnePast
<1>14. BlocksPlaced'
  BY <1>2, <1>5, <1>7 DEF IInv, BlocksPlaced, First
<1>15. QED
  BY <1>10, <1>11, <1>12, <1>13, <1>14 DEF IInv

\* Freeing a held block preserves the invariant.
LEMMA FreeStep ==
  ASSUME IInv, NEW c \in Holding,
         MarkFreeRange(First(held[c]), held[c].count),
         FreePageRange(First(held[c]), held[c].count),
         held' = [held EXCEPT ![c] = NoBlock], UNCHANGED <<base, pastEnd>>
  PROVE  IInv'
<1>1. /\ First(held[c]) \in Nat /\ held[c].count \in Nat
      /\ BlockPages(held[c]) = Run(First(held[c]), held[c].count)
  BY ToPageFirst, PagesFinite DEF Pages
<1>2. /\ Holding' = Holding \ {c}
      /\ \A d \in Holding' : held'[d] = held[d]
      /\ HeldPages' = HeldPages \ BlockPages(held[c])
      /\ held' \in [Clients -> Block \cup {NoBlock}]
  BY HeldDrop DEF IInv
<1>3. TypeOK' /\ UsedCountExact'
  <2>1. UsedCountExact' /\ used' \subseteq Pages /\ usedCount' \in 0 .. NPages
    BY <1>1, MarkFreeCount DEF IInv
  <2>2. /\ slabFlag' \subseteq Pages /\ overrun' \in BOOLEAN
        /\ link' \in [Pages -> {"null", "self"} \cup Clients]
    BY DEF IInv, TypeOK, FreePageRange
  <2>3. QED
    BY <1>2, <2>1, <2>2 DEF IInv, TypeOK
<1>4. Accounting'
  <2>1. used' = used \ (BlockPages(held[c]) \cap Pages)
    BY <1>1 DEF MarkFreeRange
  <2>2. BlockPages(held[c]) \subseteq HeldPages
    BY DEF HeldPages
  <2>3. QED
    BY <1>2, <2>1, <2>2 DEF IInv, Accounting
<1>5. BlocksDisjoint'
  BY <1>2 DEF IInv, BlocksDisjoint, BlockPages
<1>6. AtMostOnePast'
  BY <1>2 DEF IInv, AtMostOnePast
<1>7. BlocksPlaced'
  BY <1>2 DEF IInv, BlocksPlaced, First
<1>8. QED
  BY <1>3, <1>4, <1>5, <1>6, <1>7 DEF IInv

-----------------------------------------------------------------------------
(* The invariant *)

\* The state init() leaves behind satisfies the invariant.
LEMMA InitIInv == Init => IInv
<1> SUFFICES ASSUME Init PROVE IInv
  OBVIOUS
<1>1. Holding = {} /\ HeldPages = {}
  BY DEF Init, Holding, HeldPages
<1>2. Reserved \in SUBSET Pages
  BY ReservedAssumption
<1>3. TypeOK /\ UsedCountExact
  BY <1>2, PageSetFinite, PagesFinite DEF Init, TypeOK, UsedCountExact
<1>4. Accounting /\ BlocksDisjoint /\ AtMostOnePast /\ BlocksPlaced
  BY <1>1 DEF Init, Accounting, BlocksDisjoint, AtMostOnePast, BlocksPlaced
<1>5. QED
  BY <1>3, <1>4 DEF IInv

\* Steps that leave the bitmap and the blocks alone preserve the invariant.
LEMMA FrameStep ==
  ASSUME IInv, UNCHANGED <<used, usedCount, pastEnd, held>>,
         base' \in {0, VMBase}, base = VMBase => base' = VMBase,
         slabFlag' \subseteq Pages, overrun' \in BOOLEAN,
         link' \in [Pages -> {"null", "self"} \cup Clients]
  PROVE  IInv'
<1>1. Holding' = Holding /\ HeldPages' = HeldPages
  BY DEF Holding, HeldPages, BlockPages
<1>2. TypeOK' /\ UsedCountExact'
  BY DEF IInv, TypeOK, UsedCountExact
<1>3. Accounting' /\ AtMostOnePast'
  BY <1>1 DEF IInv, Accounting, AtMostOnePast
<1>4. BlocksDisjoint'
  BY <1>1 DEF IInv, BlocksDisjoint, BlockPages
<1>5. BlocksPlaced'
  BY <1>1 DEF IInv, BlocksPlaced, First
<1>6. QED
  BY <1>2, <1>3, <1>4, <1>5 DEF IInv

\* Tagging a block's page changes the metadata only.
LEMMA TagStep ==
  ASSUME IInv, NEW c \in Clients, tag_pages(c)
  PROVE  IInv'
<1> DEFINE b == [held[c] EXCEPT !.tagged = TRUE]
<1>1. c \in Holding /\ held[c] \in Block /\ held' = [held EXCEPT ![c] = b]
  BY DEF tag_pages, Holding, IInv, TypeOK
<1>2. b \in Block /\ b.addr = held[c].addr /\ b.count = held[c].count /\ b # NoBlock
  <2>1. b \in Block
    BY <1>1 DEF Block
  <2>2. b.addr = held[c].addr /\ b.count = held[c].count
    BY <1>1 DEF Block
  <2>3. Block \subseteq [addr : Nat, count : Nat, slab : BOOLEAN, tagged : BOOLEAN]
    BY RangeAssumption DEF Block
  <2>4. QED
    BY <2>1, <2>2, <2>3, NoBlockAssumption
<1> HIDE DEF b
<1>3. Holding' = Holding /\ held'[c] = b /\ \A d \in Clients \ {c} : held'[d] = held[d]
  BY <1>1, <1>2 DEF IInv, TypeOK, Holding
<1>4. \A d \in Holding :
         /\ BlockPages(held'[d]) = BlockPages(held[d])
         /\ First(held'[d]) = First(held[d])
         /\ held'[d].addr = held[d].addr
  BY <1>2, <1>3 DEF BlockPages, First, Holding
<1>5. HeldPages' = HeldPages
  BY <1>3, <1>4 DEF HeldPages, BlockPages
<1>6. TypeOK' /\ UsedCountExact'
  <2>1. held' \in [Clients -> Block \cup {NoBlock}]
    BY <1>1, <1>2 DEF IInv, TypeOK
  <2>2. link' \in [Pages -> {"null", "self"} \cup Clients]
    BY DEF tag_pages, IInv, TypeOK
  <2>3. QED
    BY <2>1, <2>2 DEF tag_pages, IInv, TypeOK, UsedCountExact
<1>7. Accounting' /\ AtMostOnePast'
  BY <1>5 DEF tag_pages, IInv, Accounting, AtMostOnePast
<1>8. BlocksDisjoint'
  <2>1. SUFFICES ASSUME NEW d \in Holding, NEW e \in Holding, d # e
                 PROVE  BlockPages(held'[d]) \cap BlockPages(held'[e]) = {}
    BY <1>3 DEF BlocksDisjoint, BlockPages
  <2>2. QED
    BY <1>4, <2>1 DEF IInv, BlocksDisjoint
<1>9. BlocksPlaced'
  BY <1>3, <1>4 DEF tag_pages, IInv, BlocksPlaced, First
<1>10. QED
  BY <1>6, <1>7, <1>8, <1>9 DEF IInv

\* Every operation of physmm.cc preserves the invariant.
LEMMA NextIInv == IInv /\ [Next]_vars => IInv'
<1> SUFFICES ASSUME IInv, [Next]_vars PROVE IInv'
  OBVIOUS
<1> USE DEF IInv
<1>0. CASE UNCHANGED vars
  BY <1>0, FrameStep DEF vars, TypeOK
<1>1. ASSUME NEW c \in Clients, NEW slab \in BOOLEAN, alloc_page(c, slab)
      PROVE  IInv'
  <2>1. CASE UNCHANGED vars
    BY <1>0, <2>1
  <2>2. CASE ~UNCHANGED vars
    BY <1>1, <2>2, AllocStep, RangeAssumption DEF alloc_page
  <2>3. QED
    BY <2>1, <2>2
<1>2. ASSUME NEW c \in Clients, NEW slab \in BOOLEAN,
             NEW count \in 2 .. MaxRange, alloc_page_range(c, count, slab)
      PROVE  IInv'
  <2>1. CASE UNCHANGED vars
    BY <1>0, <2>1
  <2>2. count % WrapPages = count /\ count \in 1 .. MaxRange + 1
    BY RangeAssumption
  <2>3. CASE ~UNCHANGED vars
    BY <1>2, <2>2, <2>3, AllocStep DEF alloc_page_range
  <2>4. QED
    BY <2>1, <2>3
<1>3. ASSUME NEW c \in Clients, tag_pages(c) PROVE IInv'
  BY <1>3, TagStep
<1>4. ASSUME NEW c \in Clients, free_page(c) PROVE IInv'
  <2>1. c \in Holding /\ held[c].count = 1
    BY <1>4 DEF free_page, Holding
  <2>2. /\ ToPage(held[c].addr) = First(held[c])
        /\ First(held[c]) # 0 /\ ~(WordPlusBit(First(held[c])) > NPages)
    BY <2>1, ToPageFirst, BoundsTestsPass
  <2>3. /\ MarkFreeRange(First(held[c]), held[c].count)
        /\ FreePageRange(First(held[c]), held[c].count)
    BY <1>4, <2>1, <2>2 DEF free_page, FreePage
  <2>4. QED
    BY <1>4, <2>1, <2>3, FreeStep DEF free_page
<1>5. ASSUME NEW c \in Clients, free_page_range(c) PROVE IInv'
  <2>1. c \in Holding
    BY <1>5 DEF free_page_range, Holding
  <2> DEFINE k == held[c].count
  <2>2. /\ ToPage(held[c].addr) = First(held[c]) /\ First(held[c]) # 0
        /\ k \in Nat \ {0} /\ k % WrapPages = k
        /\ Trim(First(held[c]), k) = k
    BY <2>1, ToPageFirst, BoundsTestsPass
  <2>3. ~(k < 1) /\ k # 0
    BY <2>2
  <2>4. /\ MarkFreeRange(First(held[c]), k)
        /\ FreePageRange(First(held[c]), k)
    BY <1>5, <2>2, <2>3 DEF free_page_range, FreePages
  <2>5. QED
    BY <1>5, <2>1, <2>4, FreeStep DEF free_page_range
<1>6. ASSUME NEW p \in Stray, free_stray(p) PROVE IInv'
  BY <1>6, StrayHarmless, FrameStep DEF free_stray, TypeOK
<1>7. ASSUME NEW p \in Stray, NEW count \in 0 .. MaxRange, free_stray_range(p, count)
      PROVE  IInv'
  BY <1>7, StrayHarmless, FrameStep, RangeAssumption DEF free_stray_range, TypeOK
<1>8. CASE set_physical_base_offset
  BY <1>8, FrameStep, BaseAssumption DEF set_physical_base_offset, TypeOK
<1>9. QED
  BY <1>0, <1>1, <1>2, <1>3, <1>4, <1>5, <1>6, <1>7, <1>8 DEF Next

\* The allocator's books are right in every reachable state: types, the
\* counter behind free_page_count(), and the bitmap against the blocks held.
THEOREM PhysMMInvariant == Spec => []IInv
<1>1. Init => IInv
  BY InitIInv
<1>2. IInv /\ [Next]_vars => IInv'
  BY NextIInv
<1>3. QED
  BY <1>1, <1>2, PTL DEF Spec

\* _memory_map_used stays within 0..NPages and every variable in its type.
THEOREM PhysMMTypes == Spec => []TypeOK
<1>1. IInv => TypeOK
  BY DEF IInv
<1>2. QED
  BY <1>1, PhysMMInvariant, PTL

\* free_page_count() is exact for every map and every history.
THEOREM PhysMMCount == Spec => []UsedCountExact
<1>1. IInv => UsedCountExact
  BY DEF IInv
<1>2. QED
  BY <1>1, PhysMMInvariant, PTL

\* No page leaks and none is freed under its holder.
THEOREM PhysMMAccounting == Spec => []Accounting
<1>1. IInv => Accounting
  BY DEF IInv
<1>2. QED
  BY <1>1, PhysMMInvariant, PTL

\* No page is handed to two clients.
THEOREM PhysMMDisjoint == Spec => []BlocksDisjoint
<1>1. IInv => BlocksDisjoint
  BY DEF IInv
<1>2. QED
  BY <1>1, PhysMMInvariant, PTL

\* A block ends at most one page behind the map.
THEOREM PhysMMReach == Spec => []AtMostOnePast
<1>1. IInv => AtMostOnePast
  BY DEF IInv
<1>2. QED
  BY <1>1, PhysMMInvariant, PTL

\* alloc_page fails only when the words it searches are full.
THEOREM PhysMMNoSpuriousFailure == Spec => []NoSpuriousFailure
<1>1. IInv => NoSpuriousFailure
  <2>1. SUFFICES ASSUME IInv, SearchFirstFree(1) = 0 PROVE Searchable \subseteq used
    BY DEF NoSpuriousFailure
  <2>2. 0 \in used
    BY <2>1, ReservedAssumption DEF IInv, Accounting
  <2>3. Searchable \subseteq Pages /\ Pages \subseteq Nat
    BY SearchableInMap, PagesFinite DEF Pages
  <2>4. \A p \in Searchable : p \in Fits(1) <=> p \notin used
    BY <2>3, PagesFinite DEF Fits, PeekUsed, Pages
  <2>5. Fits(1) \in SUBSET Nat
    BY <2>3 DEF Fits
  <2>6. CASE Fits(1) = {}
    BY <2>4, <2>6
  <2>7. CASE Fits(1) # {}
    <3>1. 0 \in Fits(1)
      BY <2>1, <2>5, <2>7, LowestMember DEF SearchFirstFree
    <3>2. 0 \in Searchable
      BY <3>1 DEF Fits
    <3>3. QED
      BY <2>2, <2>4, <3>1, <3>2
  <2>8. QED
    BY <2>6, <2>7
<1>2. QED
  BY <1>1, PhysMMInvariant, PTL
=============================================================================
