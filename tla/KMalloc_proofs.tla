--------------------------- MODULE KMalloc_proofs ---------------------------
(***************************************************************************)
(* Proofs about kmalloc, kfree and krealloc for every table of sizes, any  *)
(* number of objects in a cache and any sizes that callers ask for.        *)
(***************************************************************************)
EXTENDS KMalloc, FiniteSetTheorems, TLAPS

\* What is out is finite: it starts empty and grows by one block at a time.
KTypeOK ==
  /\ taken \subseteq Heap /\ IsFiniteSet(taken)
  /\ held \subseteq [at : Heap, size : Nat] /\ IsFiniteSet(held)
  /\ moved \in Nat

\* The inductive invariant.
KInv == KTypeOK /\ MovedBlocksLost /\ BlocksFit

-----------------------------------------------------------------------------
(* The choice of a cache *)

\* A non-empty set of numbers has a smallest one.
LEMMA MinMember ==
  ASSUME NEW S \in SUBSET Nat, S # {}
  PROVE  Min(S) \in S /\ \A x \in S : Min(S) <= x
<1> DEFINE Less == {ss \in Nat \X Nat : ss[1] < ss[2]}
<1>1. IsWellFoundedOn(Less, Nat)
  BY NatLessThanWellFounded DEF OpToRel
<1> HIDE DEF Less
<1>2. \E p \in S : \A q \in S : ~(<<q, p>> \in Less)
  BY <1>1, WFMin
<1>3. \E p \in S : \A q \in S : ~(q < p)
  BY <1>2 DEF Less
<1>4. \E p \in S : \A q \in S : p <= q
  BY <1>3
<1>5. QED
  BY <1>4 DEF Min

\* _lookup_cache_for_size never returns a cache whose objects are too small: an
\* object of the cache it found has room for what was asked for.
LEMMA FreshIsLargeEnough ==
  ASSUME NEW n \in Nat, NEW o \in Fresh(n)
  PROVE  o \in Heap /\ o \notin taken /\ o[1] \in Nat /\ n <= o[1]
<1> DEFINE Large == {s \in Sizes : n <= s}
<1>1. o \in Heap /\ o \notin taken /\ o[1] = lookup_cache_for_size(n)
  BY DEF Fresh
<1>2. o[1] \in Sizes
  BY <1>1 DEF Heap
<1>3. Sizes \in SUBSET Nat /\ o[1] # 0
  BY <1>2, KMallocAssumption
<1>4. ~(\A s \in Sizes : n > s) /\ o[1] = Min(Large)
  BY <1>1, <1>3 DEF lookup_cache_for_size
<1>5. Large \in SUBSET Nat /\ Large # {}
  <2>1. PICK s \in Sizes : ~(n > s)
    BY <1>4
  <2>2. s \in Nat /\ n <= s
    BY <1>3, <2>1
  <2>3. QED
    BY <1>3, <2>2
<1>6. o[1] \in Large
  BY <1>4, <1>5, MinMember
<1>7. QED
  BY <1>1, <1>3, <1>6

\* The length that krealloc copies stays inside of both objects and takes along
\* what the caller had, as far as the new size goes.
LEMMA CopyLengthFits ==
  ASSUME NEW b \in [at : Heap, size : Nat], b.size <= b.at[1],
         NEW n \in Nat, NEW o \in Heap, n <= o[1]
  PROVE  /\ CopyLength(b, n) <= b.at[1]
         /\ CopyLength(b, n) <= o[1]
         /\ CopyLength(b, n) >= Min({b.size, n})
<1>1. b.size \in Nat /\ b.at[1] \in Nat /\ o[1] \in Nat
  BY KMallocAssumption DEF Heap
<1>2. Min({b.size, n}) \in {b.size, n} /\ Min({b.size, n}) <= b.size /\ Min({b.size, n}) <= n
  <2>1. {b.size, n} \in SUBSET Nat /\ {b.size, n} # {}
    BY <1>1
  <2>2. QED
    BY <2>1, MinMember
<1>3. QED
  BY <1>1, <1>2 DEF CopyLength

-----------------------------------------------------------------------------
(* The steps *)

\* kmalloc hands out an object that nobody has.
LEMMA MallocStep ==
  ASSUME KInv, NEW n \in Nat, kmalloc(n)
  PROVE  KInv'
<1>1. PICK o \in Fresh(n) : /\ taken' = taken \cup {o}
                            /\ held' = held \cup {[at |-> o, size |-> n]}
  BY DEF kmalloc
<1> DEFINE c == [at |-> o, size |-> n]
<1>2. o \in Heap /\ o \notin taken /\ o[1] \in Nat /\ n <= o[1]
  BY <1>1, FreshIsLargeEnough
<1>3. copied' = copied /\ moved' = moved
  BY DEF kmalloc
<1>4. c \notin held
  BY <1>2 DEF KInv, MovedBlocksLost
<1>5. IsFiniteSet(taken') /\ Cardinality(taken') = Cardinality(taken) + 1
  BY <1>1, <1>2, FS_AddElement DEF KInv, KTypeOK
<1>6. IsFiniteSet(held') /\ Cardinality(held') = Cardinality(held) + 1
  BY <1>1, <1>4, FS_AddElement DEF KInv, KTypeOK
<1>7. KTypeOK'
  BY <1>1, <1>2, <1>3, <1>5, <1>6 DEF KInv, KTypeOK
<1>8. MovedBlocksLost'
  <2>1. Cardinality(taken') = Cardinality(held') + moved'
    <3>1. Cardinality(taken) \in Nat /\ Cardinality(held) \in Nat /\ moved \in Nat
      BY FS_CardinalityType DEF KInv, KTypeOK
    <3>2. Cardinality(taken) = Cardinality(held) + moved
      BY DEF KInv, MovedBlocksLost
    <3>3. QED
      BY <1>3, <1>5, <1>6, <3>1, <3>2
  <2>2. \A b \in held' : b.at \in taken'
    BY <1>1 DEF KInv, MovedBlocksLost
  <2>3. \A b, d \in held' : b.at = d.at => b = d
    BY <1>1, <1>2 DEF KInv, MovedBlocksLost
  <2>4. QED
    BY <2>1, <2>2, <2>3 DEF MovedBlocksLost
<1>9. BlocksFit'
  BY <1>1, <1>2, <1>3 DEF KInv, BlocksFit
<1>10. QED
  BY <1>7, <1>8, <1>9 DEF KInv

\* kfree takes back one object and one block.
LEMMA FreeStep ==
  ASSUME KInv, NEW b \in held, kfree(b)
  PROVE  KInv'
<1>1. /\ taken' = taken \ {b.at} /\ held' = held \ {b}
      /\ copied' = copied /\ moved' = moved
  BY DEF kfree
<1>2. b.at \in taken
  BY DEF KInv, MovedBlocksLost
<1>3. IsFiniteSet(taken') /\ Cardinality(taken') = Cardinality(taken) - 1
  BY <1>1, <1>2, FS_RemoveElement DEF KInv, KTypeOK
<1>4. IsFiniteSet(held') /\ Cardinality(held') = Cardinality(held) - 1
  BY <1>1, FS_RemoveElement DEF KInv, KTypeOK
<1>5. KTypeOK'
  BY <1>1, <1>3, <1>4 DEF KInv, KTypeOK
<1>6. MovedBlocksLost'
  <2>1. Cardinality(taken') = Cardinality(held') + moved'
    <3>1. Cardinality(taken) \in Nat /\ Cardinality(held) \in Nat /\ moved \in Nat
      BY FS_CardinalityType DEF KInv, KTypeOK
    <3>2. Cardinality(taken) = Cardinality(held) + moved
      BY DEF KInv, MovedBlocksLost
    <3>3. QED
      BY <1>1, <1>3, <1>4, <3>1, <3>2
  <2>2. \A d \in held' : d.at \in taken'
    BY <1>1 DEF KInv, MovedBlocksLost
  <2>3. \A d, e \in held' : d.at = e.at => d = e
    BY <1>1 DEF KInv, MovedBlocksLost
  <2>4. QED
    BY <2>1, <2>2, <2>3 DEF MovedBlocksLost
<1>7. BlocksFit'
  BY <1>1 DEF KInv, BlocksFit
<1>8. QED
  BY <1>5, <1>6, <1>7 DEF KInv

\* krealloc takes a new object, passes on the block and leaves the old object out.
LEMMA ReallocStep ==
  ASSUME KInv, NEW b \in held, NEW n \in Nat, krealloc(b, n)
  PROVE  KInv'
<1>1. PICK o \in Fresh(n) :
        /\ taken' = taken \cup {o}
        /\ held' = (held \ {b}) \cup {[at |-> o, size |-> n]}
        /\ copied' = [from |-> b, to |-> [at |-> o, size |-> n], length |-> CopyLength(b, n)]
  BY DEF krealloc
<1> DEFINE c == [at |-> o, size |-> n]
<1>2. o \in Heap /\ o \notin taken /\ o[1] \in Nat /\ n <= o[1]
  BY <1>1, FreshIsLargeEnough
<1>3. moved' = moved + 1
  BY DEF krealloc
<1>4. c \notin held
  BY <1>2 DEF KInv, MovedBlocksLost
<1>5. IsFiniteSet(taken') /\ Cardinality(taken') = Cardinality(taken) + 1
  BY <1>1, <1>2, FS_AddElement DEF KInv, KTypeOK
<1>6. IsFiniteSet(held') /\ Cardinality(held') = Cardinality(held)
  <2>1. IsFiniteSet(held) /\ Cardinality(held) \in Nat
    BY FS_CardinalityType DEF KInv, KTypeOK
  <2>2. IsFiniteSet(held \ {b}) /\ Cardinality(held \ {b}) = Cardinality(held) - 1
    BY <2>1, FS_RemoveElement
  <2>3. IsFiniteSet((held \ {b}) \cup {c}) /\ Cardinality((held \ {b}) \cup {c}) = Cardinality(held \ {b}) + 1
    BY <1>4, <2>2, FS_AddElement
  <2>4. QED
    BY <1>1, <2>1, <2>2, <2>3
<1>7. KTypeOK'
  BY <1>1, <1>2, <1>3, <1>5, <1>6 DEF KInv, KTypeOK
<1>8. MovedBlocksLost'
  <2>1. Cardinality(taken') = Cardinality(held') + moved'
    <3>1. Cardinality(taken) \in Nat /\ Cardinality(held) \in Nat /\ moved \in Nat
      BY FS_CardinalityType DEF KInv, KTypeOK
    <3>2. Cardinality(taken) = Cardinality(held) + moved
      BY DEF KInv, MovedBlocksLost
    <3>3. QED
      BY <1>3, <1>5, <1>6, <3>1, <3>2
  <2>2. \A d \in held' : d.at \in taken'
    BY <1>1 DEF KInv, MovedBlocksLost
  <2>3. \A d, e \in held' : d.at = e.at => d = e
    BY <1>1, <1>2 DEF KInv, MovedBlocksLost
  <2>4. QED
    BY <2>1, <2>2, <2>3 DEF MovedBlocksLost
<1>9. BlocksFit'
  <2>1. \A d \in held' : d.size <= d.at[1]
    BY <1>1, <1>2 DEF KInv, BlocksFit
  <2>2. b \in [at : Heap, size : Nat] /\ b.size <= b.at[1]
    BY DEF KInv, KTypeOK, BlocksFit
  <2>3. /\ CopyLength(b, n) <= b.at[1] /\ CopyLength(b, n) <= o[1]
        /\ CopyLength(b, n) >= Min({b.size, n})
    BY <1>2, <2>2, CopyLengthFits
  <2>4. /\ copied'.length = CopyLength(b, n)
        /\ copied'.from.at = b.at /\ copied'.from.size = b.size
        /\ copied'.to.at = o /\ copied'.to.size = n
    BY <1>1
  <2>5. QED
    BY <2>1, <2>3, <2>4 DEF BlocksFit
<1>10. QED
  BY <1>7, <1>8, <1>9 DEF KInv

\* Every step keeps the invariant.
LEMMA KInvNext == KInv /\ [KMallocNext]_kvars => KInv'
<1> SUFFICES ASSUME KInv, [KMallocNext]_kvars PROVE KInv'
  OBVIOUS
<1>1. Requests \subseteq Nat
  BY KMallocAssumption
<1>2. ASSUME UNCHANGED <<taken, held, copied, moved>> PROVE KInv'
  BY <1>2 DEF KInv, KTypeOK, MovedBlocksLost, BlocksFit
<1>3. CASE \E created \in SUBSET Sizes : kmalloc_init(created)
  BY <1>2, <1>3 DEF kmalloc_init
<1>4. CASE \E n \in Requests : kmalloc(n)
  BY <1>1, <1>4, MallocStep
<1>5. CASE \E n \in Requests : kmalloc_null(n) \/ kmalloc_fault(n)
  BY <1>2, <1>5 DEF kmalloc_null, kmalloc_fault, kvars
<1>6. CASE \E b \in held : kfree(b)
  BY <1>6, FreeStep
<1>7. CASE kfree_panics
  BY <1>2, <1>7 DEF kfree_panics
<1>8. CASE \E b \in held, n \in Requests : krealloc(b, n)
  BY <1>1, <1>8, ReallocStep
<1>9. CASE \E b \in held, n \in Requests : krealloc_same(b, n)
  BY <1>2, <1>9 DEF krealloc_same, kvars
<1>10. CASE UNCHANGED kvars
  BY <1>2, <1>10 DEF kvars
<1>11. QED
  BY <1>3, <1>4, <1>5, <1>6, <1>7, <1>8, <1>9, <1>10 DEF KMallocNext

\* Nothing is out at first.
LEMMA KInvInit == KMallocInit => KInv
<1> SUFFICES ASSUME KMallocInit PROVE KInv
  OBVIOUS
<1>1. taken = {} /\ held = {} /\ moved = 0 /\ copied.length = 0
  BY DEF KMallocInit
<1>2. IsFiniteSet({}) /\ Cardinality({}) = 0
  BY FS_EmptySet
<1>3. QED
  BY <1>1, <1>2 DEF KInv, KTypeOK, MovedBlocksLost, BlocksFit

-----------------------------------------------------------------------------
(* Theorems *)

\* krealloc loses one object for each block it moves, kmalloc and kfree lose
\* none and no object has two owners, however long the calls go on.
THEOREM LossIsExact == KMallocSpec => []MovedBlocksLost
<1>1. KInv => MovedBlocksLost
  BY DEF KInv
<1>2. QED
  BY KInvInit, KInvNext, <1>1, PTL DEF KMallocSpec

\* Every block is as large as its caller asked for, and krealloc's memcpy stays
\* inside of both objects and keeps the caller's data, for every size table.
THEOREM BlocksAlwaysFit == KMallocSpec => []BlocksFit
<1>1. KInv => BlocksFit
  BY DEF KInv
<1>2. QED
  BY KInvInit, KInvNext, <1>1, PTL DEF KMallocSpec
=============================================================================
