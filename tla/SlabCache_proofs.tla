-------------------------- MODULE SlabCache_proofs --------------------------
(***************************************************************************)
(* Proofs about the slab caches for any number of CPUs, caches, buffers    *)
(* in a slab and frames.                                                   *)
(***************************************************************************)
EXTENDS SlabCache, FiniteSetTheorems, WellFoundedInduction, TLAPS

Lists == [free : SUBSET Frames, used : SUBSET Frames, full : SUBSET Frames]

Members(L) == L.free \cup L.used \cup L.full

\* No slab is on two lists.
Apart(L) ==
  L.free \cap L.used = {} /\ L.free \cap L.full = {} /\ L.used \cap L.full = {}

\* Every slab is on the list it belongs to.
InOrder(L, B, R) ==
  /\ \A f \in L.free : R[f] = 0
  /\ \A f \in L.used : R[f] > 0 /\ B[f] # {}
  /\ \A f \in L.full : B[f] = {}

\* The buffers of frame f among the objects in S.
OutOf(S, f) == {i \in 1 .. MaxCap : <<f, i>> \in S}

\* A slab with n buffers, r of them out, has the others on its list.
Whole(n, B, r, O) == B \cup O = 1 .. n /\ B \cap O = {} /\ r = Cardinality(O)

\* The objects that somebody has.
Gone ==
  {o \in Objects :
     \/ \E u \in CPUs : o \in held[u]
     \/ \E f \in Frames : o \in hdr[f] \/ o \in ctls[f]
     \/ \E u \in CPUs : build[u] # NoBuild /\ (o \in build[u].hdr \/ o \in build[u].ctls)}

-----------------------------------------------------------------------------
(* The inductive invariant *)

TypeOK ==
  /\ lock \in [Caches -> CPUs \cup {Nobody}]
  /\ lists \in [Caches -> Lists]
  /\ bufs \in [Frames -> SUBSET Nat]
  /\ refs \in [Frames -> Nat]
  /\ hdr \in [Frames -> SUBSET Objects]
  /\ ctls \in [Frames -> SUBSET Objects]
  /\ avail \in SUBSET Frames
  /\ build \in [CPUs -> Builds \cup {NoBuild}]
  /\ held \in [CPUs -> SUBSET Objects]
  /\ state \in [CPUs -> {"running", "halted"}]

\* A CPU that builds a slab has its cache's lock, and the pool's inside of the pool.
LocksHeld ==
  \A u \in CPUs : build[u] # NoBuild =>
    /\ lock[build[u].cache] = u
    /\ build[u].inPool => lock[PoolOf(build[u])] = u

\* One slab structure, fetched before the bufctls; no bufctl for no buffer.
BuildShape ==
  \A u \in CPUs : build[u] # NoBuild =>
    /\ build[u].hdr = {} \/ \E o \in Objects : build[u].hdr = {o}
    /\ IsFiniteSet(build[u].ctls)
    /\ build[u].ctls # {} => build[u].hdr # {} /\ Cap[build[u].cache] # 0

\* A frame is physmm's, or it is on the lists of one cache, or one CPU builds a
\* slab in it.
Placed ==
  /\ \A c, d \in Caches : c # d => SlabsOf(c) \cap SlabsOf(d) = {}
  /\ \A c \in Caches : avail \cap SlabsOf(c) = {}
  /\ \A u \in CPUs : build[u] # NoBuild =>
       /\ build[u].frame \notin avail
       /\ \A c \in Caches : build[u].frame \notin SlabsOf(c)
  /\ \A u, v \in CPUs :
       build[u] # NoBuild /\ build[v] # NoBuild /\ build[u].frame = build[v].frame => u = v
  /\ \A f \in Frames :
       \/ f \in avail
       \/ \E c \in Caches : f \in SlabsOf(c)
       \/ \E u \in CPUs : build[u] # NoBuild /\ build[u].frame = f

\* Also while the lock is taken.
AllSorted == \A c \in Caches : Apart(lists[c]) /\ InOrder(lists[c], bufs, refs)

\* An external slab has its structures, any other frame has none.
Structures ==
  /\ \A c \in External : \A f \in SlabsOf(c) :
       Cardinality(hdr[f]) = 1 /\ Cardinality(ctls[f]) = Cap[c]
  /\ \A f \in Frames : (\A c \in External : f \notin SlabsOf(c)) => hdr[f] = {} /\ ctls[f] = {}

\* Every object that is out is a buffer of a slab of the right cache ...
FromSlabs ==
  /\ \A u \in CPUs : \A o \in held[u] : \E c \in Compact \cup External : o[1] \in SlabsOf(c)
  /\ \A f \in Frames : /\ \A o \in hdr[f] : o[1] \in SlabsOf(SlabPool)
                       /\ \A o \in ctls[f] : o[1] \in SlabsOf(BufctlPool)
  /\ \A u \in CPUs : build[u] # NoBuild =>
       /\ \A o \in build[u].hdr : o[1] \in SlabsOf(SlabPool)
       /\ \A o \in build[u].ctls : o[1] \in SlabsOf(BufctlPool)

\* ... and has one owner.
OneOwner ==
  /\ \A u, v \in CPUs : u # v => held[u] \cap held[v] = {}
  /\ \A f, g \in Frames : f # g => hdr[f] \cap hdr[g] = {} /\ ctls[f] \cap ctls[g] = {}
  /\ \A u, v \in CPUs : u # v /\ build[u] # NoBuild /\ build[v] # NoBuild =>
       build[u].hdr \cap build[v].hdr = {} /\ build[u].ctls \cap build[v].ctls = {}
  /\ \A f \in Frames, u \in CPUs : build[u] # NoBuild =>
       hdr[f] \cap build[u].hdr = {} /\ ctls[f] \cap build[u].ctls = {}

Exact(S) ==
  \A c \in Caches : \A f \in SlabsOf(c) : Whole(Cap[c], bufs[f], refs[f], OutOf(S, f))

\* The inductive invariant.
IInv ==
  /\ TypeOK /\ LocksHeld /\ BuildShape /\ Placed /\ AllSorted
  /\ Structures /\ FromSlabs /\ OneOwner /\ Exact(Gone)

-----------------------------------------------------------------------------
(* Numbers *)

\* A finite, non-empty set of numbers has a largest one.
LEMMA FiniteHasMax ==
  ASSUME NEW S \in SUBSET Nat, IsFiniteSet(S), S # {}
  PROVE  \E n \in S : \A m \in S : m <= n
<1> DEFINE Sub == StrictSubsetOrdering(S)
           Bad == {T \in FiniteSubsetsOf(S) : T # {} /\ ~(\E n \in T : \A m \in T : m <= n)}
<1>1. SUFFICES ASSUME Bad # {} PROVE FALSE
  <2>1. S \in FiniteSubsetsOf(S)
    BY DEF FiniteSubsetsOf
  <2>2. QED
    BY <2>1
<1>2. IsWellFoundedOn(Sub, FiniteSubsetsOf(S))
  BY FS_StrictSubsetOrderingWellFounded
<1>3. PICK T \in Bad : \A U \in Bad : ~(<<U, T>> \in Sub)
  <2>1. Bad \subseteq FiniteSubsetsOf(S)
    OBVIOUS
  <2> HIDE DEF Bad, Sub
  <2>2. QED
    BY <1>1, <1>2, <2>1, WFMin
<1>4. T \in SUBSET S /\ IsFiniteSet(T) /\ T # {} /\ ~(\E n \in T : \A m \in T : m <= n)
  BY DEF FiniteSubsetsOf
<1>5. PICK x \in T : TRUE
  BY <1>4
<1>6. T \ {x} \in FiniteSubsetsOf(S)
  BY <1>4, FS_RemoveElement DEF FiniteSubsetsOf
<1>7. <<T \ {x}, T>> \in Sub
  BY <1>4, <1>5 DEF StrictSubsetOrdering
<1>8. T \ {x} \notin Bad
  BY <1>3, <1>7
<1>9. CASE T \ {x} = {}
  BY <1>4, <1>5, <1>9
<1>10. CASE T \ {x} # {}
  <2>1. PICK n \in T \ {x} : \A m \in T \ {x} : m <= n
    BY <1>6, <1>8, <1>10
  <2>2. n \in Nat /\ x \in Nat /\ \A m \in T : m \in Nat
    BY <1>4, <1>5
  <2>3. \A m \in T : m = x \/ m <= n
    BY <2>1
  <2>4. CASE x <= n
    BY <1>4, <2>1, <2>2, <2>3, <2>4
  <2>5. CASE n <= x
    <3>1. \A m \in T : m <= x
      BY <2>2, <2>3, <2>5
    <3>2. QED
      BY <1>4, <1>5, <3>1
  <2>6. QED
    BY <2>2, <2>4, <2>5
<1>11. QED
  BY <1>9, <1>10

\* No slab has more than MaxCap buffers.
LEMMA MaxCapBounds == MaxCap \in Nat /\ \A c \in Caches : Cap[c] \in 0 .. MaxCap
<1> DEFINE Caps == {Cap[c] : c \in Caches}
<1>1. IsFiniteSet(Caches)
  <2>1. IsFiniteSet(Pools)
    <3>1. IsFiniteSet({SlabPool})
      BY FS_Singleton
    <3>2. IsFiniteSet({SlabPool} \cup {BufctlPool})
      BY <3>1, FS_AddElement
    <3>3. {SlabPool} \cup {BufctlPool} = Pools
      BY DEF Pools
    <3>4. QED
      BY <3>2, <3>3
  <2>2. IsFiniteSet(Pools \cup Compact)
    BY <2>1, CacheAssumption, FS_Union
  <2>3. QED
    BY <2>2, CacheAssumption, FS_Union DEF Caches
<1>2. Cap \in Surjection(Caches, Caps)
  BY CacheAssumption DEF Surjection
<1>3. IsFiniteSet(Caps)
  BY <1>1, <1>2, FS_Surjection
<1>4. Caps \in SUBSET Nat /\ Caps # {}
  BY CacheAssumption DEF Caches, Pools
<1>5. \E n \in Caps : \A m \in Caps : m <= n
  BY <1>3, <1>4, FiniteHasMax
<1>6. \E n \in Caps : \A c \in Caches : Cap[c] <= n
  BY <1>5
<1>7. MaxCap \in Caps /\ \A c \in Caches : Cap[c] <= MaxCap
  BY <1>6 DEF MaxCap
<1>8. QED
  BY <1>4, <1>7, CacheAssumption

\* The buffers of a slab that are out are finitely many.
LEMMA OutOfFinite ==
  ASSUME NEW S, NEW f
  PROVE  /\ IsFiniteSet(OutOf(S, f)) /\ Cardinality(OutOf(S, f)) \in Nat
         /\ OutOf(S, f) \subseteq 1 .. MaxCap
<1>1. IsFiniteSet(1 .. MaxCap)
  BY MaxCapBounds, FS_Interval
<1>2. OutOf(S, f) \in SUBSET (1 .. MaxCap)
  BY DEF OutOf
<1>3. QED
  BY <1>1, <1>2, FS_Subset, FS_CardinalityType

-----------------------------------------------------------------------------
(* One slab and one cache *)

\* _cache_sort loses no slab, keeps none twice, and puts each where it belongs.
LEMMA SortOK ==
  ASSUME NEW L \in Lists, Apart(L),
         NEW B \in [Frames -> SUBSET Nat], NEW R \in [Frames -> Nat]
  PROVE  /\ CacheSort(L, B, R) \in Lists
         /\ Members(CacheSort(L, B, R)) = Members(L)
         /\ Apart(CacheSort(L, B, R))
         /\ InOrder(CacheSort(L, B, R), B, R)
<1> DEFINE mixed == L.used \cup {f \in L.full : ~SlabFull(B, f)}
                           \cup {f \in L.free : ~SlabEmpty(R, f)}
           full == {f \in L.full \cup mixed : SlabFull(B, f)}
           free == {f \in L.free : SlabEmpty(R, f)}
                     \cup {f \in mixed : ~SlabFull(B, f) /\ SlabEmpty(R, f)}
           used == {f \in mixed : ~SlabFull(B, f) /\ ~SlabEmpty(R, f)}
<1>1. /\ CacheSort(L, B, R).free = free /\ CacheSort(L, B, R).used = used
      /\ CacheSort(L, B, R).full = full
      /\ CacheSort(L, B, R) = [full |-> full, free |-> free, used |-> used]
  BY DEF CacheSort
<1>2. L.free \subseteq Frames /\ L.used \subseteq Frames /\ L.full \subseteq Frames
  BY DEF Lists
<1>3. free \subseteq Frames /\ used \subseteq Frames /\ full \subseteq Frames
  BY <1>2
<1>4. free \cup used \cup full = L.free \cup L.used \cup L.full
  OBVIOUS
<1>5. free \cap used = {} /\ free \cap full = {} /\ used \cap full = {}
  BY DEF Apart
<1>6. /\ \A f \in free : R[f] = 0
      /\ \A f \in used : R[f] # 0 /\ B[f] # {}
      /\ \A f \in full : B[f] = {}
  BY DEF SlabFull, SlabEmpty
<1>7. \A f \in used : R[f] > 0
  <2>1. \A f \in used : R[f] \in Nat
    BY <1>3
  <2>2. QED
    BY <1>6, <2>1
<1> HIDE DEF free, used, full
<1>8. QED
  BY <1>1, <1>3, <1>4, <1>5, <1>6, <1>7 DEF Lists, Members, Apart, InOrder

\* A buffer that goes out leaves the slab's list and is counted.
LEMMA WholeTake ==
  ASSUME NEW n \in Nat, NEW B, NEW r, NEW O, Whole(n, B, r, O), IsFiniteSet(O),
         NEW i \in B
  PROVE  Whole(n, B \ {i}, r + 1, O \cup {i}) /\ i \notin O
<1>1. i \notin O
  BY DEF Whole
<1>2. Cardinality(O \cup {i}) = Cardinality(O) + 1
  BY <1>1, FS_AddElement
<1>3. QED
  BY <1>1, <1>2 DEF Whole

\* A buffer that comes back is counted off and joins the list.
LEMMA WholeGive ==
  ASSUME NEW n \in Nat, NEW B, NEW r, NEW O, Whole(n, B, r, O), IsFiniteSet(O),
         NEW i \in O
  PROVE  Whole(n, B \cup {i}, r - 1, O \ {i}) /\ r \in Nat /\ r > 0
<1>1. Cardinality(O \ {i}) = Cardinality(O) - 1 /\ IsFiniteSet(O \ {i})
  BY FS_RemoveElement
<1>2. Cardinality(O) \in Nat /\ Cardinality(O \ {i}) \in Nat
  BY <1>1, FS_CardinalityType
<1>3. QED
  BY <1>1, <1>2 DEF Whole

\* The outcome of taking an object: buffer i of f, which is now a slab of the
\* cache, has joined the objects S that are out.
Taken(c, f, i, S) ==
  /\ lists' \in [Caches -> Lists]
  /\ bufs' \in [Frames -> SUBSET Nat] /\ refs' \in [Frames -> Nat]
  /\ SlabsOf(c)' = SlabsOf(c) \cup {f}
  /\ \A d \in Caches \ {c} : SlabsOf(d)' = SlabsOf(d)
  /\ AllSorted'
  /\ Exact(S \cup {<<f, i>>})'
  /\ <<f, i>> \notin S

\* What taking an object does to the lists and the slabs, wherever slab f comes
\* from: L, B and R are the cache's lists, the bufctls and the counts with f in them.
LEMMA TakeStep ==
  ASSUME TypeOK, AllSorted, NEW S,
         NEW c \in Caches, NEW L \in Lists, Apart(L),
         NEW B \in [Frames -> SUBSET Nat], NEW R \in [Frames -> Nat],
         NEW f \in Members(L), NEW i \in 1 .. MaxCap,
         Members(L) = SlabsOf(c) \cup {f},
         \A d \in Caches \ {c} : f \notin SlabsOf(d),
         \A g \in Frames \ {f} : B[g] = bufs[g] /\ R[g] = refs[g],
         \A d \in Caches : \A g \in SlabsOf(d) \ {f} :
           Whole(Cap[d], bufs[g], refs[g], OutOf(S, g)),
         Whole(Cap[c], B[f], R[f], OutOf(S, f)),
         SlabGetObject(c, L, B, R, f, i)
  PROVE  Taken(c, f, i, S)
<1>1. /\ i \in B[f] /\ bufs' = [B EXCEPT ![f] = @ \ {i}] /\ refs' = [R EXCEPT ![f] = @ + 1]
      /\ lists' = [lists EXCEPT ![c] = CacheSort(L, bufs', refs')]
  BY DEF SlabGetObject
<1>2. f \in Frames
  BY DEF Members, Lists
<1>3. bufs' \in [Frames -> SUBSET Nat] /\ refs' \in [Frames -> Nat]
  BY <1>1, <1>2
<1>4. bufs'[f] = B[f] \ {i} /\ refs'[f] = R[f] + 1
  BY <1>1, <1>2
<1>5. \A g \in Frames \ {f} : bufs'[g] = bufs[g] /\ refs'[g] = refs[g]
  BY <1>1, <1>2
<1> DEFINE M == CacheSort(L, bufs', refs')
<1>6. /\ M \in Lists /\ Members(M) = Members(L) /\ Apart(M) /\ InOrder(M, bufs', refs')
  BY <1>3, SortOK
<1> HIDE DEF M
<1>7. lists' = [lists EXCEPT ![c] = M]
  BY <1>1 DEF M
<1>8. lists'[c] = M /\ (\A d \in Caches \ {c} : lists'[d] = lists[d]) /\ lists' \in [Caches -> Lists]
  BY <1>6, <1>7 DEF TypeOK
<1>9. SlabsOf(c)' = SlabsOf(c) \cup {f}
  BY <1>6, <1>8 DEF SlabsOf, Members
<1>10. \A d \in Caches \ {c} : SlabsOf(d)' = SlabsOf(d)
  BY <1>8 DEF SlabsOf
<1>11. \A d \in Caches : SlabsOf(d) \subseteq Frames
  BY DEF TypeOK, Lists, SlabsOf
<1>12. AllSorted'
  <2>1. SUFFICES ASSUME NEW d \in Caches
                 PROVE  Apart(lists'[d]) /\ InOrder(lists'[d], bufs', refs')
    BY DEF AllSorted
  <2>2. CASE d = c
    BY <1>6, <1>8, <2>2
  <2>3. CASE d # c
    <3>1. lists'[d] = lists[d]
      BY <1>8, <2>3
    <3>2. Apart(lists[d]) /\ InOrder(lists[d], bufs, refs)
      BY DEF AllSorted
    <3>3. \A g \in SlabsOf(d) : bufs'[g] = bufs[g] /\ refs'[g] = refs[g]
      BY <1>5, <1>11, <2>3
    <3>4. QED
      BY <3>1, <3>2, <3>3 DEF InOrder, SlabsOf
  <2>4. QED
    BY <2>2, <2>3
<1>13. Whole(Cap[c], bufs'[f], refs'[f], OutOf(S, f) \cup {i}) /\ i \notin OutOf(S, f)
  <2>1. Cap[c] \in Nat /\ IsFiniteSet(OutOf(S, f))
    BY CacheAssumption, OutOfFinite
  <2>2. i \in B[f]
    BY <1>1
  <2>3. Whole(Cap[c], B[f] \ {i}, R[f] + 1, OutOf(S, f) \cup {i}) /\ i \notin OutOf(S, f)
    BY <2>1, <2>2, WholeTake
  <2>4. QED
    BY <1>4, <2>3
<1>14. OutOf(S \cup {<<f, i>>}, f) = OutOf(S, f) \cup {i}
  BY DEF OutOf
<1>15. ASSUME NEW g, g # f PROVE OutOf(S \cup {<<f, i>>}, g) = OutOf(S, g)
  BY <1>15 DEF OutOf
<1>16. Exact(S \cup {<<f, i>>})'
  <2>1. SUFFICES ASSUME NEW d \in Caches, NEW g \in SlabsOf(d)'
                 PROVE  Whole(Cap[d], bufs'[g], refs'[g], OutOf(S \cup {<<f, i>>}, g))
    BY DEF Exact
  <2>2. CASE g = f
    <3>1. d = c
      BY <1>9, <1>10, <2>2
    <3>2. QED
      BY <1>13, <1>14, <2>2, <3>1
  <2>3. CASE g # f
    <3>1. g \in SlabsOf(d) \ {f}
      BY <1>9, <1>10, <2>3
    <3>2. bufs'[g] = bufs[g] /\ refs'[g] = refs[g]
      BY <1>5, <1>11, <3>1
    <3>3. Whole(Cap[d], bufs[g], refs[g], OutOf(S, g))
      BY <3>1
    <3>4. QED
      BY <1>15, <2>3, <3>2, <3>3
  <2>4. QED
    BY <2>2, <2>3
<1>17. <<f, i>> \notin S
  BY <1>13 DEF OutOf
<1>18. QED
  BY <1>3, <1>8, <1>9, <1>10, <1>12, <1>16, <1>17 DEF Taken

\* What putting an object back does to them.
LEMMA GiveStep ==
  ASSUME TypeOK, Placed, AllSorted, NEW S, Exact(S),
         NEW c \in Caches, NEW o \in Objects, o \in S, o[1] \in SlabsOf(c),
         SlabPutObject(c, o)
  PROVE  /\ lists' \in [Caches -> Lists]
         /\ bufs' \in [Frames -> SUBSET Nat] /\ refs' \in [Frames -> Nat]
         /\ \A d \in Caches : SlabsOf(d)' = SlabsOf(d)
         /\ AllSorted'
         /\ Exact(S \ {o})'
<1> DEFINE f == o[1]
           i == o[2]
<1>1. o = <<f, i>> /\ f \in Frames /\ i \in 1 .. MaxCap
  BY DEF Objects
<1>2. i \in OutOf(S, f)
  BY <1>1 DEF OutOf
<1>3. Whole(Cap[c], bufs[f], refs[f], OutOf(S, f))
  BY DEF Exact
<1>4. /\ Whole(Cap[c], bufs[f] \cup {i}, refs[f] - 1, OutOf(S, f) \ {i})
      /\ refs[f] \in Nat /\ refs[f] > 0
  <2>1. Cap[c] \in Nat /\ IsFiniteSet(OutOf(S, f))
    BY CacheAssumption, OutOfFinite
  <2> HIDE DEF f, i
  <2>2. QED
    BY <1>2, <1>3, <2>1, WholeGive
<1>5. /\ bufs' = [bufs EXCEPT ![f] = @ \cup {i}] /\ refs' = [refs EXCEPT ![f] = @ - 1]
      /\ lists' = [lists EXCEPT ![c] = CacheSort(@, bufs', refs')]
  BY <1>1, <1>4 DEF SlabPutObject, TypeOK
<1> HIDE DEF f, i
<1>6. i \in Nat /\ refs[f] - 1 \in Nat
  BY <1>1, <1>4, MaxCapBounds
<1>7. bufs' \in [Frames -> SUBSET Nat] /\ refs' \in [Frames -> Nat]
  BY <1>1, <1>5, <1>6 DEF TypeOK
<1>8. bufs'[f] = bufs[f] \cup {i} /\ refs'[f] = refs[f] - 1
  BY <1>1, <1>5 DEF TypeOK
<1>9. \A g \in Frames \ {f} : bufs'[g] = bufs[g] /\ refs'[g] = refs[g]
  BY <1>1, <1>5 DEF TypeOK
<1> DEFINE M == CacheSort(lists[c], bufs', refs')
<1>10. M \in Lists /\ Members(M) = Members(lists[c]) /\ Apart(M) /\ InOrder(M, bufs', refs')
  <2>1. lists[c] \in Lists /\ Apart(lists[c])
    BY DEF TypeOK, AllSorted
  <2>2. QED
    BY <1>7, <2>1, SortOK
<1>11. lists' = [lists EXCEPT ![c] = M]
  BY <1>5
<1> HIDE DEF M
<1>12. lists'[c] = M /\ (\A d \in Caches \ {c} : lists'[d] = lists[d]) /\ lists' \in [Caches -> Lists]
  BY <1>10, <1>11 DEF TypeOK
<1>13. \A d \in Caches : SlabsOf(d)' = SlabsOf(d)
  BY <1>10, <1>12 DEF SlabsOf, Members
<1>14. \A d \in Caches : SlabsOf(d) \subseteq Frames
  BY DEF TypeOK, Lists, SlabsOf
<1>15. f \in SlabsOf(c) /\ \A d \in Caches : d # c => f \notin SlabsOf(d)
  BY DEF Placed, f
<1>16. AllSorted'
  <2>1. SUFFICES ASSUME NEW d \in Caches
                 PROVE  Apart(lists'[d]) /\ InOrder(lists'[d], bufs', refs')
    BY DEF AllSorted
  <2>2. CASE d = c
    BY <1>10, <1>12, <2>2
  <2>3. CASE d # c
    <3>1. lists'[d] = lists[d]
      BY <1>12, <2>3
    <3>2. Apart(lists[d]) /\ InOrder(lists[d], bufs, refs)
      BY DEF AllSorted
    <3>3. \A g \in SlabsOf(d) : bufs'[g] = bufs[g] /\ refs'[g] = refs[g]
      BY <1>9, <1>14, <1>15, <2>3
    <3>4. QED
      BY <3>1, <3>2, <3>3 DEF InOrder, SlabsOf
  <2>4. QED
    BY <2>2, <2>3
<1>17. OutOf(S \ {o}, f) = OutOf(S, f) \ {i}
  BY <1>1 DEF OutOf
<1>18. ASSUME NEW g, g # f PROVE OutOf(S \ {o}, g) = OutOf(S, g)
  BY <1>1, <1>18 DEF OutOf
<1>19. Exact(S \ {o})'
  <2>1. SUFFICES ASSUME NEW d \in Caches, NEW g \in SlabsOf(d)
                 PROVE  Whole(Cap[d], bufs'[g], refs'[g], OutOf(S \ {o}, g))
    BY <1>13 DEF Exact
  <2>2. CASE g = f
    BY <1>4, <1>8, <1>15, <1>17, <2>2
  <2>3. CASE g # f
    <3>1. bufs'[g] = bufs[g] /\ refs'[g] = refs[g]
      BY <1>9, <1>14, <2>3
    <3>2. Whole(Cap[d], bufs[g], refs[g], OutOf(S, g))
      BY DEF Exact
    <3>3. QED
      BY <1>18, <2>3, <3>1, <3>2
  <2>4. QED
    BY <2>2, <2>3
<1>20. QED
  BY <1>7, <1>12, <1>13, <1>16, <1>19

\* A frame that is no slab has no buffer out.
LEMMA NoneOutOf ==
  ASSUME TypeOK, FromSlabs, NEW f, \A d \in Caches : f \notin SlabsOf(d)
  PROVE  OutOf(Gone, f) = {}
<1>1. SUFFICES ASSUME NEW i \in 1 .. MaxCap, <<f, i>> \in Gone PROVE FALSE
  BY DEF OutOf
<1>2. <<f, i>>[1] = f
  OBVIOUS
<1>3. SlabPool \in Caches /\ BufctlPool \in Caches /\ \A c \in Compact \cup External : c \in Caches
  BY DEF Caches, Pools
<1>4. CASE \E u \in CPUs : <<f, i>> \in held[u]
  BY <1>2, <1>3, <1>4 DEF FromSlabs
<1>5. CASE \E g \in Frames : <<f, i>> \in hdr[g] \/ <<f, i>> \in ctls[g]
  BY <1>2, <1>3, <1>5 DEF FromSlabs
<1>6. CASE \E u \in CPUs : build[u] # NoBuild /\ (<<f, i>> \in build[u].hdr \/ <<f, i>> \in build[u].ctls)
  BY <1>2, <1>3, <1>6 DEF FromSlabs
<1>7. QED
  BY <1>1, <1>4, <1>5, <1>6 DEF Gone

\* A slab that has just been carved up is whole.
LEMMA WholeNew == ASSUME NEW n \in Nat PROVE Whole(n, 1 .. n, 0, {})
BY FS_EmptySet DEF Whole

\* get_object takes buffer i of a slab f that the cache has, or gets from physmm.
LEMMA GetEffect ==
  ASSUME IInv, NEW S, S = Gone, NEW c \in Caches, NEW f \in Frames,
         NEW i \in 1 .. MaxCap, GetHit(c, f, i) \/ GetMiss(c, f, i)
  PROVE  /\ Taken(c, f, i, S)
         /\ avail' = avail \ {f}
         /\ f \in avail \/ f \in SlabsOf(c)
         /\ GetHit(c, f, i) => f \in SlabsOf(c)
<1>1. lists[c] \in Lists /\ Apart(lists[c])
  BY DEF IInv, TypeOK, AllSorted
<1>2. TypeOK /\ AllSorted /\ Exact(S)
  BY DEF IInv
<1>3. \A d \in Caches : \A g \in SlabsOf(d) : Whole(Cap[d], bufs[g], refs[g], OutOf(S, g))
  BY <1>2 DEF Exact
<1>4. CASE GetHit(c, f, i)
  <2>1. f \in SlabsOf(c)
    BY <1>4 DEF GetHit, Candidates, SlabsOf
  <2>2. f \in Members(lists[c]) /\ Members(lists[c]) = SlabsOf(c) \cup {f}
    BY <2>1 DEF Members, SlabsOf
  <2>3. \A d \in Caches \ {c} : f \notin SlabsOf(d)
    BY <2>1 DEF IInv, Placed
  <2>4. SlabGetObject(c, lists[c], bufs, refs, f, i) /\ avail' = avail
    BY <1>4 DEF GetHit
  <2>5. Whole(Cap[c], bufs[f], refs[f], OutOf(S, f))
    BY <1>3, <2>1
  <2>6. bufs \in [Frames -> SUBSET Nat] /\ refs \in [Frames -> Nat]
    BY DEF IInv, TypeOK
  <2>7. avail' = avail \ {f}
    BY <2>1, <2>4 DEF IInv, Placed
  <2>8. Taken(c, f, i, S)
    <3>1. \A d \in Caches : \A g \in SlabsOf(d) \ {f} :
            Whole(Cap[d], bufs[g], refs[g], OutOf(S, g))
      BY <1>3
    <3>2. \A g \in Frames \ {f} : bufs[g] = bufs[g] /\ refs[g] = refs[g]
      OBVIOUS
    <3>3. QED
      BY <1>1, <1>2, <2>2, <2>3, <2>4, <2>5, <2>6, <3>1, <3>2, TakeStep
  <2>9. QED
    BY <2>1, <2>7, <2>8
<1>5. CASE GetMiss(c, f, i)
  <2> DEFINE L == [lists[c] EXCEPT !.free = {f}]
             B == [bufs EXCEPT ![f] = 1 .. Cap[c]]
             R == [refs EXCEPT ![f] = 0]
  <2>1. f \in avail /\ avail' = avail \ {f} /\ SlabGetObject(c, L, B, R, f, i)
    BY <1>5 DEF GetMiss
  <2>2. lists[c].used = {} /\ lists[c].free = {}
    BY <1>5 DEF GetMiss, Candidates
  <2>3. L.free = {f} /\ L.used = {} /\ L.full = lists[c].full /\ L \in Lists
    BY <1>1, <2>2 DEF Lists
  <2>4. \A d \in Caches : f \notin SlabsOf(d)
    BY <2>1 DEF IInv, Placed
  <2>5. Apart(L) /\ f \in Members(L) /\ Members(L) = SlabsOf(c) \cup {f}
    BY <2>2, <2>3, <2>4 DEF Apart, Members, SlabsOf
  <2>6. Cap[c] \in Nat /\ 1 .. Cap[c] \in SUBSET Nat
    BY CacheAssumption
  <2>7. B \in [Frames -> SUBSET Nat] /\ R \in [Frames -> Nat] /\ B[f] = 1 .. Cap[c] /\ R[f] = 0
    BY <1>2, <2>6 DEF TypeOK
  <2>8. \A g \in Frames \ {f} : B[g] = bufs[g] /\ R[g] = refs[g]
    BY <1>2 DEF TypeOK
  <2>9. OutOf(S, f) = {}
    BY <2>4, NoneOutOf DEF IInv
  <2>10. Whole(Cap[c], B[f], R[f], OutOf(S, f))
    BY <2>6, <2>7, <2>9, WholeNew
  <2> HIDE DEF L, B, R
  <2>11. Taken(c, f, i, S)
    <3>1. \A d \in Caches : \A g \in SlabsOf(d) \ {f} :
            Whole(Cap[d], bufs[g], refs[g], OutOf(S, g))
      BY <1>3
    <3>2. \A d \in Caches \ {c} : f \notin SlabsOf(d)
      BY <2>4
    <3>3. QED
      BY <1>2, <2>1, <2>3, <2>5, <2>7, <2>8, <2>10, <3>1, <3>2, TakeStep
  <2>12. GetHit(c, f, i) => FALSE
    BY <2>2 DEF GetHit, Candidates
  <2>13. QED
    BY <2>1, <2>11, <2>12
<1>6. QED
  BY <1>4, <1>5

\* Frames stay in their places when a cache takes an object, from physmm or not.
LEMMA PlacedTake ==
  ASSUME IInv, NEW c \in Caches, NEW f \in Frames, f \in avail \/ f \in SlabsOf(c),
         SlabsOf(c)' = SlabsOf(c) \cup {f},
         \A d \in Caches \ {c} : SlabsOf(d)' = SlabsOf(d),
         avail' = avail \ {f},
         \A u \in CPUs : /\ build'[u] # NoBuild <=> build[u] # NoBuild
                         /\ build[u] # NoBuild => build'[u].frame = build[u].frame
  PROVE  Placed'
<1>1. \A u \in CPUs : build[u] # NoBuild => build[u].frame # f
  BY DEF IInv, Placed
<1>2. \A d \in Caches \ {c} : f \notin SlabsOf(d)
  BY DEF IInv, Placed
<1>3. \A d, e \in Caches : d # e => SlabsOf(d)' \cap SlabsOf(e)' = {}
  BY <1>2 DEF IInv, Placed
<1>4. \A d \in Caches : avail' \cap SlabsOf(d)' = {}
  BY DEF IInv, Placed
<1>5. \A u \in CPUs : build'[u] # NoBuild =>
        /\ build'[u].frame \notin avail'
        /\ \A d \in Caches : build'[u].frame \notin SlabsOf(d)'
  BY <1>1 DEF IInv, Placed
<1>6. \A u, v \in CPUs :
        build'[u] # NoBuild /\ build'[v] # NoBuild /\ build'[u].frame = build'[v].frame => u = v
  BY DEF IInv, Placed
<1>7. \A g \in Frames :
        \/ g \in avail'
        \/ \E d \in Caches : g \in SlabsOf(d)'
        \/ \E u \in CPUs : build'[u] # NoBuild /\ build'[u].frame = g
  <2> SUFFICES ASSUME NEW g \in Frames, g \notin avail', ~(\E d \in Caches : g \in SlabsOf(d)')
               PROVE  \E u \in CPUs : build'[u] # NoBuild /\ build'[u].frame = g
    OBVIOUS
  <2>1. g # f /\ g \notin avail /\ ~(\E d \in Caches : g \in SlabsOf(d))
    OBVIOUS
  <2>2. PICK u \in CPUs : build[u] # NoBuild /\ build[u].frame = g
    BY <2>1 DEF IInv, Placed
  <2>3. QED
    BY <2>2
<1>8. QED
  BY <1>3, <1>4, <1>5, <1>6, <1>7 DEF Placed

-----------------------------------------------------------------------------
(* The clients' steps *)

\* The pools, the compact and the external caches are different caches.
LEMMA CacheKinds ==
  /\ SlabPool \in Caches /\ BufctlPool \in Caches /\ SlabPool # BufctlPool
  /\ \A c \in Compact : c \in Caches /\ c \notin External /\ c # SlabPool /\ c # BufctlPool
  /\ \A c \in External : c \in Caches /\ c # SlabPool /\ c # BufctlPool
BY CacheAssumption DEF Caches, Pools

\* get_object of a client gives an object nobody had to one CPU.
LEMMA GetStep ==
  ASSUME IInv, NEW cpu \in CPUs, NEW c \in Compact \cup External,
         get_object_hit(cpu, c) \/ get_object_miss(cpu, c)
  PROVE  IInv'
<1>1. PICK f \in Frames, i \in 1 .. MaxCap :
        /\ GetHit(c, f, i) \/ GetMiss(c, f, i)
        /\ c \in External => GetHit(c, f, i)
        /\ held' = [held EXCEPT ![cpu] = @ \cup {<<f, i>>}]
  BY CacheKinds DEF get_object_hit, get_object_miss, Received
<1>2. UNCHANGED <<lock, hdr, ctls, build, state>>
  BY DEF get_object_hit, get_object_miss
<1>3. PICK S : S = Gone
  OBVIOUS
<1>4. c \in Caches
  BY CacheKinds
<1>5. /\ Taken(c, f, i, S) /\ avail' = avail \ {f} /\ (f \in avail \/ f \in SlabsOf(c))
      /\ GetHit(c, f, i) => f \in SlabsOf(c)
  BY <1>1, <1>3, <1>4, GetEffect
<1>6. /\ SlabsOf(c)' = SlabsOf(c) \cup {f} /\ \A d \in Caches \ {c} : SlabsOf(d)' = SlabsOf(d)
      /\ <<f, i>> \notin S
  BY <1>5 DEF Taken
<1>7. \A d \in Caches : SlabsOf(d) \subseteq SlabsOf(d)'
  BY <1>6
<1> DEFINE o == <<f, i>>
<1>8. o \in Objects /\ o[1] = f
  BY DEF Objects
<1> HIDE DEF o
<1>9. held \in [CPUs -> SUBSET Objects]
  BY DEF IInv, TypeOK
<1>10. held'[cpu] = held[cpu] \cup {o} /\ \A u \in CPUs \ {cpu} : held'[u] = held[u]
  BY <1>1, <1>9 DEF o
<1>11. TypeOK'
  <2>1. held' \in [CPUs -> SUBSET Objects]
    BY <1>1, <1>8, <1>9 DEF o
  <2>2. avail' \in SUBSET Frames
    BY <1>5 DEF IInv, TypeOK
  <2>3. QED
    BY <1>2, <1>5, <2>1, <2>2 DEF IInv, TypeOK, Taken
<1>12. LocksHeld' /\ BuildShape'
  BY <1>2 DEF IInv, LocksHeld, BuildShape
<1>13. Placed'
  BY <1>2, <1>4, <1>5, <1>6, PlacedTake
<1>14. Structures'
  <2>1. \A d \in External : SlabsOf(d)' = SlabsOf(d)
    BY <1>1, <1>5, <1>6, CacheKinds
  <2>2. QED
    BY <1>2, <2>1 DEF IInv, Structures
<1>15. FromSlabs'
  <2>1. \A u \in CPUs : \A p \in held'[u] : \E d \in Compact \cup External : p[1] \in SlabsOf(d)'
    <3>1. SUFFICES ASSUME NEW u \in CPUs, NEW p \in held'[u]
                   PROVE  \E d \in Compact \cup External : p[1] \in SlabsOf(d)'
      OBVIOUS
    <3>2. CASE p = o
      BY <1>6, <1>8, <3>2
    <3>3. CASE p # o
      <4>1. p \in held[u]
        BY <1>10, <3>3
      <4>2. PICK d \in Compact \cup External : p[1] \in SlabsOf(d)
        BY <4>1 DEF IInv, FromSlabs
      <4>3. QED
        BY <1>7, <4>2, CacheKinds
    <3>4. QED
      BY <3>2, <3>3
  <2>2. QED
    BY <1>2, <1>7, <2>1, CacheKinds DEF IInv, FromSlabs
<1>16. OneOwner'
  <2>1. \A u \in CPUs : o \notin held[u]
    BY <1>3, <1>6, <1>8 DEF Gone, o
  <2>2. \A u, v \in CPUs : u # v => held'[u] \cap held'[v] = {}
    BY <1>10, <2>1 DEF IInv, OneOwner
  <2>3. QED
    BY <1>2, <2>2 DEF IInv, OneOwner
<1>17. Gone' = S \cup {o}
  BY <1>2, <1>3, <1>8, <1>10 DEF Gone
<1>18. Exact(Gone)'
  BY <1>5, <1>17 DEF Taken, Exact, o
<1>19. QED
  BY <1>5, <1>11, <1>12, <1>13, <1>14, <1>15, <1>16, <1>18 DEF IInv, Taken

\* put_object takes an object from the CPU that has it.
LEMMA PutStep ==
  ASSUME IInv, NEW cpu \in CPUs, NEW c \in Compact \cup External, put_object(cpu, c)
  PROVE  IInv'
<1>1. PICK o \in held[cpu] : /\ o[1] \in SlabsOf(c) /\ SlabPutObject(c, o)
                             /\ held' = [held EXCEPT ![cpu] = @ \ {o}]
  BY DEF put_object
<1>2. UNCHANGED <<lock, hdr, ctls, avail, build, state>>
  BY DEF put_object
<1>3. PICK S : S = Gone
  OBVIOUS
<1>4. c \in Caches
  BY CacheKinds
<1>5. held \in [CPUs -> SUBSET Objects]
  BY DEF IInv, TypeOK
<1>6. o \in Objects /\ o \in S
  BY <1>3, <1>5 DEF Gone
<1>7. /\ lists' \in [Caches -> Lists]
      /\ bufs' \in [Frames -> SUBSET Nat] /\ refs' \in [Frames -> Nat]
      /\ \A d \in Caches : SlabsOf(d)' = SlabsOf(d)
      /\ AllSorted'
      /\ Exact(S \ {o})'
  <2>1. TypeOK /\ Placed /\ AllSorted /\ Exact(S)
    BY <1>3 DEF IInv
  <2>2. QED
    BY <1>1, <1>4, <1>6, <2>1, GiveStep
<1>8. held'[cpu] = held[cpu] \ {o} /\ \A u \in CPUs \ {cpu} : held'[u] = held[u]
  BY <1>1, <1>5
<1>9. TypeOK'
  <2>1. held' \in [CPUs -> SUBSET Objects]
    BY <1>1, <1>5
  <2>2. QED
    BY <1>2, <1>7, <2>1 DEF IInv, TypeOK
<1>10. LocksHeld' /\ BuildShape'
  BY <1>2 DEF IInv, LocksHeld, BuildShape
<1>11. Placed'
  BY <1>2, <1>7 DEF IInv, Placed
<1>12. Structures'
  BY <1>2, <1>7, CacheKinds DEF IInv, Structures
<1>13. FromSlabs'
  <2>1. \A u \in CPUs : \A p \in held'[u] : \E d \in Compact \cup External : p[1] \in SlabsOf(d)'
    BY <1>7, <1>8, CacheKinds DEF IInv, FromSlabs
  <2>2. QED
    BY <1>2, <1>7, <2>1, CacheKinds DEF IInv, FromSlabs
<1>14. OneOwner'
  <2>1. \A u, v \in CPUs : u # v => held'[u] \cap held'[v] = {}
    BY <1>8 DEF IInv, OneOwner
  <2>2. QED
    BY <1>2, <2>1 DEF IInv, OneOwner
<1>15. Gone' = S \ {o}
  <2>1. \A u \in CPUs \ {cpu} : o \notin held[u]
    BY DEF IInv, OneOwner
  <2>2. o[1] \notin SlabsOf(SlabPool) /\ o[1] \notin SlabsOf(BufctlPool)
    BY <1>1, <1>4, CacheKinds DEF IInv, Placed
  <2>3. /\ \A f \in Frames : o \notin hdr[f] /\ o \notin ctls[f]
        /\ \A u \in CPUs : build[u] # NoBuild => o \notin build[u].hdr /\ o \notin build[u].ctls
    BY <2>2 DEF IInv, FromSlabs
  <2>4. QED
    BY <1>2, <1>3, <1>8, <2>1, <2>3 DEF Gone
<1>16. Exact(Gone)'
  BY <1>7, <1>15 DEF Exact
<1>17. QED
  BY <1>7, <1>9, <1>10, <1>11, <1>12, <1>13, <1>14, <1>16 DEF IInv

\* Steps that leave the slabs and the owners alone.
LEMMA OnlyLocks ==
  ASSUME IInv, UNCHANGED <<lists, bufs, refs, hdr, ctls, avail, held>>,
         TypeOK', LocksHeld',
         \A u \in CPUs : \/ build'[u] = build[u]
                         \/ /\ build'[u] # NoBuild /\ build[u] # NoBuild
                            /\ build'[u].cache = build[u].cache
                            /\ build'[u].frame = build[u].frame
                            /\ build'[u].hdr = build[u].hdr
                            /\ build'[u].ctls = build[u].ctls
  PROVE  IInv'
<1>1. \A c : SlabsOf(c)' = SlabsOf(c)
  BY DEF SlabsOf
<1>2. \A u \in CPUs : /\ build'[u] # NoBuild <=> build[u] # NoBuild
                      /\ build[u] # NoBuild => /\ build'[u].cache = build[u].cache
                                               /\ build'[u].frame = build[u].frame
                                               /\ build'[u].hdr = build[u].hdr
                                               /\ build'[u].ctls = build[u].ctls
  OBVIOUS
<1>3. BuildShape'
  BY <1>2 DEF IInv, BuildShape
<1>4. Placed'
  <2>1. \A f \in Frames :
          \/ f \in avail'
          \/ \E c \in Caches : f \in SlabsOf(c)'
          \/ \E u \in CPUs : build'[u] # NoBuild /\ build'[u].frame = f
    BY <1>1, <1>2 DEF IInv, Placed
  <2>2. \A u \in CPUs : build'[u] # NoBuild =>
          /\ build'[u].frame \notin avail'
          /\ \A c \in Caches : build'[u].frame \notin SlabsOf(c)'
    BY <1>1, <1>2 DEF IInv, Placed
  <2>3. \A u, v \in CPUs :
          build'[u] # NoBuild /\ build'[v] # NoBuild /\ build'[u].frame = build'[v].frame => u = v
    BY <1>2 DEF IInv, Placed
  <2>4. /\ \A c, d \in Caches : c # d => SlabsOf(c)' \cap SlabsOf(d)' = {}
        /\ \A c \in Caches : avail' \cap SlabsOf(c)' = {}
    BY <1>1 DEF IInv, Placed
  <2>5. QED
    BY <2>1, <2>2, <2>3, <2>4 DEF Placed
<1>5. AllSorted' /\ Structures'
  BY <1>1 DEF IInv, AllSorted, Structures
<1>6. FromSlabs'
  BY <1>1, <1>2 DEF IInv, FromSlabs
<1>7. OneOwner'
  BY <1>2 DEF IInv, OneOwner
<1>8. Gone' = Gone
  BY <1>2 DEF Gone
<1>9. Exact(Gone)'
  BY <1>1, <1>8 DEF IInv, Exact
<1>10. QED
  BY <1>3, <1>4, <1>5, <1>6, <1>7, <1>9 DEF IInv

\* get_object halts on an empty cache when physmm has nothing left.
LEMMA FaultStep ==
  ASSUME IInv, NEW cpu \in CPUs, NEW c \in Compact \cup External, get_object_fault(cpu, c)
  PROVE  IInv'
<1>1. /\ lock[c] = Nobody /\ lock' = [lock EXCEPT ![c] = cpu]
      /\ state' = [state EXCEPT ![cpu] = "halted"]
      /\ UNCHANGED <<lists, bufs, refs, hdr, ctls, avail, build, held>>
  BY DEF get_object_fault
<1>2. TypeOK'
  BY <1>1 DEF IInv, TypeOK
<1>3. LocksHeld'
  <2>1. SUFFICES ASSUME NEW u \in CPUs, build[u] # NoBuild
                 PROVE  /\ lock'[build[u].cache] = u
                        /\ build[u].inPool => lock'[PoolOf(build[u])] = u
    BY <1>1 DEF LocksHeld, PoolOf
  <2>2. u # Nobody /\ build[u] \in Builds
    BY <2>1, CacheAssumption DEF IInv, TypeOK
  <2>3. build[u].cache \in Caches /\ PoolOf(build[u]) \in Caches
    BY <2>2, CacheKinds DEF Builds, PoolOf
  <2>4. QED
    BY <1>1, <2>1, <2>2, <2>3 DEF IInv, TypeOK, LocksHeld
<1>4. QED
  BY <1>1, <1>2, <1>3, OnlyLocks

-----------------------------------------------------------------------------
(* The steps of _slab_alloc *)

\* The lock is taken and a frame leaves physmm for the slab to be built.
LEMMA BackingStep ==
  ASSUME IInv, NEW cpu \in CPUs, NEW c \in External, slab_alloc_backing(cpu, c)
  PROVE  IInv'
<1>1. PICK f \in avail :
        /\ avail' = avail \ {f}
        /\ build' = [build EXCEPT ![cpu] =
                       [cache |-> c, frame |-> f, hdr |-> NoHdr, ctls |-> {}, inPool |-> FALSE]]
  BY DEF slab_alloc_backing
<1>2. /\ lock[c] = Nobody /\ lock' = [lock EXCEPT ![c] = cpu] /\ build[cpu] = NoBuild
      /\ UNCHANGED <<lists, bufs, refs, hdr, ctls, held, state>>
  BY DEF slab_alloc_backing, MayAsk, Idle
<1> DEFINE b == [cache |-> c, frame |-> f, hdr |-> {}, ctls |-> {}, inPool |-> FALSE]
<1>3. f \in Frames /\ c \in Caches
  BY CacheKinds DEF IInv, TypeOK
<1>4. /\ b \in Builds /\ b.cache = c /\ b.frame = f /\ b.hdr = {} /\ b.ctls = {} /\ b.inPool = FALSE
  BY <1>3 DEF Builds
<1>5. b # NoBuild
  BY <1>4, NoBuildAssumption
<1>6. build' = [build EXCEPT ![cpu] = b]
  BY <1>1 DEF NoHdr
<1> HIDE DEF b
<1>7. build'[cpu] = b /\ (\A u \in CPUs \ {cpu} : build'[u] = build[u])
      /\ build' \in [CPUs -> Builds \cup {NoBuild}]
  BY <1>4, <1>6 DEF IInv, TypeOK
<1>8. \A d : SlabsOf(d)' = SlabsOf(d)
  BY <1>2 DEF SlabsOf
<1>9. TypeOK'
  BY <1>1, <1>2, <1>7 DEF IInv, TypeOK
<1>10. LocksHeld'
  <2>1. SUFFICES ASSUME NEW u \in CPUs, build'[u] # NoBuild
                 PROVE  /\ lock'[build'[u].cache] = u
                        /\ build'[u].inPool => lock'[PoolOf(build'[u])] = u
    BY DEF LocksHeld, PoolOf
  <2>2. CASE u = cpu
    BY <1>2, <1>3, <1>4, <1>7, <2>2 DEF IInv, TypeOK
  <2>3. CASE u # cpu
    <3>1. build'[u] = build[u] /\ build[u] \in Builds /\ u # Nobody
      BY <1>7, <2>1, <2>3, CacheAssumption DEF IInv, TypeOK
    <3>2. build[u].cache \in Caches /\ PoolOf(build[u]) \in Caches
      BY <3>1, CacheKinds DEF Builds, PoolOf
    <3>3. QED
      BY <1>2, <2>1, <3>1, <3>2 DEF IInv, TypeOK, LocksHeld
  <2>4. QED
    BY <2>2, <2>3
<1>11. BuildShape'
  <2>1. IsFiniteSet({})
    BY FS_EmptySet
  <2>2. QED
    BY <1>4, <1>7, <2>1 DEF IInv, BuildShape
<1>12. Placed'
  <2>1. \A d \in Caches : f \notin SlabsOf(d)
    BY DEF IInv, Placed
  <2>2. \A g \in Frames :
          \/ g \in avail'
          \/ \E d \in Caches : g \in SlabsOf(d)'
          \/ \E u \in CPUs : build'[u] # NoBuild /\ build'[u].frame = g
    <3>1. SUFFICES ASSUME NEW g \in Frames, g \notin avail', ~(\E d \in Caches : g \in SlabsOf(d))
                   PROVE  \E u \in CPUs : build'[u] # NoBuild /\ build'[u].frame = g
      BY <1>8
    <3>2. CASE g = f
      BY <1>4, <1>5, <1>7, <3>2
    <3>3. CASE g # f
      <4>1. PICK u \in CPUs : build[u] # NoBuild /\ build[u].frame = g
        BY <1>1, <3>1, <3>3 DEF IInv, Placed
      <4>2. QED
        BY <1>2, <1>7, <4>1
    <3>4. QED
      BY <3>2, <3>3
  <2>3. \A u \in CPUs : build'[u] # NoBuild =>
          /\ build'[u].frame \notin avail'
          /\ \A d \in Caches : build'[u].frame \notin SlabsOf(d)'
    BY <1>1, <1>4, <1>7, <1>8, <2>1 DEF IInv, Placed
  <2>4. \A u, v \in CPUs :
          build'[u] # NoBuild /\ build'[v] # NoBuild /\ build'[u].frame = build'[v].frame => u = v
    BY <1>4, <1>7 DEF IInv, Placed
  <2>5. /\ \A d, e \in Caches : d # e => SlabsOf(d)' \cap SlabsOf(e)' = {}
        /\ \A d \in Caches : avail' \cap SlabsOf(d)' = {}
    BY <1>1, <1>8 DEF IInv, Placed
  <2>6. QED
    BY <2>2, <2>3, <2>4, <2>5 DEF Placed
<1>13. AllSorted' /\ Structures'
  BY <1>2, <1>8 DEF IInv, AllSorted, Structures
<1>14. FromSlabs'
  BY <1>2, <1>4, <1>7, <1>8 DEF IInv, FromSlabs
<1>15. OneOwner'
  BY <1>2, <1>4, <1>7 DEF IInv, OneOwner
<1>16. Gone' = Gone
  BY <1>2, <1>4, <1>7 DEF Gone
<1>17. Exact(Gone)'
  BY <1>2, <1>8, <1>16 DEF IInv, Exact
<1>18. QED
  BY <1>9, <1>10, <1>11, <1>12, <1>13, <1>14, <1>15, <1>17 DEF IInv

\* A slab under construction is one, and its locks are those of other caches.
LEMMA BuildType ==
  ASSUME IInv, NEW u \in CPUs, build[u] # NoBuild
  PROVE  /\ build[u] \in Builds /\ build[u].cache \in External /\ build[u].cache \in Caches
         /\ build[u].frame \in Frames
         /\ PoolOf(build[u]) \in {SlabPool, BufctlPool} /\ PoolOf(build[u]) \in Caches
         /\ build[u].cache # PoolOf(build[u]) /\ u # Nobody
<1>1. build[u] \in Builds /\ u # Nobody
  BY CacheAssumption DEF IInv, TypeOK
<1>2. build[u].cache \in External /\ build[u].frame \in Frames
  BY <1>1 DEF Builds
<1>3. QED
  BY <1>1, <1>2, CacheKinds DEF PoolOf

\* The nested call takes the pool's lock.
LEMMA LockPoolStep ==
  ASSUME IInv, NEW cpu \in CPUs, slab_alloc_lock_pool(cpu)
  PROVE  IInv'
<1> DEFINE pool == PoolOf(build[cpu])
<1>1. /\ build[cpu] # NoBuild /\ lock[pool] = Nobody
      /\ lock' = [lock EXCEPT ![pool] = cpu]
      /\ build' = [build EXCEPT ![cpu].inPool = TRUE]
      /\ UNCHANGED <<lists, bufs, refs, hdr, ctls, avail, held, state>>
  BY DEF slab_alloc_lock_pool
<1>2. /\ build[cpu] \in Builds /\ build[cpu].cache \in Caches
      /\ pool \in Caches /\ build[cpu].cache # pool
  BY <1>1, BuildType
<1>3. build'[cpu] = [build[cpu] EXCEPT !.inPool = TRUE] /\ \A u \in CPUs \ {cpu} : build'[u] = build[u]
  BY <1>1 DEF IInv, TypeOK
<1>4. /\ build'[cpu] \in Builds
      /\ build'[cpu].cache = build[cpu].cache /\ build'[cpu].frame = build[cpu].frame
      /\ build'[cpu].hdr = build[cpu].hdr /\ build'[cpu].ctls = build[cpu].ctls
  BY <1>2, <1>3 DEF Builds
<1>5. build'[cpu] # NoBuild
  BY <1>4, NoBuildAssumption
<1>6. TypeOK'
  <2>1. build' \in [CPUs -> Builds \cup {NoBuild}]
    BY <1>1, <1>3, <1>4 DEF IInv, TypeOK
  <2>2. lock' \in [Caches -> CPUs \cup {Nobody}]
    BY <1>1 DEF IInv, TypeOK
  <2>3. QED
    BY <1>1, <2>1, <2>2 DEF IInv, TypeOK
<1>7. PoolOf(build'[cpu]) = pool
  BY <1>4 DEF PoolOf
<1> HIDE DEF pool
<1>8. LocksHeld'
  <2>1. SUFFICES ASSUME NEW u \in CPUs, build'[u] # NoBuild
                 PROVE  /\ lock'[build'[u].cache] = u
                        /\ build'[u].inPool => lock'[PoolOf(build'[u])] = u
    BY DEF LocksHeld, PoolOf
  <2>2. CASE u = cpu
    <3>1. lock'[pool] = cpu
      BY <1>1, <1>2 DEF IInv, TypeOK
    <3>2. lock'[build[cpu].cache] = cpu
      BY <1>1, <1>2 DEF IInv, TypeOK, LocksHeld
    <3>3. QED
      BY <1>4, <1>7, <2>2, <3>1, <3>2
  <2>3. CASE u # cpu
    <3>1. build'[u] = build[u] /\ build[u] # NoBuild
      BY <1>3, <2>1, <2>3
    <3>2. /\ build[u].cache \in Caches /\ PoolOf(build[u]) \in Caches /\ u # Nobody
      BY <3>1, BuildType
    <3>3. QED
      BY <1>1, <2>1, <3>1, <3>2 DEF IInv, TypeOK, LocksHeld
  <2>4. QED
    BY <2>2, <2>3
<1>9. QED
  BY <1>1, <1>3, <1>4, <1>5, <1>6, <1>8, OnlyLocks

\* The nested get_object, whatever the object is for: nobody else had it, and
\* the pool's lock is open again.
LEMMA PoolGetStep ==
  ASSUME IInv, NEW S, S = Gone, NEW cpu \in CPUs, InPool(cpu), NEW o \in Objects,
         NEW pool, pool = PoolOf(build[cpu]), PoolGet(cpu, pool, o),
         build' \in [CPUs -> Builds \cup {NoBuild}],
         \A u \in CPUs \ {cpu} : build'[u] = build[u],
         build'[cpu] \in Builds, ~build'[cpu].inPool,
         build'[cpu].cache = build[cpu].cache, build'[cpu].frame = build[cpu].frame
  PROVE  /\ TypeOK' /\ LocksHeld' /\ Placed' /\ AllSorted' /\ Structures'
         /\ Exact(S \cup {o})' /\ o \notin S
         /\ \A d \in Caches : SlabsOf(d) \subseteq SlabsOf(d)'
         /\ o[1] \in SlabsOf(pool)'
<1>1. build[cpu] # NoBuild /\ build[cpu].inPool
  BY DEF InPool
<1>2. /\ pool \in Caches /\ pool \in {SlabPool, BufctlPool} /\ build[cpu].cache # pool
      /\ build[cpu].cache \in Caches
  BY <1>1, BuildType
<1>3. build'[cpu] # NoBuild
  BY NoBuildAssumption
<1>4. /\ GetHit(pool, o[1], o[2]) \/ GetMiss(pool, o[1], o[2])
      /\ lock' = [lock EXCEPT ![pool] = Nobody]
      /\ UNCHANGED <<hdr, ctls, held, state>>
  BY DEF PoolGet, UnlockPool
<1>5. o[1] \in Frames /\ o[2] \in 1 .. MaxCap /\ o = <<o[1], o[2]>>
  BY DEF Objects
<1>6. /\ Taken(pool, o[1], o[2], S) /\ avail' = avail \ {o[1]}
      /\ o[1] \in avail \/ o[1] \in SlabsOf(pool)
  BY <1>2, <1>4, <1>5, GetEffect
<1>7. /\ SlabsOf(pool)' = SlabsOf(pool) \cup {o[1]}
      /\ \A d \in Caches \ {pool} : SlabsOf(d)' = SlabsOf(d)
  BY <1>6 DEF Taken
<1>8. TypeOK'
  <2>1. lock' \in [Caches -> CPUs \cup {Nobody}]
    BY <1>4 DEF IInv, TypeOK
  <2>2. avail' \in SUBSET Frames
    BY <1>6 DEF IInv, TypeOK
  <2>3. QED
    BY <1>4, <1>6, <2>1, <2>2 DEF IInv, TypeOK, Taken
<1>9. LocksHeld'
  <2>1. SUFFICES ASSUME NEW u \in CPUs, build'[u] # NoBuild
                 PROVE  /\ lock'[build'[u].cache] = u
                        /\ build'[u].inPool => lock'[PoolOf(build'[u])] = u
    BY DEF LocksHeld, PoolOf
  <2>2. CASE u = cpu
    BY <1>1, <1>2, <1>4, <2>2 DEF IInv, TypeOK, LocksHeld
  <2>3. CASE u # cpu
    <3>1. build'[u] = build[u] /\ build[u] # NoBuild
      BY <2>1, <2>3
    <3>2. /\ build[u].cache \in Caches /\ PoolOf(build[u]) \in Caches /\ build[u].cache # pool
      BY <1>2, <3>1, BuildType, CacheKinds
    <3>3. build[u].inPool => PoolOf(build[u]) # pool
      BY <1>1, <2>3, <3>1 DEF IInv, LocksHeld
    <3>4. QED
      BY <1>4, <3>1, <3>2, <3>3 DEF IInv, TypeOK, LocksHeld
  <2>4. QED
    BY <2>2, <2>3
<1>10. Placed'
  <2>1. \A u \in CPUs : /\ build'[u] # NoBuild <=> build[u] # NoBuild
                        /\ build[u] # NoBuild => build'[u].frame = build[u].frame
    BY <1>1, <1>3
  <2>2. QED
    BY <1>2, <1>5, <1>6, <1>7, <2>1, PlacedTake
<1>11. Structures'
  <2>1. \A d \in External : SlabsOf(d)' = SlabsOf(d)
    BY <1>2, <1>7, CacheKinds
  <2>2. QED
    BY <1>4, <2>1 DEF IInv, Structures
<1>12. Exact(S \cup {o})' /\ o \notin S /\ AllSorted'
  BY <1>5, <1>6 DEF Taken
<1>13. QED
  BY <1>7, <1>8, <1>9, <1>10, <1>11, <1>12

\* SLAB_EXTERN: the object becomes the slab structure.
LEMMA SlabStep ==
  ASSUME IInv, NEW cpu \in CPUs, slab_alloc_slab(cpu)
  PROVE  IInv'
<1>1. PICK o \in Objects :
        /\ PoolGet(cpu, SlabPool, o)
        /\ build' = [build EXCEPT ![cpu].hdr = {o}, ![cpu].inPool = FALSE]
  BY DEF slab_alloc_slab
<1>2. InPool(cpu) /\ build[cpu].hdr = {} /\ build[cpu] # NoBuild
  BY DEF slab_alloc_slab, InPool, NoHdr
<1>3. build[cpu] \in Builds /\ PoolOf(build[cpu]) = SlabPool
  BY <1>2, BuildType DEF PoolOf, NoHdr
<1>4. /\ build'[cpu] = [build[cpu] EXCEPT !.hdr = {o}, !.inPool = FALSE]
      /\ \A u \in CPUs \ {cpu} : build'[u] = build[u]
  BY <1>1 DEF IInv, TypeOK
<1>5. /\ build'[cpu] \in Builds /\ ~build'[cpu].inPool
      /\ build'[cpu].cache = build[cpu].cache /\ build'[cpu].frame = build[cpu].frame
      /\ build'[cpu].hdr = {o} /\ build'[cpu].ctls = build[cpu].ctls
  BY <1>3, <1>4 DEF Builds
<1>6. build' \in [CPUs -> Builds \cup {NoBuild}]
  BY <1>1, <1>4, <1>5 DEF IInv, TypeOK
<1>7. PICK S : S = Gone
  OBVIOUS
<1>8. /\ TypeOK' /\ LocksHeld' /\ Placed' /\ AllSorted' /\ Structures'
      /\ Exact(S \cup {o})' /\ o \notin S
      /\ \A d \in Caches : SlabsOf(d) \subseteq SlabsOf(d)'
      /\ o[1] \in SlabsOf(SlabPool)'
  BY <1>1, <1>2, <1>3, <1>4, <1>5, <1>6, <1>7, PoolGetStep
<1>9. UNCHANGED <<hdr, ctls, held>> /\ build'[cpu] # NoBuild
  BY <1>1, <1>5, NoBuildAssumption DEF PoolGet
<1>10. BuildShape'
  BY <1>2, <1>4, <1>5 DEF IInv, BuildShape
<1>11. FromSlabs'
  <2>1. \A u \in CPUs : \A p \in held'[u] : \E d \in Compact \cup External : p[1] \in SlabsOf(d)'
    BY <1>8, <1>9, CacheKinds DEF IInv, FromSlabs
  <2>2. \A u \in CPUs : build'[u] # NoBuild =>
          /\ \A p \in build'[u].hdr : p[1] \in SlabsOf(SlabPool)'
          /\ \A p \in build'[u].ctls : p[1] \in SlabsOf(BufctlPool)'
    BY <1>2, <1>4, <1>5, <1>8, CacheKinds DEF IInv, FromSlabs
  <2>3. QED
    BY <1>8, <1>9, <2>1, <2>2, CacheKinds DEF IInv, FromSlabs
<1>12. OneOwner'
  <2>1. /\ \A f \in Frames : o \notin hdr[f]
        /\ \A u \in CPUs : build[u] # NoBuild => o \notin build[u].hdr
    BY <1>7, <1>8 DEF Gone
  <2>2. \A u \in CPUs \ {cpu} : build'[u] = build[u]
    BY <1>4
  <2>3. \A u, v \in CPUs : u # v /\ build'[u] # NoBuild /\ build'[v] # NoBuild =>
          build'[u].hdr \cap build'[v].hdr = {}
    <3>1. SUFFICES ASSUME NEW u \in CPUs, NEW v \in CPUs, u # v,
                          build'[u] # NoBuild, build'[v] # NoBuild,
                          NEW p \in build'[u].hdr, p \in build'[v].hdr
                   PROVE  FALSE
      OBVIOUS
    <3>2. build[u] # NoBuild /\ build[v] # NoBuild
      BY <1>2, <2>2, <3>1
    <3>3. build[u].hdr \cap build[v].hdr = {} /\ o \notin build[u].hdr /\ o \notin build[v].hdr
      BY <2>1, <3>1, <3>2 DEF IInv, OneOwner
    <3>4. CASE u = cpu
      BY <1>2, <1>5, <2>2, <3>1, <3>3, <3>4
    <3>5. CASE v = cpu
      BY <1>2, <1>5, <2>2, <3>1, <3>3, <3>5
    <3>6. CASE u # cpu /\ v # cpu
      BY <2>2, <3>1, <3>3, <3>6
    <3>7. QED
      BY <3>4, <3>5, <3>6
  <2>4. \A u, v \in CPUs : u # v /\ build'[u] # NoBuild /\ build'[v] # NoBuild =>
          build'[u].ctls \cap build'[v].ctls = {}
    <3>1. \A u \in CPUs : build'[u] # NoBuild => build[u] # NoBuild /\ build'[u].ctls = build[u].ctls
      BY <1>2, <1>5, <2>2
    <3>2. QED
      BY <3>1 DEF IInv, OneOwner
  <2>5. \A f \in Frames, u \in CPUs : build'[u] # NoBuild =>
          hdr[f] \cap build'[u].hdr = {} /\ ctls[f] \cap build'[u].ctls = {}
    <3>1. SUFFICES ASSUME NEW f \in Frames, NEW u \in CPUs, build'[u] # NoBuild
                   PROVE  hdr[f] \cap build'[u].hdr = {} /\ ctls[f] \cap build'[u].ctls = {}
      OBVIOUS
    <3>2. hdr[f] \cap build[u].hdr = {} /\ ctls[f] \cap build[u].ctls = {} /\ o \notin hdr[f]
      BY <1>2, <2>1, <2>2, <3>1 DEF IInv, OneOwner
    <3>3. CASE u = cpu
      BY <1>2, <1>5, <3>2, <3>3
    <3>4. CASE u # cpu
      BY <2>2, <3>2, <3>4
    <3>5. QED
      BY <3>3, <3>4
  <2>6. /\ \A u, v \in CPUs : u # v => held'[u] \cap held'[v] = {}
        /\ \A f, g \in Frames : f # g => hdr'[f] \cap hdr'[g] = {} /\ ctls'[f] \cap ctls'[g] = {}
    BY <1>9 DEF IInv, OneOwner
  <2>7. QED
    BY <1>9, <2>3, <2>4, <2>5, <2>6 DEF OneOwner
<1>13. Gone' = S \cup {o}
  BY <1>2, <1>4, <1>5, <1>7, <1>9 DEF Gone
<1>14. Exact(Gone)'
  BY <1>8, <1>13 DEF Exact
<1>15. QED
  BY <1>8, <1>10, <1>11, <1>12, <1>14 DEF IInv

\* BUFCTL_EXTERN: the object becomes one more bufctl.
LEMMA BufctlStep ==
  ASSUME IInv, NEW cpu \in CPUs, slab_alloc_bufctl(cpu)
  PROVE  IInv'
<1>1. PICK o \in Objects :
        /\ PoolGet(cpu, BufctlPool, o)
        /\ build' = [build EXCEPT ![cpu].ctls = @ \cup {o}, ![cpu].inPool = FALSE]
  BY DEF slab_alloc_bufctl
<1>2. InPool(cpu) /\ PoolOf(build[cpu]) = BufctlPool /\ build[cpu] # NoBuild
  BY DEF slab_alloc_bufctl, InPool
<1>3. build[cpu] \in Builds /\ build[cpu].hdr # {} /\ Cap[build[cpu].cache] # 0
  BY <1>2, BuildType, CacheKinds DEF PoolOf, NoHdr
<1>4. /\ build'[cpu] = [build[cpu] EXCEPT !.ctls = @ \cup {o}, !.inPool = FALSE]
      /\ \A u \in CPUs \ {cpu} : build'[u] = build[u]
  BY <1>1 DEF IInv, TypeOK
<1>5. /\ build'[cpu] \in Builds /\ ~build'[cpu].inPool
      /\ build'[cpu].cache = build[cpu].cache /\ build'[cpu].frame = build[cpu].frame
      /\ build'[cpu].hdr = build[cpu].hdr /\ build'[cpu].ctls = build[cpu].ctls \cup {o}
  <2> DEFINE n == build[cpu].ctls \cup {o}
  <2>1. n \in SUBSET Objects
    BY <1>3 DEF Builds
  <2>2. build'[cpu] = [build[cpu] EXCEPT !.ctls = n, !.inPool = FALSE]
    BY <1>3, <1>4 DEF Builds
  <2> HIDE DEF n
  <2>3. /\ build'[cpu] \in Builds /\ ~build'[cpu].inPool
        /\ build'[cpu].cache = build[cpu].cache /\ build'[cpu].frame = build[cpu].frame
        /\ build'[cpu].hdr = build[cpu].hdr /\ build'[cpu].ctls = n
    BY <1>3, <2>1, <2>2 DEF Builds
  <2>4. QED
    BY <2>3 DEF n
<1>6. build' \in [CPUs -> Builds \cup {NoBuild}]
  BY <1>1, <1>4, <1>5 DEF IInv, TypeOK
<1>7. PICK S : S = Gone
  OBVIOUS
<1>8. /\ TypeOK' /\ LocksHeld' /\ Placed' /\ AllSorted' /\ Structures'
      /\ Exact(S \cup {o})' /\ o \notin S
      /\ \A d \in Caches : SlabsOf(d) \subseteq SlabsOf(d)'
      /\ o[1] \in SlabsOf(BufctlPool)'
  BY <1>1, <1>2, <1>4, <1>5, <1>6, <1>7, PoolGetStep
<1>9. UNCHANGED <<hdr, ctls, held>> /\ build'[cpu] # NoBuild
  BY <1>1, <1>5, NoBuildAssumption DEF PoolGet
<1>10. BuildShape'
  <2>1. IsFiniteSet(build[cpu].ctls \cup {o})
    BY <1>2, FS_AddElement DEF IInv, BuildShape
  <2>2. SUFFICES ASSUME NEW u \in CPUs, build'[u] # NoBuild
                 PROVE  /\ build'[u].hdr = {} \/ \E p \in Objects : build'[u].hdr = {p}
                        /\ IsFiniteSet(build'[u].ctls)
                        /\ build'[u].ctls # {} => build'[u].hdr # {} /\ Cap[build'[u].cache] # 0
    BY DEF BuildShape
  <2>3. CASE u = cpu
    <3>1. build[cpu].hdr = {} \/ \E p \in Objects : build[cpu].hdr = {p}
      BY <1>2 DEF IInv, BuildShape
    <3>2. QED
      BY <1>3, <1>5, <2>1, <2>3, <3>1
  <2>4. CASE u # cpu
    <3>1. build'[u] = build[u]
      BY <1>4, <2>4
    <3>2. QED
      BY <2>2, <3>1 DEF IInv, BuildShape
  <2>5. QED
    BY <2>3, <2>4
<1>11. FromSlabs'
  <2>1. \A u \in CPUs : \A p \in held'[u] : \E d \in Compact \cup External : p[1] \in SlabsOf(d)'
    BY <1>8, <1>9, CacheKinds DEF IInv, FromSlabs
  <2>2. \A u \in CPUs : build'[u] # NoBuild =>
          /\ \A p \in build'[u].hdr : p[1] \in SlabsOf(SlabPool)'
          /\ \A p \in build'[u].ctls : p[1] \in SlabsOf(BufctlPool)'
    BY <1>2, <1>4, <1>5, <1>8, CacheKinds DEF IInv, FromSlabs
  <2>3. QED
    BY <1>8, <1>9, <2>1, <2>2, CacheKinds DEF IInv, FromSlabs
<1>12. OneOwner'
  <2>1. /\ \A f \in Frames : o \notin ctls[f]
        /\ \A u \in CPUs : build[u] # NoBuild => o \notin build[u].ctls
    BY <1>7, <1>8 DEF Gone
  <2>2. \A u \in CPUs \ {cpu} : build'[u] = build[u]
    BY <1>4
  <2>3. \A u, v \in CPUs : u # v /\ build'[u] # NoBuild /\ build'[v] # NoBuild =>
          build'[u].ctls \cap build'[v].ctls = {}
    <3>1. SUFFICES ASSUME NEW u \in CPUs, NEW v \in CPUs, u # v,
                          build'[u] # NoBuild, build'[v] # NoBuild,
                          NEW p \in build'[u].ctls, p \in build'[v].ctls
                   PROVE  FALSE
      OBVIOUS
    <3>2. build[u] # NoBuild /\ build[v] # NoBuild
      BY <1>2, <2>2, <3>1
    <3>3. build[u].ctls \cap build[v].ctls = {} /\ o \notin build[u].ctls /\ o \notin build[v].ctls
      BY <2>1, <3>1, <3>2 DEF IInv, OneOwner
    <3>4. CASE u = cpu
      BY <1>2, <1>5, <2>2, <3>1, <3>3, <3>4
    <3>5. CASE v = cpu
      BY <1>2, <1>5, <2>2, <3>1, <3>3, <3>5
    <3>6. CASE u # cpu /\ v # cpu
      BY <2>2, <3>1, <3>3, <3>6
    <3>7. QED
      BY <3>4, <3>5, <3>6
  <2>4. \A u, v \in CPUs : u # v /\ build'[u] # NoBuild /\ build'[v] # NoBuild =>
          build'[u].hdr \cap build'[v].hdr = {}
    <3>1. \A u \in CPUs : build'[u] # NoBuild => build[u] # NoBuild /\ build'[u].hdr = build[u].hdr
      BY <1>2, <1>5, <2>2
    <3>2. QED
      BY <3>1 DEF IInv, OneOwner
  <2>5. \A f \in Frames, u \in CPUs : build'[u] # NoBuild =>
          hdr[f] \cap build'[u].hdr = {} /\ ctls[f] \cap build'[u].ctls = {}
    <3>1. SUFFICES ASSUME NEW f \in Frames, NEW u \in CPUs, build'[u] # NoBuild
                   PROVE  hdr[f] \cap build'[u].hdr = {} /\ ctls[f] \cap build'[u].ctls = {}
      OBVIOUS
    <3>2. hdr[f] \cap build[u].hdr = {} /\ ctls[f] \cap build[u].ctls = {} /\ o \notin ctls[f]
      BY <1>2, <2>1, <2>2, <3>1 DEF IInv, OneOwner
    <3>3. CASE u = cpu
      BY <1>2, <1>5, <3>2, <3>3
    <3>4. CASE u # cpu
      BY <2>2, <3>2, <3>4
    <3>5. QED
      BY <3>3, <3>4
  <2>6. /\ \A u, v \in CPUs : u # v => held'[u] \cap held'[v] = {}
        /\ \A f, g \in Frames : f # g => hdr'[f] \cap hdr'[g] = {} /\ ctls'[f] \cap ctls'[g] = {}
    BY <1>9 DEF IInv, OneOwner
  <2>7. QED
    BY <1>9, <2>3, <2>4, <2>5, <2>6 DEF OneOwner
<1>13. Gone' = S \cup {o}
  BY <1>2, <1>4, <1>5, <1>7, <1>9 DEF Gone
<1>14. Exact(Gone)'
  BY <1>8, <1>13 DEF Exact
<1>15. QED
  BY <1>8, <1>10, <1>11, <1>12, <1>14 DEF IInv

\* The nested get_object halts: nothing but the CPU's state changes.
LEMMA PoolFaultStep ==
  ASSUME IInv, NEW cpu \in CPUs, slab_alloc_fault(cpu)
  PROVE  IInv'
<1>1. /\ state' = [state EXCEPT ![cpu] = "halted"]
      /\ UNCHANGED <<lock, lists, bufs, refs, hdr, ctls, avail, build, held>>
  BY DEF slab_alloc_fault
<1>2. TypeOK' /\ LocksHeld'
  BY <1>1 DEF IInv, TypeOK, LocksHeld
<1>3. QED
  BY <1>1, <1>2, OnlyLocks

\* The finished slab joins its cache, with its structures, and gives its first
\* object to the CPU that built it.
LEMMA DoneStep ==
  ASSUME IInv, NEW cpu \in CPUs, slab_alloc_done(cpu)
  PROVE  IInv'
<1>0. PICK b, c, f : b = build[cpu] /\ c = b.cache /\ f = b.frame
  OBVIOUS
<1> DEFINE L == [lists[c] EXCEPT !.free = @ \cup {f}]
           B == [bufs EXCEPT ![f] = 1 .. Cap[c]]
           R == [refs EXCEPT ![f] = 0]
<1>1. PICK i \in 1 .. Cap[c] :
        SlabGetObject(c, L, B, R, f, i) /\ held' = [held EXCEPT ![cpu] = @ \cup {<<f, i>>}]
  BY <1>0 DEF slab_alloc_done, Received
<1>2. /\ b # NoBuild /\ Complete(b)
      /\ hdr' = [hdr EXCEPT ![f] = b.hdr] /\ ctls' = [ctls EXCEPT ![f] = b.ctls]
      /\ lock' = [lock EXCEPT ![c] = Nobody]
      /\ build' = [build EXCEPT ![cpu] = NoBuild]
      /\ UNCHANGED <<avail, state>>
  BY <1>0 DEF slab_alloc_done
<1>3. /\ b \in Builds /\ c \in External /\ c \in Caches /\ f \in Frames
      /\ b.hdr \in SUBSET Objects /\ b.ctls \in SUBSET Objects
  BY <1>0, <1>2, BuildType DEF Builds
<1>4. PICK S : S = Gone
  OBVIOUS
<1>5. f \notin avail /\ \A d \in Caches : f \notin SlabsOf(d)
  BY <1>0, <1>2 DEF IInv, Placed
<1>6. lists[c] \in Lists /\ Apart(lists[c])
  BY <1>3 DEF IInv, TypeOK, AllSorted
<1>7. Cap[c] \in Nat /\ 1 .. Cap[c] \in SUBSET Nat /\ i \in 1 .. MaxCap
  BY <1>3, CacheAssumption, MaxCapBounds
<1>8. Taken(c, f, i, S)
  <2>1. /\ L.free = lists[c].free \cup {f} /\ L.used = lists[c].used /\ L.full = lists[c].full
        /\ L \in Lists
    BY <1>3, <1>6 DEF Lists
  <2>2. Apart(L) /\ f \in Members(L) /\ Members(L) = SlabsOf(c) \cup {f}
    BY <1>3, <1>5, <1>6, <2>1 DEF Apart, Members, SlabsOf
  <2>3. B \in [Frames -> SUBSET Nat] /\ R \in [Frames -> Nat] /\ B[f] = 1 .. Cap[c] /\ R[f] = 0
    BY <1>3, <1>7 DEF IInv, TypeOK
  <2>4. \A g \in Frames \ {f} : B[g] = bufs[g] /\ R[g] = refs[g]
    BY DEF IInv, TypeOK
  <2>5. OutOf(S, f) = {}
    BY <1>4, <1>5, NoneOutOf DEF IInv
  <2>6. Whole(Cap[c], B[f], R[f], OutOf(S, f))
    BY <1>7, <2>3, <2>5, WholeNew
  <2>7. \A d \in Caches : \A g \in SlabsOf(d) \ {f} :
          Whole(Cap[d], bufs[g], refs[g], OutOf(S, g))
    BY <1>4 DEF IInv, Exact
  <2>8. \A d \in Caches \ {c} : f \notin SlabsOf(d)
    BY <1>5
  <2>9. TypeOK /\ AllSorted /\ SlabGetObject(c, L, B, R, f, i)
    BY <1>1 DEF IInv
  <2> HIDE DEF L, B, R
  <2>10. QED
    BY <1>3, <1>7, <2>1, <2>2, <2>3, <2>4, <2>6, <2>7, <2>8, <2>9, TakeStep
<1>9. /\ SlabsOf(c)' = SlabsOf(c) \cup {f} /\ \A d \in Caches \ {c} : SlabsOf(d)' = SlabsOf(d)
      /\ <<f, i>> \notin S
  BY <1>8 DEF Taken
<1> DEFINE o == <<f, i>>
<1>10. o \in Objects /\ o[1] = f
  BY <1>3, <1>7 DEF Objects
<1>11. hdr[f] = {} /\ ctls[f] = {}
  BY <1>3, <1>5, CacheKinds DEF IInv, Structures
<1>12. /\ held'[cpu] = held[cpu] \cup {o} /\ \A u \in CPUs \ {cpu} : held'[u] = held[u]
       /\ held' \in [CPUs -> SUBSET Objects]
  <2>1. held \in [CPUs -> SUBSET Objects] /\ held' = [held EXCEPT ![cpu] = @ \cup {o}]
    BY <1>1 DEF IInv, TypeOK
  <2> HIDE DEF o
  <2>2. QED
    BY <1>10, <2>1
<1>13. /\ build'[cpu] = NoBuild /\ \A u \in CPUs \ {cpu} : build'[u] = build[u]
       /\ build' \in [CPUs -> Builds \cup {NoBuild}]
  BY <1>0, <1>2 DEF IInv, TypeOK
<1>14. /\ hdr'[f] = b.hdr /\ \A g \in Frames \ {f} : hdr'[g] = hdr[g]
       /\ ctls'[f] = b.ctls /\ \A g \in Frames \ {f} : ctls'[g] = ctls[g]
       /\ hdr' \in [Frames -> SUBSET Objects] /\ ctls' \in [Frames -> SUBSET Objects]
  <2>1. hdr \in [Frames -> SUBSET Objects] /\ ctls \in [Frames -> SUBSET Objects]
    BY DEF IInv, TypeOK
  <2>2. QED
    BY <1>2, <1>3, <2>1
<1> HIDE DEF o, L, B, R
<1>15. TypeOK'
  <2>1. lock' \in [Caches -> CPUs \cup {Nobody}]
    BY <1>2 DEF IInv, TypeOK
  <2>2. QED
    BY <1>2, <1>8, <1>12, <1>13, <1>14, <2>1 DEF IInv, TypeOK, Taken
<1>16. LocksHeld'
  <2>1. SUFFICES ASSUME NEW u \in CPUs, build'[u] # NoBuild
                 PROVE  /\ lock'[build'[u].cache] = u
                        /\ build'[u].inPool => lock'[PoolOf(build'[u])] = u
    BY DEF LocksHeld, PoolOf
  <2>2. u # cpu /\ build'[u] = build[u] /\ build[u] # NoBuild
    BY <1>13, <2>1
  <2>3. build[u].cache \in Caches /\ PoolOf(build[u]) \in Caches /\ PoolOf(build[u]) # c
    BY <1>3, <2>2, BuildType, CacheKinds
  <2>4. build[u].cache # c
    BY <1>0, <1>2, <2>2 DEF IInv, LocksHeld
  <2>5. QED
    BY <1>2, <2>2, <2>3, <2>4 DEF IInv, TypeOK, LocksHeld
<1>17. BuildShape'
  BY <1>13 DEF IInv, BuildShape
<1>18. Placed'
  <2>1. \A u \in CPUs \ {cpu} : build[u] # NoBuild => build[u].frame # f
    BY <1>0, <1>2 DEF IInv, Placed
  <2>2. \A g \in Frames :
          \/ g \in avail'
          \/ \E d \in Caches : g \in SlabsOf(d)'
          \/ \E u \in CPUs : build'[u] # NoBuild /\ build'[u].frame = g
    <3>1. SUFFICES ASSUME NEW g \in Frames, g \notin avail, ~(\E d \in Caches : g \in SlabsOf(d)')
                   PROVE  \E u \in CPUs : build'[u] # NoBuild /\ build'[u].frame = g
      BY <1>2
    <3>2. g # f /\ ~(\E d \in Caches : g \in SlabsOf(d))
      BY <1>3, <1>9, <3>1
    <3>3. PICK u \in CPUs : build[u] # NoBuild /\ build[u].frame = g
      BY <3>1, <3>2 DEF IInv, Placed
    <3>4. u # cpu
      BY <1>0, <3>2, <3>3
    <3>5. QED
      BY <1>13, <3>3, <3>4
  <2>3. \A u \in CPUs : build'[u] # NoBuild =>
          /\ build'[u].frame \notin avail'
          /\ \A d \in Caches : build'[u].frame \notin SlabsOf(d)'
    BY <1>2, <1>9, <1>13, <2>1 DEF IInv, Placed
  <2>4. \A u, v \in CPUs :
          build'[u] # NoBuild /\ build'[v] # NoBuild /\ build'[u].frame = build'[v].frame => u = v
    BY <1>13 DEF IInv, Placed
  <2>5. \A d, e \in Caches : d # e => SlabsOf(d)' \cap SlabsOf(e)' = {}
    BY <1>5, <1>9 DEF IInv, Placed
  <2>6. \A d \in Caches : avail' \cap SlabsOf(d)' = {}
    BY <1>2, <1>5, <1>9 DEF IInv, Placed
  <2>7. QED
    BY <2>2, <2>3, <2>4, <2>5, <2>6 DEF Placed
<1>19. Structures'
  <2>1. Cardinality(b.hdr) = 1 /\ Cardinality(b.ctls) = Cap[c]
    <3>1. Cap[c] > 0 /\ Cardinality(b.ctls) = Cap[c]
      BY <1>0, <1>2 DEF Complete
    <3>2. b.ctls # {}
      BY <1>7, <3>1, FS_EmptySet
    <3>3. \E p \in Objects : b.hdr = {p}
      BY <1>0, <1>2, <3>2 DEF IInv, BuildShape
    <3>4. QED
      BY <3>1, <3>3, FS_Singleton
  <2>2. ASSUME NEW d \in External, NEW g \in SlabsOf(d)'
        PROVE  Cardinality(hdr'[g]) = 1 /\ Cardinality(ctls'[g]) = Cap[d]
    <3>1. CASE g = f
      <4>1. d = c
        BY <1>5, <1>9, <2>2, <3>1, CacheKinds
      <4>2. QED
        BY <1>14, <2>1, <3>1, <4>1
    <3>2. CASE g # f
      <4>1. g \in SlabsOf(d)
        BY <1>9, <2>2, <3>2, CacheKinds
      <4>2. g \in Frames
        BY <4>1, CacheKinds DEF IInv, TypeOK, Lists, SlabsOf
      <4>3. QED
        BY <1>14, <3>2, <4>1, <4>2 DEF IInv, Structures
    <3>3. QED
      BY <3>1, <3>2
  <2>3. ASSUME NEW g \in Frames, \A d \in External : g \notin SlabsOf(d)'
        PROVE  hdr'[g] = {} /\ ctls'[g] = {}
    <3>1. g # f /\ \A d \in External : g \notin SlabsOf(d)
      BY <1>3, <1>9, <2>3, CacheKinds
    <3>2. QED
      BY <1>14, <3>1 DEF IInv, Structures
  <2>4. QED
    BY <2>2, <2>3 DEF Structures
<1>20. \A d \in Caches : SlabsOf(d) \subseteq SlabsOf(d)'
  BY <1>9
<1>21. FromSlabs'
  <2>1. ASSUME NEW u \in CPUs, NEW p \in held'[u]
        PROVE  \E d \in Compact \cup External : p[1] \in SlabsOf(d)'
    <3>1. CASE p = o
      BY <1>3, <1>9, <1>10, <3>1
    <3>2. CASE p # o
      <4>1. p \in held[u]
        BY <1>12, <2>1, <3>2
      <4>2. PICK d \in Compact \cup External : p[1] \in SlabsOf(d)
        BY <4>1 DEF IInv, FromSlabs
      <4>3. QED
        BY <1>20, <4>2, CacheKinds
    <3>3. QED
      BY <3>1, <3>2
  <2>2. ASSUME NEW g \in Frames
        PROVE  /\ \A p \in hdr'[g] : p[1] \in SlabsOf(SlabPool)'
               /\ \A p \in ctls'[g] : p[1] \in SlabsOf(BufctlPool)'
    <3>1. CASE g = f
      BY <1>0, <1>2, <1>14, <1>20, <3>1, CacheKinds DEF IInv, FromSlabs
    <3>2. CASE g # f
      BY <1>14, <1>20, <3>2, CacheKinds DEF IInv, FromSlabs
    <3>3. QED
      BY <3>1, <3>2
  <2>3. \A u \in CPUs : build'[u] # NoBuild =>
          /\ \A p \in build'[u].hdr : p[1] \in SlabsOf(SlabPool)'
          /\ \A p \in build'[u].ctls : p[1] \in SlabsOf(BufctlPool)'
    BY <1>13, <1>20, CacheKinds DEF IInv, FromSlabs
  <2>4. QED
    BY <2>1, <2>2, <2>3 DEF FromSlabs
<1>22. OneOwner'
  <2>1. \A u \in CPUs : o \notin held[u]
    BY <1>4, <1>9, <1>10 DEF Gone, o
  <2>2. \A u, v \in CPUs : u # v => held'[u] \cap held'[v] = {}
    BY <1>12, <2>1 DEF IInv, OneOwner
  <2>3. ASSUME NEW g \in Frames, NEW h \in Frames, g # h
        PROVE  hdr'[g] \cap hdr'[h] = {} /\ ctls'[g] \cap ctls'[h] = {}
    <3>1. CASE g = f
      BY <1>0, <1>2, <1>14, <2>3, <3>1 DEF IInv, OneOwner
    <3>2. CASE h = f
      BY <1>0, <1>2, <1>14, <2>3, <3>2 DEF IInv, OneOwner
    <3>3. CASE g # f /\ h # f
      BY <1>14, <2>3, <3>3 DEF IInv, OneOwner
    <3>4. QED
      BY <3>1, <3>2, <3>3
  <2>4. \A u, v \in CPUs : u # v /\ build'[u] # NoBuild /\ build'[v] # NoBuild =>
          build'[u].hdr \cap build'[v].hdr = {} /\ build'[u].ctls \cap build'[v].ctls = {}
    BY <1>13 DEF IInv, OneOwner
  <2>5. ASSUME NEW g \in Frames, NEW u \in CPUs, build'[u] # NoBuild
        PROVE  hdr'[g] \cap build'[u].hdr = {} /\ ctls'[g] \cap build'[u].ctls = {}
    <3>1. u # cpu /\ build'[u] = build[u] /\ build[u] # NoBuild
      BY <1>13, <2>5
    <3>2. CASE g = f
      BY <1>0, <1>2, <1>14, <3>1, <3>2 DEF IInv, OneOwner
    <3>3. CASE g # f
      BY <1>14, <3>1, <3>3 DEF IInv, OneOwner
    <3>4. QED
      BY <3>2, <3>3
  <2>6. QED
    BY <2>2, <2>3, <2>4, <2>5 DEF OneOwner
<1>23. Gone' = S \cup {o}
  <2>1. ASSUME NEW p \in Objects
        PROVE  (\E u \in CPUs : p \in held'[u]) <=> (\E u \in CPUs : p \in held[u]) \/ p = o
    BY <1>12
  <2>2. ASSUME NEW p \in Objects
        PROVE  (\E g \in Frames : p \in hdr'[g] \/ p \in ctls'[g])
                 <=> (\E g \in Frames : p \in hdr[g] \/ p \in ctls[g]) \/ p \in b.hdr \/ p \in b.ctls
    BY <1>3, <1>11, <1>14
  <2>3. ASSUME NEW p \in Objects
        PROVE  (\E u \in CPUs : build[u] # NoBuild /\ (p \in build[u].hdr \/ p \in build[u].ctls))
                 <=> \/ \E u \in CPUs : build'[u] # NoBuild /\ (p \in build'[u].hdr \/ p \in build'[u].ctls)
                     \/ p \in b.hdr \/ p \in b.ctls
    BY <1>0, <1>2, <1>13
  <2>4. QED
    BY <1>4, <1>10, <2>1, <2>2, <2>3 DEF Gone
<1>24. Exact(Gone)'
  BY <1>8, <1>23 DEF Taken, Exact, o
<1>25. QED
  BY <1>8, <1>15, <1>16, <1>17, <1>18, <1>19, <1>21, <1>22, <1>24 DEF IInv, Taken

\* A cache whose objects do not fit: the slab structure goes back to its pool and
\* the frame to physmm.
LEMMA NoBufctlStep ==
  ASSUME IInv, NEW cpu \in CPUs, slab_alloc_no_bufctl(cpu)
  PROVE  IInv'
<1>0. PICK b, f : b = build[cpu] /\ f = b.frame
  OBVIOUS
<1>1. PICK o \in b.hdr : SlabPutObject(SlabPool, o)
  BY <1>0 DEF slab_alloc_no_bufctl
<1>2. /\ b # NoBuild /\ b.inPool /\ Cap[b.cache] = 0
      /\ lock' = [lock EXCEPT ![PoolOf(b)] = Nobody]
      /\ avail' = avail \cup {f}
      /\ build' = [build EXCEPT ![cpu] = NoBuild]
      /\ UNCHANGED <<hdr, ctls, held, state>>
  BY <1>0 DEF slab_alloc_no_bufctl, InPool, UnlockPool, BackingFree
<1>3. /\ b \in Builds /\ f \in Frames /\ b.hdr \in SUBSET Objects
      /\ PoolOf(b) = SlabPool
  BY <1>0, <1>2, BuildType DEF Builds, PoolOf
<1>4. PICK S : S = Gone
  OBVIOUS
<1>5. o \in Objects /\ o \in S /\ o[1] \in SlabsOf(SlabPool)
  BY <1>0, <1>2, <1>3, <1>4 DEF IInv, FromSlabs, Gone
<1>6. /\ lists' \in [Caches -> Lists]
      /\ bufs' \in [Frames -> SUBSET Nat] /\ refs' \in [Frames -> Nat]
      /\ \A d \in Caches : SlabsOf(d)' = SlabsOf(d)
      /\ AllSorted'
      /\ Exact(S \ {o})'
  <2>1. TypeOK /\ Placed /\ AllSorted /\ Exact(S)
    BY <1>4 DEF IInv
  <2>2. QED
    BY <1>1, <1>5, <2>1, CacheKinds, GiveStep
<1>7. /\ build'[cpu] = NoBuild /\ \A u \in CPUs \ {cpu} : build'[u] = build[u]
      /\ build' \in [CPUs -> Builds \cup {NoBuild}]
  BY <1>2 DEF IInv, TypeOK
<1>8. b.hdr = {o} /\ b.ctls = {}
  BY <1>0, <1>1, <1>2 DEF IInv, BuildShape
<1>9. TypeOK'
  <2>1. lock' \in [Caches -> CPUs \cup {Nobody}]
    BY <1>2 DEF IInv, TypeOK
  <2>2. avail' \in SUBSET Frames
    BY <1>2, <1>3 DEF IInv, TypeOK
  <2>3. QED
    BY <1>2, <1>6, <1>7, <2>1, <2>2 DEF IInv, TypeOK
<1>10. LocksHeld'
  <2>1. SUFFICES ASSUME NEW u \in CPUs, build'[u] # NoBuild
                 PROVE  /\ lock'[build'[u].cache] = u
                        /\ build'[u].inPool => lock'[PoolOf(build'[u])] = u
    BY DEF LocksHeld, PoolOf
  <2>2. u # cpu /\ build'[u] = build[u] /\ build[u] # NoBuild
    BY <1>7, <2>1
  <2>3. build[u].cache \in Caches /\ PoolOf(build[u]) \in Caches /\ build[u].cache # SlabPool
    BY <2>2, BuildType, CacheKinds
  <2>4. build[u].inPool => PoolOf(build[u]) # SlabPool
    BY <1>0, <1>2, <1>3, <2>2 DEF IInv, LocksHeld
  <2>5. QED
    BY <1>2, <1>3, <2>2, <2>3, <2>4 DEF IInv, TypeOK, LocksHeld
<1>11. BuildShape'
  BY <1>7 DEF IInv, BuildShape
<1>12. Placed'
  <2>1. /\ \A d \in Caches : f \notin SlabsOf(d)
        /\ \A u \in CPUs \ {cpu} : build[u] # NoBuild => build[u].frame # f
    BY <1>0, <1>2 DEF IInv, Placed
  <2>2. \A g \in Frames :
          \/ g \in avail'
          \/ \E d \in Caches : g \in SlabsOf(d)'
          \/ \E u \in CPUs : build'[u] # NoBuild /\ build'[u].frame = g
    <3>1. SUFFICES ASSUME NEW g \in Frames, g \notin avail', ~(\E d \in Caches : g \in SlabsOf(d)')
                   PROVE  \E u \in CPUs : build'[u] # NoBuild /\ build'[u].frame = g
      OBVIOUS
    <3>2. g # f /\ g \notin avail /\ ~(\E d \in Caches : g \in SlabsOf(d))
      BY <1>2, <1>6, <3>1
    <3>3. PICK u \in CPUs : build[u] # NoBuild /\ build[u].frame = g
      BY <3>2 DEF IInv, Placed
    <3>4. QED
      BY <1>0, <1>7, <3>2, <3>3
  <2>3. \A u \in CPUs : build'[u] # NoBuild =>
          /\ build'[u].frame \notin avail'
          /\ \A d \in Caches : build'[u].frame \notin SlabsOf(d)'
    BY <1>2, <1>6, <1>7, <2>1 DEF IInv, Placed
  <2>4. \A u, v \in CPUs :
          build'[u] # NoBuild /\ build'[v] # NoBuild /\ build'[u].frame = build'[v].frame => u = v
    BY <1>7 DEF IInv, Placed
  <2>5. /\ \A d, e \in Caches : d # e => SlabsOf(d)' \cap SlabsOf(e)' = {}
        /\ \A d \in Caches : avail' \cap SlabsOf(d)' = {}
    BY <1>2, <1>6, <2>1 DEF IInv, Placed
  <2>6. QED
    BY <2>2, <2>3, <2>4, <2>5 DEF Placed
<1>13. Structures'
  BY <1>2, <1>6, CacheKinds DEF IInv, Structures
<1>14. FromSlabs'
  <2>1. \A u \in CPUs : \A p \in held'[u] : \E d \in Compact \cup External : p[1] \in SlabsOf(d)'
    BY <1>2, <1>6, CacheKinds DEF IInv, FromSlabs
  <2>2. QED
    BY <1>2, <1>6, <1>7, <2>1, CacheKinds DEF IInv, FromSlabs
<1>15. OneOwner'
  BY <1>2, <1>7 DEF IInv, OneOwner
<1>16. Gone' = S \ {o}
  <2>1. /\ \A u \in CPUs \ {cpu} : build[u] # NoBuild => o \notin build[u].hdr
        /\ \A g \in Frames : o \notin hdr[g]
    BY <1>0, <1>2 DEF IInv, OneOwner
  <2>2. \A d \in Caches : d # SlabPool => o[1] \notin SlabsOf(d)
    BY <1>5, CacheKinds DEF IInv, Placed
  <2>3. /\ \A u \in CPUs : o \notin held[u]
        /\ \A g \in Frames : o \notin ctls[g]
        /\ \A u \in CPUs : build[u] # NoBuild => o \notin build[u].ctls
    BY <2>2, CacheKinds DEF IInv, FromSlabs
  <2>4. ASSUME NEW p \in Objects
        PROVE  (\E u \in CPUs : build'[u] # NoBuild /\ (p \in build'[u].hdr \/ p \in build'[u].ctls))
                 <=> /\ \E u \in CPUs : build[u] # NoBuild /\ (p \in build[u].hdr \/ p \in build[u].ctls)
                     /\ p # o
    BY <1>0, <1>2, <1>7, <1>8, <2>1, <2>3
  <2>5. QED
    BY <1>2, <1>4, <2>1, <2>3, <2>4 DEF Gone
<1>17. Exact(Gone)'
  BY <1>6, <1>16 DEF Exact
<1>18. QED
  BY <1>6, <1>9, <1>10, <1>11, <1>12, <1>13, <1>14, <1>15, <1>17 DEF IInv

-----------------------------------------------------------------------------
(* The invariant *)

\* At first physmm has every frame and the caches have no slab.
LEMMA IInvInit == Init => IInv
<1> SUFFICES ASSUME Init PROVE IInv
  OBVIOUS
<1>1. \A c \in Caches : lists[c].free = {} /\ lists[c].used = {} /\ lists[c].full = {}
  BY DEF Init
<1>2. \A c \in Caches : SlabsOf(c) = {}
  BY <1>1 DEF SlabsOf
<1>3. \A u \in CPUs : build[u] = NoBuild /\ held[u] = {}
  BY DEF Init
<1>4. \A f \in Frames : hdr[f] = {} /\ ctls[f] = {}
  BY DEF Init
<1>5. TypeOK
  BY DEF Init, TypeOK, Lists
<1>6. LocksHeld /\ BuildShape
  BY <1>3 DEF LocksHeld, BuildShape
<1>7. Placed
  BY <1>2, <1>3 DEF Placed, Init
<1>8. AllSorted
  BY <1>1 DEF AllSorted, Apart, InOrder
<1>9. Structures
  BY <1>2, <1>4, CacheKinds DEF Structures
<1>10. FromSlabs /\ OneOwner
  BY <1>3, <1>4 DEF FromSlabs, OneOwner
<1>11. Exact(Gone)
  BY <1>2 DEF Exact
<1>12. QED
  BY <1>5, <1>6, <1>7, <1>8, <1>9, <1>10, <1>11 DEF IInv

\* Every step of every CPU keeps the invariant.
LEMMA IInvNext == IInv /\ [Next]_vars => IInv'
<1> SUFFICES ASSUME IInv, [Next]_vars PROVE IInv'
  OBVIOUS
<1>1. CASE UNCHANGED vars
  <2>1. UNCHANGED <<lists, bufs, refs, hdr, ctls, avail, held, build, lock, state>>
    BY <1>1 DEF vars
  <2>2. TypeOK' /\ LocksHeld'
    BY <2>1 DEF IInv, TypeOK, LocksHeld
  <2>3. QED
    BY <2>1, <2>2, OnlyLocks
<1>2. ASSUME NEW cpu \in CPUs, NEW c \in Compact \cup External,
             \/ get_object_hit(cpu, c) \/ get_object_miss(cpu, c)
             \/ get_object_fault(cpu, c) \/ slab_alloc_backing(cpu, c) \/ put_object(cpu, c)
      PROVE  IInv'
  <2>1. CASE get_object_hit(cpu, c) \/ get_object_miss(cpu, c)
    BY <2>1, GetStep
  <2>2. CASE get_object_fault(cpu, c)
    BY <2>2, FaultStep
  <2>3. CASE slab_alloc_backing(cpu, c)
    <3>1. c \in External
      BY <2>3 DEF slab_alloc_backing
    <3>2. QED
      BY <2>3, <3>1, BackingStep
  <2>4. CASE put_object(cpu, c)
    BY <2>4, PutStep
  <2>5. QED
    BY <1>2, <2>1, <2>2, <2>3, <2>4
<1>3. ASSUME NEW cpu \in CPUs, Building(cpu) PROVE IInv'
  BY <1>3, LockPoolStep, SlabStep, BufctlStep, DoneStep, NoBufctlStep, PoolFaultStep DEF Building
<1>4. QED
  BY <1>1, <1>2, <1>3 DEF Next

-----------------------------------------------------------------------------
(* What the invariant says *)

\* What a cache has out is what is gone of its slabs.
LEMMA OutIsGone ==
  ASSUME IInv, NEW c \in Caches, NEW f \in SlabsOf(c)
  PROVE  {i \in 1 .. MaxCap : <<f, i>> \in Out(c)} = OutOf(Gone, f)
<1>1. f \in Frames /\ \A d \in Caches : d # c => f \notin SlabsOf(d)
  BY DEF IInv, TypeOK, Lists, SlabsOf, Placed
<1>2. SUFFICES ASSUME NEW i \in 1 .. MaxCap
               PROVE  <<f, i>> \in Out(c) <=> <<f, i>> \in Gone
  BY DEF OutOf
<1> DEFINE o == <<f, i>>
<1>3. o \in Objects /\ o[1] = f
  BY <1>1 DEF Objects
<1> HIDE DEF o
<1>4. o \in OutHeld <=> \E u \in CPUs : o \in held[u]
  BY DEF OutHeld
<1>5. o \in OutAsHdr <=> \/ \E g \in Frames : o \in hdr[g]
                         \/ \E u \in CPUs : build[u] # NoBuild /\ o \in build[u].hdr
  BY DEF OutAsHdr, Builders
<1>6. o \in OutAsCtl <=> \/ \E g \in Frames : o \in ctls[g]
                         \/ \E u \in CPUs : build[u] # NoBuild /\ o \in build[u].ctls
  BY DEF OutAsCtl, Builders
<1>7. o \in Gone <=> o \in OutHeld \/ o \in OutAsHdr \/ o \in OutAsCtl
  BY <1>3, <1>4, <1>5, <1>6 DEF Gone
<1>8. o \in OutHeld => c \in Compact \cup External
  BY <1>1, <1>3, <1>4, CacheKinds DEF IInv, FromSlabs
<1>9. o \in OutAsHdr => c = SlabPool
  BY <1>1, <1>3, <1>5, CacheKinds DEF IInv, FromSlabs
<1>10. o \in OutAsCtl => c = BufctlPool
  BY <1>1, <1>3, <1>6, CacheKinds DEF IInv, FromSlabs
<1>11. CASE c = SlabPool
  <2>1. Out(c) = OutAsHdr
    BY <1>11, CacheKinds DEF Out
  <2>2. QED
    BY <1>7, <1>8, <1>10, <1>11, <2>1, CacheKinds DEF o
<1>12. CASE c = BufctlPool
  <2>1. Out(c) = OutAsCtl
    BY <1>12, CacheKinds DEF Out
  <2>2. QED
    BY <1>7, <1>8, <1>9, <1>12, <2>1, CacheKinds DEF o
<1>13. CASE c # SlabPool /\ c # BufctlPool
  <2>1. Out(c) = {p \in OutHeld : p[1] \in SlabsOf(c)}
    BY <1>13 DEF Out
  <2>2. o \in Out(c) <=> o \in OutHeld
    BY <1>3, <2>1
  <2>3. QED
    BY <1>7, <1>9, <1>10, <1>13, <2>2 DEF o
<1>14. QED
  BY <1>11, <1>12, <1>13

\* BuffersConserved follows from the invariant.
LEMMA BuffersFromIInv == IInv => BuffersConserved
<1> SUFFICES ASSUME IInv PROVE BuffersConserved
  OBVIOUS
<1>1. ASSUME NEW c \in Caches, NEW f \in SlabsOf(c)
      PROVE  LET out == {i \in 1 .. MaxCap : <<f, i>> \in Out(c)}
             IN  /\ bufs[f] \cup out = 1 .. Cap[c]
                 /\ bufs[f] \cap out = {}
                 /\ refs[f] = Cardinality(out)
  <2>1. Whole(Cap[c], bufs[f], refs[f], OutOf(Gone, f))
    BY DEF IInv, Exact
  <2>2. {i \in 1 .. MaxCap : <<f, i>> \in Out(c)} = OutOf(Gone, f)
    BY OutIsGone
  <2>3. QED
    BY <2>1, <2>2 DEF Whole
<1>2. \A u, v \in CPUs : u # v => held[u] \cap held[v] = {}
  BY DEF IInv, OneOwner
<1>3. QED
  BY <1>1, <1>2 DEF BuffersConserved

\* FramesConserved follows from the invariant.
LEMMA FramesFromIInv == IInv => FramesConserved
<1> SUFFICES ASSUME IInv PROVE FramesConserved
  OBVIOUS
<1> DEFINE Free(f) == {c \in Caches : f \in lists[c].free}
           Used(f) == {c \in Caches : f \in lists[c].used}
           Full(f) == {c \in Caches : f \in lists[c].full}
           Bld(f)  == {u \in Builders : build[u].frame = f}
           Uses(f) == (IF f \in avail THEN 1 ELSE 0) + Cardinality(Free(f))
                      + Cardinality(Used(f)) + Cardinality(Full(f)) + Cardinality(Bld(f))
<1>0. SUFFICES ASSUME NEW f \in Frames PROVE Uses(f) = 1
  BY DEF FramesConserved
<1>1. Cardinality({}) = 0 /\ \A x : Cardinality({x}) = 1
  BY FS_EmptySet, FS_Singleton
<1>2. \A c \in Free(f) \cup Used(f) \cup Full(f) : c \in Caches /\ f \in SlabsOf(c)
  BY DEF SlabsOf
<1>3. CASE f \in avail
  <2>1. Free(f) = {} /\ Used(f) = {} /\ Full(f) = {} /\ Bld(f) = {}
    BY <1>2, <1>3 DEF IInv, Placed, Builders
  <2> HIDE DEF Free, Used, Full, Bld
  <2>2. QED
    BY <1>1, <1>3, <2>1
<1>4. CASE \E c \in Caches : f \in SlabsOf(c)
  <2>1. PICK c \in Caches : f \in SlabsOf(c)
    BY <1>4
  <2>2. f \notin avail /\ Bld(f) = {} /\ \A d \in Caches : d # c => f \notin SlabsOf(d)
    BY <2>1 DEF IInv, Placed, Builders
  <2>3. Free(f) \subseteq {c} /\ Used(f) \subseteq {c} /\ Full(f) \subseteq {c}
    BY <1>2, <2>2
  <2>4. \/ f \in lists[c].free /\ f \notin lists[c].used /\ f \notin lists[c].full
        \/ f \notin lists[c].free /\ f \in lists[c].used /\ f \notin lists[c].full
        \/ f \notin lists[c].free /\ f \notin lists[c].used /\ f \in lists[c].full
    BY <2>1 DEF IInv, AllSorted, Apart, SlabsOf
  <2>5. \/ Free(f) = {c} /\ Used(f) = {} /\ Full(f) = {}
        \/ Free(f) = {} /\ Used(f) = {c} /\ Full(f) = {}
        \/ Free(f) = {} /\ Used(f) = {} /\ Full(f) = {c}
    BY <2>3, <2>4
  <2> HIDE DEF Free, Used, Full, Bld
  <2>6. Cardinality({c}) = 1
    BY <1>1
  <2>7. \/ Cardinality(Free(f)) = 1 /\ Cardinality(Used(f)) = 0 /\ Cardinality(Full(f)) = 0
        \/ Cardinality(Free(f)) = 0 /\ Cardinality(Used(f)) = 1 /\ Cardinality(Full(f)) = 0
        \/ Cardinality(Free(f)) = 0 /\ Cardinality(Used(f)) = 0 /\ Cardinality(Full(f)) = 1
    BY <1>1, <2>5, <2>6
  <2>8. f \notin avail /\ Cardinality(Bld(f)) = 0
    BY <1>1, <2>2
  <2>9. QED
    BY <2>7, <2>8
<1>5. CASE f \notin avail /\ ~(\E c \in Caches : f \in SlabsOf(c))
  <2>1. PICK u \in CPUs : build[u] # NoBuild /\ build[u].frame = f
    BY <1>5 DEF IInv, Placed
  <2>2. Bld(f) = {u}
    BY <2>1 DEF IInv, Placed, Builders
  <2>3. Free(f) = {} /\ Used(f) = {} /\ Full(f) = {}
    BY <1>2, <1>5
  <2> HIDE DEF Free, Used, Full, Bld
  <2>4. QED
    BY <1>1, <1>5, <2>2, <2>3
<1>6. QED
  BY <1>3, <1>4, <1>5

-----------------------------------------------------------------------------
(* Theorems *)

\* However the CPUs interleave in get_object, put_object and _slab_alloc, every
\* buffer of every slab is on the slab's list or with one owner, and slab.refs
\* counts the owners.
THEOREM BuffersAlwaysConserved == Spec => []BuffersConserved
BY IInvInit, IInvNext, BuffersFromIInv, PTL DEF Spec

\* Whoever takes a cache's lock finds _cache_sort's order: get_object never takes
\* a full slab for a partial one.
THEOREM ListsAlwaysSorted == Spec => []ListsSorted
<1>1. IInv => ListsSorted
  BY DEF IInv, AllSorted, InOrder, ListsSorted
<1>2. QED
  BY IInvInit, IInvNext, <1>1, PTL DEF Spec

\* No frame is leaked or used twice by _slab_alloc, on its error path either.
THEOREM FramesAlwaysConserved == Spec => []FramesConserved
BY IInvInit, IInvNext, FramesFromIInv, PTL DEF Spec

\* An external slab has its own slab structure and one bufctl of its own for each
\* buffer, although the CPUs fetch them from shared pools.
THEOREM StructuresAlwaysExclusive == Spec => []StructuresExclusive
<1>1. IInv => StructuresExclusive
  BY DEF IInv, Structures, OneOwner, StructuresExclusive
<1>2. QED
  BY IInvInit, IInvNext, <1>1, PTL DEF Spec
=============================================================================
