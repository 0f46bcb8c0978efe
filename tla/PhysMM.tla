------------------------------- MODULE PhysMM -------------------------------
(***************************************************************************)
(* The physical page allocator, src/kernel/memory/physmm.cc.               *)
(*                                                                         *)
(* State.  The bitmap _memory_map_data is the set "used" of its 1-bits,    *)
(* _memory_map_used is "usedCount", _memory_map_base is "base".  Of the    *)
(* entries of memory_map_pages the model keeps the Slab bit of the flags   *)
(* and link.next, which cache::get_cache reads back.  A page address is    *)
(* counted in pages (addr / PAGE_SIZE).                                    *)
(*                                                                         *)
(* Every public operation holds _memory_map_lock while it looks at or      *)
(* changes the bitmap and calls nothing that could block, so that one      *)
(* operation is one action.  What physmm does not know, the blocks its     *)
(* callers hold, is the function "held": each client (a CPU's call site in *)
(* cache.cc, virtmm.cc, tss.cc) owns at most one block at a time.          *)
(***************************************************************************)
EXTENDS Integers, FiniteSets

CONSTANTS
  MapSize,   \* _memory_map_size: bytes of the bitmap
  Reserved,  \* pages that init() leaves marked as used
  WrapPages, \* 2^32 / PAGE_SIZE: PAGE_SIZE * count is an unsigned 32 bit product
  VMBase,    \* kVMRangePhysMemBase, in pages
  MaxRange,  \* bound: the longest range a client asks for
  MaxWild,   \* bound: how far past the map a stray free may point
  Clients,   \* the callers that hold blocks
  NoBlock    \* a client that holds nothing

NPages == 8 * MapSize
Pages  == 0 .. NPages - 1

\* The test program's smallest map has 8 bytes; a bootable one has at least 512.
ASSUME MapAssumption == MapSize \in Nat /\ MapSize >= 8

\* init() frees nothing below the end of the kernel, page 0 least of all.
ASSUME ReservedAssumption == Reserved \subseteq Pages /\ 0 \in Reserved

\* The kernel's linear mapping starts far above every physical address.
ASSUME BaseAssumption ==
  /\ MaxWild \in Nat
  /\ VMBase \in Nat
  /\ VMBase > NPages + MaxWild

\* cache.cc asks for alloc_size / PAGE_SIZE pages, never for 4 GB.
ASSUME RangeAssumption ==
  MaxRange \in Nat /\ WrapPages \in Nat /\ MaxRange + 1 < WrapPages

ASSUME NoBlockAssumption ==
  NoBlock \notin [addr : Nat, count : Nat, slab : BOOLEAN, tagged : BOOLEAN]

VARIABLES
  used,       \* _memory_map_data: the pages whose bit is 1
  usedCount,  \* _memory_map_used
  base,       \* _memory_map_base
  pastEnd,    \* the bit behind the bitmap, as _peek_used reads it
  slabFlag,   \* pages whose page_map flags contain Slab
  link,       \* page_map link.next: "null", "self" or the client (cache)
  overrun,    \* memory_map_pages was written behind its last entry
  held        \* the block each client holds

vars == <<used, usedCount, base, pastEnd, slabFlag, link, overrun, held>>

Block == [addr : Nat, count : 1 .. MaxRange + 1, slab : BOOLEAN, tagged : BOOLEAN]

-----------------------------------------------------------------------------
(* The bitmap *)

\* Mutation: _peek_used without its bounds check.
PeekUsedUnbounded(bit) ==
  \/ bit >= NPages /\ pastEnd
  \/ bit \in used

\* _peek_used: beyond the map everything is used, except that the test
\* "bit > size * 8" lets the first bit behind the map through.  That bit lies
\* in memory_map_pages[0].link, which nothing changes after init().
PeekUsed(bit) ==
  \/ bit > NPages
  \/ bit = NPages /\ pastEnd
  \/ bit \in used

\* The pages _mark_used_range and _mark_free_range walk over.
Run(first, len) == first .. first + len - 1

\* Mutation: _mark_used counts bits it did not set.
MarkUsedRangeCountsAll(first, len) ==
  /\ used' = used \cup (Run(first, len) \cap Pages)
  /\ usedCount' = usedCount + len

\* Mutation: _mark_used without its bounds check.
MarkUsedRangeUnbounded(first, len) ==
  /\ used' = used \cup Run(first, len)
  /\ usedCount' = usedCount + Cardinality(Run(first, len) \ used)

\* Both _mark_*_range functions skip bits outside the map and bits that
\* already have the value, and count the others.
MarkUsedRange(first, len) ==
  /\ used' = used \cup (Run(first, len) \cap Pages)
  /\ usedCount' = usedCount + Cardinality((Run(first, len) \cap Pages) \ used)

MarkFreeRange(first, len) ==
  /\ used' = used \ (Run(first, len) \cap Pages)
  /\ usedCount' = usedCount - Cardinality(Run(first, len) \cap Pages \cap used)

\* Only whole 32 bit words of the bitmap are searched.
Searchable == 0 .. 32 * (MapSize \div 4) - 1

\* Mutation: the inner loop stops one page early.
FitsShort(num) == {p \in Searchable :
                     \A n \in 0 .. (IF num > 1 THEN num - 2 ELSE 0) : ~PeekUsed(p + n)}

\* The pages at which _search_first_free_range finds num free bits.
Fits(num) == {p \in Searchable : \A n \in 0 .. num - 1 : ~PeekUsed(p + n)}

Lowest(S) == CHOOSE p \in S : \A q \in S : p <= q

\* _search_first_free (num = 1) and _search_first_free_range: 0 means failure.
SearchFirstFree(num) == IF Fits(num) = {} THEN 0 ELSE Lowest(Fits(num))

free_page_count == NPages - usedCount

-----------------------------------------------------------------------------
(* The page metadata *)

\* "do { ... } while( len-- )": the entries of len pages and of the next one.
Touched(first, len) == first .. first + len

FlagPageRange(first, slab, len) ==
  LET T == Touched(first, len) IN
  /\ slabFlag' = IF slab THEN slabFlag \cup (T \cap Pages) ELSE slabFlag \ T
  /\ link' = [p \in Pages |-> IF p \in T THEN "self" ELSE link[p]]
  /\ overrun' = (overrun \/ ~(T \subseteq Pages))

FreePageRange(first, len) ==
  LET T == Touched(first, len) IN
  /\ slabFlag' = slabFlag \ T
  /\ link' = [p \in Pages |-> IF p \in T THEN "null" ELSE link[p]]
  /\ overrun' = (overrun \/ ~(T \subseteq Pages))

\* get_page_map compares a page number with the size in bytes.
HasPageMap(p) == p < MapSize

\* cache::get_cache: what the metadata say about the owner of page p.
GetCache(p) == IF HasPageMap(p) /\ p \in slabFlag THEN link[p] ELSE "null"

-----------------------------------------------------------------------------
(* Allocation *)

\* A page's number from an address with or without the base offset: __PA, and
\* the first lines of free_page and free_page_range.
ToPage(addr) == IF addr >= base THEN addr - base ELSE addr

Grant(c, p, count, slab) ==
  held' = [held EXCEPT ![c] =
             [addr |-> p + base, count |-> count, slab |-> slab, tagged |-> FALSE]]

\* A client that already holds a block is not asking for another one.
alloc_page(c, slab) ==
  /\ held[c] = NoBlock
  /\ LET p == SearchFirstFree(1) IN
     IF free_page_count = 0 \/ p = 0
     THEN UNCHANGED vars
     ELSE /\ MarkUsedRange(p, 1)
          /\ FlagPageRange(p, slab, 1)
          /\ Grant(c, p, 1, slab)
          /\ UNCHANGED <<base, pastEnd>>

\* alloc_page_range with count <= 1 is alloc_page.
alloc_page_range(c, count, slab) ==
  /\ count > 1
  /\ held[c] = NoBlock
  /\ LET p   == SearchFirstFree(count)
         len == count % WrapPages
     IN  IF free_page_count < count \/ p = 0
         THEN UNCHANGED vars
         ELSE /\ MarkUsedRange(p, len)
              /\ FlagPageRange(p, slab, len)
              /\ Grant(c, p, count, slab)
              /\ UNCHANGED <<base, pastEnd>>

\* _slab_alloc, after the call returned and outside of the lock: the first
\* page of the block gets a link to its cache, if it has a page_map at all.
tag_pages(c) ==
  /\ held[c] # NoBlock
  /\ held[c].slab /\ ~held[c].tagged
  /\ LET p == ToPage(held[c].addr) IN
     link' = IF HasPageMap(p) THEN [link EXCEPT ![p] = c] ELSE link
  /\ held' = [held EXCEPT ![c].tagged = TRUE]
  /\ UNCHANGED <<used, usedCount, base, pastEnd, slabFlag, overrun>>

-----------------------------------------------------------------------------
(* Release *)

\* The sum that free_page and free_page_range compare with the map's size.
WordPlusBit(p) == (p \div 32) + (p % 32)

\* Mutation: free_page without the guard for the first 4K.
FreePageUnguarded(addr) ==
  LET p == ToPage(addr) IN
  IF WordPlusBit(p) > NPages
  THEN UNCHANGED <<used, usedCount, slabFlag, link, overrun>>
  ELSE MarkFreeRange(p, 1) /\ FreePageRange(p, 1)

\* free_page, the part that works on physmm's own state.
FreePage(addr) ==
  LET p == ToPage(addr) IN
  IF p = 0 \/ WordPlusBit(p) > NPages
  THEN UNCHANGED <<used, usedCount, slabFlag, link, overrun>>
  ELSE MarkFreeRange(p, 1) /\ FreePageRange(p, 1)

\* Mutation: the limit is the size in bytes instead of bits.
TrimByBytes(p, count) ==
  LET ok == {k \in 1 .. count : WordPlusBit(p + (k % WrapPages)) < MapSize}
  IN  IF ok = {} THEN 0 ELSE CHOOSE k \in ok : \A j \in ok : j <= k

\* The loop of free_page_range: the largest count that passes the test, or 0.
Trim(p, count) ==
  LET ok == {k \in 1 .. count : WordPlusBit(p + (k % WrapPages)) < NPages}
  IN  IF ok = {} THEN 0 ELSE CHOOSE k \in ok : \A j \in ok : j <= k

FreePages(addr, num) ==
  LET p     == ToPage(addr)
      count == Trim(p, IF num < 1 THEN 1 ELSE num)
  IN  IF p = 0 \/ count = 0
      THEN UNCHANGED <<used, usedCount, slabFlag, link, overrun>>
      ELSE /\ MarkFreeRange(p, count % WrapPages)
           /\ FreePageRange(p, count % WrapPages)

free_page(c) ==
  /\ held[c] # NoBlock
  /\ held[c].count = 1
  /\ FreePage(held[c].addr)
  /\ held' = [held EXCEPT ![c] = NoBlock]
  /\ UNCHANGED <<base, pastEnd>>

free_page_range(c) ==
  /\ held[c] # NoBlock
  /\ FreePages(held[c].addr, held[c].count)
  /\ held' = [held EXCEPT ![c] = NoBlock]
  /\ UNCHANGED <<base, pastEnd>>

\* The frees that the tests expect to be harmless: the first page, and pages
\* behind the map.
Stray == {0} \cup (NPages .. NPages + MaxWild)

free_stray(p) ==
  /\ FreePage(p + base)
  /\ UNCHANGED <<base, pastEnd, held>>

free_stray_range(p, count) ==
  /\ FreePages(p + base, count)
  /\ UNCHANGED <<base, pastEnd, held>>

-----------------------------------------------------------------------------
\* virtmm::init moves the map into the kernel's linear mapping, once.
set_physical_base_offset ==
  /\ base = 0
  /\ base' = VMBase
  /\ UNCHANGED <<used, usedCount, pastEnd, slabFlag, link, overrun, held>>

\* What init() leaves behind: everything outside the free chunks is used.
Init ==
  /\ used = Reserved
  /\ usedCount = Cardinality(Reserved)
  /\ base = 0
  /\ pastEnd \in BOOLEAN
  /\ slabFlag = {}
  /\ link = [p \in Pages |-> IF p \in Reserved THEN "self" ELSE "null"]
  /\ overrun = FALSE
  /\ held = [c \in Clients |-> NoBlock]

Next ==
  \/ \E c \in Clients, slab \in BOOLEAN : alloc_page(c, slab)
  \/ \E c \in Clients, slab \in BOOLEAN, count \in 2 .. MaxRange :
       alloc_page_range(c, count, slab)
  \/ \E c \in Clients : tag_pages(c)
  \/ \E c \in Clients : free_page(c)
  \/ \E c \in Clients : free_page_range(c)
  \/ \E p \in Stray : free_stray(p)
  \/ \E p \in Stray, count \in 0 .. MaxRange : free_stray_range(p, count)
  \/ set_physical_base_offset

Spec == Init /\ [][Next]_vars

-----------------------------------------------------------------------------
(* Properties *)

\* The pages of a block, whichever base its address was handed out under.
BlockPages(b) ==
  LET p == IF b.addr >= VMBase THEN b.addr - VMBase ELSE b.addr
  IN  p .. p + b.count - 1

Holding == {c \in Clients : held[c] # NoBlock}

HeldPages == UNION {BlockPages(held[c]) : c \in Holding}

\* Each variable keeps its type; the counter never leaves 0..NPages, so the
\* unsigned _memory_map_used does not wrap.
TypeOK ==
  /\ used \subseteq Pages
  /\ usedCount \in 0 .. NPages
  /\ base \in {0, VMBase}
  /\ pastEnd \in BOOLEAN
  /\ slabFlag \subseteq Pages
  /\ link \in [Pages -> {"null", "self"} \cup Clients]
  /\ overrun \in BOOLEAN
  /\ held \in [Clients -> Block \cup {NoBlock}]

\* free_page_count() is exact: the counter kept by _mark_used and _mark_free
\* agrees with the bitmap after any sequence of allocations and frees.
UsedCountExact == usedCount = Cardinality(used)

\* No page is lost and none is freed early: the bitmap shows exactly the
\* pages reserved at boot and those of the blocks the callers hold.
Accounting ==
  /\ used = Reserved \cup (HeldPages \cap Pages)
  /\ HeldPages \cap Reserved = {}

\* No page is handed out twice, not even the one behind the map that
\* _peek_used may take for a free page.
BlocksDisjoint ==
  \A c, d \in Holding : c # d => BlockPages(held[c]) \cap BlockPages(held[d]) = {}

\* A range can reach at most one page behind the map, and only when the bit
\* behind the bitmap reads as 0.
AtMostOnePast ==
  \A p \in HeldPages : p < NPages \/ (p = NPages /\ ~pastEnd)

\* alloc_page reports "out of memory" only when every page it may look at is
\* in use: page 0, whose address doubles as the error value, never is free.
NoSpuriousFailure == SearchFirstFree(1) = 0 => Searchable \subseteq used

\* "prevent out-of-bounds access" (physmm.cc:431 and 466): no operation writes
\* page metadata behind the last entry of memory_map_pages.
MetadataInBounds == ~overrun

\* kfree panics with "attempting to free %p which is not managed by kmalloc!"
\* unless the metadata of a slab's page name the cache that tagged it.
KfreeFindsCache ==
  \A c \in Holding : held[c].tagged => GetCache(ToPage(held[c].addr)) = c
=============================================================================
