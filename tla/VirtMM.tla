-------------------------------- MODULE VirtMM ------------------------------
(***************************************************************************)
(* The virtual memory manager, src/kernel/memory/virtmm.cc: four levels of *)
(* page tables, which are allocated from physmm on demand and never given  *)
(* back.                                                                   *)
(*                                                                         *)
(* Addresses count pages.  The conversions between a table's physical and  *)
(* its virtual address (PHYS_ADDR, VIRT_ADDR) cancel out and are left out, *)
(* except where the code forgets one: map_address stores the address that  *)
(* alloc_page returned, which has the base offset added.  Of the flags in  *)
(* an entry only "present" matters: a zeroed entry is Unmapped, and an     *)
(* entry for page 0 is not.                                                *)
(*                                                                         *)
(* virtmm takes no lock.  Its callers run it one at a time (boot code on   *)
(* one CPU, later mmio under its lock), while others use physmm: one round *)
(* of a loop is one action, with the other users of physmm in between.     *)
(***************************************************************************)
EXTENDS Integers, FiniteSets

CONSTANTS
  Width,     \* entries of a table (512)
  Frames,    \* physmm's pages
  Root,      \* _system_pml4
  Offset,    \* kVMRangePhysMemBase
  Device,    \* the first pages of what map_fixed and the boot code map
             \* (devices, the video memory, the kernel, all of the memory)
  Starts,    \* the pages that calls name
  MaxPages,  \* bound: the longest range
  Unmapped,  \* a zeroed entry
  Idle       \* no call is in progress

Virt == 0 .. Width * Width * Width * Width - 1

\* Where a loop that was entered with a count of 0 stops counting.
Endless == -1

Phys == {0} \cup {p + k : p \in Device, k \in 0 .. MaxPages - 1}
            \cup {f + Offset : f \in Frames}

ASSUME VirtAssumption ==
  /\ Width \in Nat \ {0} /\ MaxPages \in Nat \ {0}
  /\ Frames \subseteq Nat \ {0} /\ IsFiniteSet(Frames) /\ Root \in Frames
  /\ Device \subseteq Nat /\ Starts \subseteq Virt
  /\ Offset \in Nat /\ \A f \in Frames \cup Device : f < Offset
  /\ Unmapped \notin Int

VARIABLES
  tab,     \* the contents of each frame that is a table
  free,    \* the frames physmm has left
  others,  \* frames that other parts of the kernel hold
  mine,    \* the pages that were mapped with map_address
  call,    \* the loop in progress
  phase    \* "boot", "running", or "panic" if _create_system_vm gave up

vars == <<tab, free, others, mine, call, phase>>

Empty == [i \in 0 .. Width - 1 |-> Unmapped]

-----------------------------------------------------------------------------
(* The tables *)

\* MMU_PML4_INDEX, MMU_PDPT_INDEX, MMU_PDT_INDEX and MMU_PT_INDEX.
Index(v, level) ==
  CASE level = 4 -> (v \div (Width * Width * Width)) % Width
    [] level = 3 -> (v \div (Width * Width)) % Width
    [] level = 2 -> (v \div Width) % Width
    [] level = 1 -> v % Width

\* The table of the next level, Unmapped if the walk has ended before.
Down(t, v, level) == IF t = Unmapped THEN Unmapped ELSE tab[t][Index(v, level)]

PageTable(v) == Down(Down(Down(Root, v, 4), v, 3), v, 2)

\* What the processor finds for v.
Translate(v) == Down(PageTable(v), v, 1)

\* lookup_mapping fails for an entry that names page 0.
lookup_mapping(v) == Translate(v) \notin {Unmapped, 0}

Lowest(S) == CHOOSE f \in S : \A g \in S : f <= g

\* Mutation: a new table is not cleared and keeps what its frame held.
GrowDirty(s, v, level) ==
  IF s.at = Unmapped THEN s
  ELSE IF s.tab[s.at][Index(v, level)] # Unmapped
       THEN [s EXCEPT !.at = s.tab[s.at][Index(v, level)]]
  ELSE IF s.free = {} THEN [s EXCEPT !.at = Unmapped]
  ELSE LET f == Lowest(s.free)
       IN  [tab  |-> [s.tab EXCEPT ![s.at] = [@ EXCEPT ![Index(v, level)] = f]],
            free |-> s.free \ {f},
            at   |-> f]

\* One level of _map_region: the next table, allocated and cleared if it does
\* not exist.  s holds the tables, the free frames and the table reached, which
\* is Unmapped once an allocation has failed.
Grow(s, v, level) ==
  IF s.at = Unmapped THEN s
  ELSE IF s.tab[s.at][Index(v, level)] # Unmapped
       THEN [s EXCEPT !.at = s.tab[s.at][Index(v, level)]]
  ELSE IF s.free = {} THEN [s EXCEPT !.at = Unmapped]
  ELSE LET f == Lowest(s.free)
       IN  [tab  |-> [s.tab EXCEPT ![f] = Empty,
                                   ![s.at] = [@ EXCEPT ![Index(v, level)] = f]],
            free |-> s.free \ {f},
            at   |-> f]

\* The three tables a page needs, starting with the frames in F.
Tables(v, F) ==
  Grow(Grow(Grow([tab |-> tab, free |-> F, at |-> Root], v, 4), v, 3), v, 2)

\* One round of _map_region's loop.  A table that was allocated stays, whether
\* the round succeeds or not.
MapPage(v, p, F) ==
  LET s == Tables(v, F) IN
  /\ free' = s.free
  /\ tab' = IF s.at = Unmapped THEN s.tab
            ELSE [s.tab EXCEPT ![s.at] = [@ EXCEPT ![Index(v, 1)] = p]]

Maps(v, F) == Tables(v, F).at # Unmapped

\* map_address: the page, if there is one; else 0 is mapped without a word.
AllocPage == IF free = {} THEN 0 ELSE Lowest(free) + Offset
AfterAlloc == IF free = {} THEN free ELSE free \ {Lowest(free)}

\* free_page takes the frame back; the sum of an offset page and another
\* offset is no page that physmm knows.
FreePage(p) == IF p \in Frames THEN {p} ELSE {}

\* Mutation: the whole table goes.
UnmapPageTable(v, give) ==
  IF PageTable(v) = Unmapped \/ Translate(v) \in {Unmapped, 0}
  THEN UNCHANGED <<tab, free>>
  ELSE /\ tab' = [tab EXCEPT ![PageTable(v)] = Empty]
       /\ free' = IF give THEN free \cup FreePage(Translate(v)) ELSE free

\* One round of _unmap_region's loop, for a page whose tables exist.
UnmapPage(v, give) ==
  IF PageTable(v) = Unmapped \/ Translate(v) \in {Unmapped, 0}
  THEN UNCHANGED <<tab, free>>
  ELSE /\ tab' = [tab EXCEPT ![PageTable(v)] = [@ EXCEPT ![Index(v, 1)] = Unmapped]]
       /\ free' = IF give THEN free \cup FreePage(Translate(v)) ELSE free

-----------------------------------------------------------------------------
(* Single pages *)

Ready == call = Idle /\ phase = "running"

map_fixed(v, p) ==
  /\ Ready
  /\ MapPage(v, p, free)
  /\ mine' = IF Maps(v, free) THEN mine \ {v} ELSE mine
  /\ UNCHANGED <<others, call, phase>>

map_address(v) ==
  /\ Ready
  /\ MapPage(v, AllocPage, AfterAlloc)
  /\ mine' = IF Maps(v, AfterAlloc) THEN mine \cup {v} ELSE mine
  /\ UNCHANGED <<others, call, phase>>

\* Callers unmap with unmap_address what they mapped with map_address.
unmap_address(v) ==
  /\ Ready /\ v \in mine
  /\ UnmapPage(v, TRUE)
  /\ mine' = mine \ {v}
  /\ UNCHANGED <<others, call, phase>>

unmap_fixed(v) ==
  /\ Ready /\ v \notin mine
  /\ UnmapPage(v, FALSE)
  /\ UNCHANGED <<others, mine, call, phase>>

-----------------------------------------------------------------------------
(* Ranges *)

\* The k-th page behind v; the tables are indexed by the low bits of an address.
PageAt(v, k) == (v + k) % (Width * Width * Width * Width)
NextPage(v) == PageAt(v, 1)

\* _create_system_vm: regions of the boot code, a page at a time.
create_system_vm(v, p, n) ==
  /\ call = Idle /\ phase = "boot"
  /\ call' = [op |-> "boot", at |-> v, page |-> p, left |-> n, done |-> 0, first |-> v]
  /\ UNCHANGED <<tab, free, others, mine, phase>>

boot_step ==
  /\ call # Idle /\ call.op = "boot"
  /\ MapPage(call.at, call.page, free)
  /\ phase' = IF Maps(call.at, free) THEN phase ELSE "panic"
  /\ call' = IF call.left = 1 \/ phase' = "panic" THEN Idle
             ELSE [call EXCEPT !.at = NextPage(@), !.page = @ + 1, !.left = @ - 1]
  /\ UNCHANGED <<others, mine>>

\* init: the new tables are in place.
init ==
  /\ call = Idle /\ phase = "boot"
  /\ phase' = "running"
  /\ UNCHANGED <<tab, free, others, mine, call>>

map_address_range(v, n) ==
  /\ Ready
  /\ call' = [op |-> "map", at |-> v, page |-> 0, left |-> n, done |-> 0, first |-> v]
  /\ UNCHANGED <<tab, free, others, mine, phase>>

\* A page of the range is mapped; the last one ends the call.
range_step ==
  /\ call # Idle /\ call.op = "map" /\ Maps(call.at, AfterAlloc)
  /\ MapPage(call.at, AllocPage, AfterAlloc)
  /\ mine' = mine \cup {call.at}
  /\ call' = IF call.left = 1 THEN Idle
             ELSE [call EXCEPT !.at = NextPage(@), !.left = @ - 1, !.done = @ + 1]
  /\ UNCHANGED <<others, phase>>

\* The count of pages that map_address_range unmaps after a failure: n - 1 of
\* the n pages it mapped.  For n = 1 the loop of _unmap_region starts with 0,
\* for n = 0 with 2^52 - 1: it does not end within the life of the machine.
Backtrack(n) == IF n < 2 THEN Endless ELSE n - 1

\* Mutation: the address is not taken back to the first page.
range_fail_in_place ==
  /\ call # Idle /\ call.op = "map" /\ ~Maps(call.at, AfterAlloc)
  /\ MapPage(call.at, AllocPage, AfterAlloc)
  /\ call' = [call EXCEPT !.op = "backtrack", !.left = Backtrack(call.done)]
  /\ UNCHANGED <<others, mine, phase>>

\* A page of the range cannot be mapped, for want of a table.
range_fail ==
  /\ call # Idle /\ call.op = "map" /\ ~Maps(call.at, AfterAlloc)
  /\ MapPage(call.at, AllocPage, AfterAlloc)
  /\ call' = [call EXCEPT !.op = "backtrack", !.at = call.first,
                          !.left = Backtrack(call.done)]
  /\ UNCHANGED <<others, mine, phase>>

unmap_address_range(v, n) ==
  /\ Ready
  /\ \A k \in 0 .. n - 1 : v + k \in mine
  /\ call' = [op |-> "unmap", at |-> v, page |-> 0, left |-> n, done |-> n, first |-> v]
  /\ UNCHANGED <<tab, free, others, mine, phase>>

\* One round of _unmap_region's loop.  "continue" skips the step to the next
\* page, so that the loop runs in place from the first missing table on.
unmap_step ==
  /\ call # Idle /\ call.op \in {"unmap", "backtrack"}
  /\ UnmapPage(call.at, TRUE)
  /\ mine' = IF PageTable(call.at) = Unmapped THEN mine ELSE mine \ {call.at}
  /\ call' = IF call.left = 1
             THEN IF call.op = "unmap" THEN Idle ELSE [call EXCEPT !.op = "false"]
             ELSE [call EXCEPT !.at = IF PageTable(@) = Unmapped THEN @ ELSE NextPage(@),
                               !.left = IF @ = Endless THEN @ ELSE @ - 1]
  /\ UNCHANGED <<others, phase>>

\* map_address_range returns false.
range_return ==
  /\ call # Idle /\ call.op = "false"
  /\ call' = Idle
  /\ UNCHANGED <<tab, free, others, mine, phase>>

-----------------------------------------------------------------------------
(* The other users of physmm *)

\* Which frame they get is physmm's choice, and of no account here.
take(f) ==
  /\ f \in free /\ \A g \in free : g <= f
  /\ free' = free \ {f} /\ others' = others \cup {f}
  /\ UNCHANGED <<tab, mine, call, phase>>

give(f) ==
  /\ f \in others
  /\ free' = free \cup {f} /\ others' = others \ {f}
  /\ UNCHANGED <<tab, mine, call, phase>>

-----------------------------------------------------------------------------
\* What a frame holds before it becomes a table: anything, here entries that
\* look like a way back to the root.
Junk == [i \in 0 .. Width - 1 |-> Root]

\* _create_system_vm starts with a cleared root.
Init ==
  /\ tab = [f \in Frames |-> IF f = Root THEN Empty ELSE Junk]
  /\ free = Frames \ {Root}
  /\ others = {}
  /\ mine = {}
  /\ call = Idle
  /\ phase = "boot"

Next ==
  \/ \E v \in Starts, p \in Device : map_fixed(v, p)
  \/ \E v \in Starts : map_address(v) \/ unmap_address(v) \/ unmap_fixed(v)
  \/ \E v \in Starts, p \in Device, n \in 1 .. MaxPages : create_system_vm(v, p, n)
  \/ boot_step
  \/ init
  \/ \E v \in Starts, n \in 1 .. MaxPages : map_address_range(v, n)
  \/ range_step
  \/ range_fail
  \/ \E v \in Starts, n \in 1 .. MaxPages : unmap_address_range(v, n)
  \/ unmap_step
  \/ range_return
  \/ \E f \in Frames : take(f) \/ give(f)

Spec == Init /\ [][Next]_vars

-----------------------------------------------------------------------------
(* Properties *)

\* A backtrack that does not end, and a kernel that maps none of physmm's frames
\* by its own choice: the first one gives such a frame back to physmm.
Runaway == call # Idle /\ call.left = Endless
Apart == \A p \in Device, k \in 0 .. MaxPages - 1 : p + k \notin Frames

\* The tables of each level, as far as they are frames.
Level4 == {Root}
Inner(T) == {tab[t][i] : t \in T \cap Frames, i \in 0 .. Width - 1} \ {Unmapped}
Level3 == Inner(Level4)
Level2 == Inner(Level3)
Level1 == Inner(Level2)

\* The tables form a tree of frames of their own: no frame is a table twice, on
\* two levels or under two entries, and none is in physmm's or in other hands.
TablesExclusive ==
  LET inner == Level4 \cup Level3 \cup Level2
      slots == {x \in (inner \cap Frames) \X (0 .. Width - 1) : tab[x[1]][x[2]] # Unmapped}
      all   == inner \cup Level1
  IN  /\ all \subseteq Frames
      /\ all \cap (free \cup others) = {}
      /\ Cardinality(slots) = Cardinality(all) - 1

\* What the processor makes of the tables.
Mapping == [v \in Virt |-> Translate(v)]
Flat == INSTANCE FlatMap WITH map <- Mapping

\* The page tables implement the flat map: whatever tables a call allocates,
\* shares or fails to get, each of its steps changes the translation of one page
\* at the most, and those of all other pages stay.  It does not say that a call
\* that fails changes nothing: map_address_range does (BacktrackOneShort).
ImplementsFlatMap == Flat!Spec

\* The "backtrack" of map_address_range (virtmm.cc:277) undoes every page that
\* the call mapped, but for the last one: that one is still mapped when the call
\* returns false.  (A page that was mapped to page 0 for want of memory looks
\* unmapped to _unmap_region, and stays as well.)
BacktrackOneShort ==
  call # Idle /\ call.op = "false" =>
    /\ \A k \in 0 .. call.done - 2 : ~lookup_mapping(PageAt(call.first, k))
    /\ Translate(PageAt(call.first, call.done - 1)) # Unmapped
    /\ Translate(PageAt(call.first, call.done)) = Unmapped
=============================================================================
