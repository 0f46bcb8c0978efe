# Hotarubi: specifications and proofs

TLA+ models of the Hotarubi kernel (an x86-64 hobby kernel in C++), checked with
TLC on small instances and, for twelve of the components, proved with TLAPS for all
instances. Paths are relative to the repository; line numbers are those of the
commit the models were written from. `PROJECT.json` maps every definition to the
lines it models and lists the runs, the hazards, the findings and the theorems.

## The system

Hotarubi boots on one processor, builds its memory management, parses the ACPI
tables, calibrates its timers and idles; code for further processors exists, but
nothing starts them. There are no processes: the
actors are CPUs and interrupt handlers, which share data structures under spin
locks.

| Component | State | Operations | Hard about it |
|---|---|---|---|
| `memory/physmm.cc` page allocator | bitmap, counter of used pages, base offset, one `page_map` entry per page | `alloc_page(_range)`, `free_page(_range)`, `set_physical_base_offset`, `get_page_map` | bounds at the end of the map, two address spaces for one page, counter and metadata beside the bitmap |
| `memory/cache.cc` slab caches | per cache a lock and three lists of slabs; per slab a reference count and free buffers | `get_object`, `put_object`, `create`, `reap`, `release` | a cache grows by allocating from two other caches with its lock held; running out of memory half way |
| `memory/kmalloc.cc` | table of size classes | `kmalloc`, `kfree`, `krealloc` | finds the owner of a pointer through page metadata |
| `memory/mmio.cc` device regions | two trees of resources, reference counts | `request_region`, `release_region`, `activate_region` | intrusive lists, two critical sections in one operation, sharing |
| `memory/virtmm.cc` | four level page table | `map_*`, `unmap_*`, `lookup_mapping` | partial failure, shared tables |
| `log/printk.cc` kernel log | ring buffer with two indices, output callback | `printk`, debug output on/off | writers on all CPUs, wrap-around |
| `include/hotarubi/lock.h` | lock flag | `lock`, `unlock`, irq-safe variant | fairness, interrupts |
| `include/list.h` | intrusive lists | `list_*`, `slist_*`, `hlist_*` | empty and one-element lists |
| `idt.cc`, `interrupts.S` | gates, patched stubs, table of handlers | register, release, dispatch | registration racing delivery |
| `processor/lapic.cc`, `pit.cc`, `ioapic.cc` | device registers, one-shot handler, calibration flag | `calibrate_timer`, `one_shot`, IPIs, masks | waiting for an interrupt |
| `processor/core.cc`, `boot.S` | table of cores, table of ISA interrupts | start-up, routing of interrupts and NMIs | everything may be missing; interrupts from the first `sti` on |
| `acpi/acpi.cc` | tables found, IRQ overrides | `parse_madt`, `init_tables` | table limits |
| `lib/` | none | `_vcbprintf`, `mem*` and `str*` functions, `new` and `delete`, C++ run time | boundaries |

Calls go downwards: kmalloc uses the caches, the caches and virtmm use physmm,
mmio uses kmalloc (`new`) and virtmm, the drivers use mmio. `physmm` and the
caches also meet in the page metadata: a cache stores itself in the `page_map`
of its slab's first page, and kfree reads it back. On the interrupt side the
parser of the MADT fills the tables of `core.cc`, drivers get a vector from
`idt.cc` and route their line to it through the IO APIC, and the calibration of
the local APIC waits for a handler of the PIT.

## Modules

| Module | Models | Kind |
|---|---|---|
| `PhysMM` | `physmm.cc`, and the tagging of slab pages by `cache.cc` | specification, properties |
| `MCPhysMM` | instances of `PhysMM` | model checking |
| `PhysMM_proofs` | theorems about `PhysMM` | TLAPS |
| `SlabCache` | `cache.cc` | specification, properties |
| `MCSlabCache` | instances of `SlabCache` | model checking |
| `SlabCache_proofs` | theorems about `SlabCache` | TLAPS |
| `LogRing` | `printk.cc` with `spin_lock` | specification, properties, refinement mapping |
| `BoundedLog` | what the log promises | abstract specification |
| `LogRing_proofs` | theorems about `LogRing` | TLAPS |
| `Mmio` | `mmio.cc` with the list operations it uses | specification, properties |
| `MCMmio` | instances of `Mmio` | model checking |
| `Mmio_proofs` | theorems about `Mmio` | TLAPS |
| `VirtMM` | `virtmm.cc` | specification, properties, refinement mapping |
| `FlatMap` | what the page tables promise | abstract specification |
| `VirtMM_proofs` | theorems about `VirtMM` | TLAPS |
| `Apic` | registers of the IO APIC and the local APIC, `ioapic.cc` and `lapic.cc` | operators |
| `Madt` | `parse_madt` of `acpi.cc`, routing in `core.cc`; over `Apic` | operators |
| `Idt` | `idt.cc` and `interrupts.S` | actions, properties |
| `Boot` | `processor::init`, `pit.cc`, the calibration, and the devices; composes `Madt` and `Idt` | specification, properties |
| `MCBoot` | machines for `Boot` | model checking |
| `Boot_proofs` | theorems about `Boot`, with `Apic`, `Madt` and `Idt` inside | TLAPS |
| `KList` | `list.h` | actions, properties, refinement mapping |
| `ListSeqs` | what the lists promise | abstract specification |
| `KList_proofs` | theorems about `KList` | TLAPS |
| `KMalloc` | `kmalloc.cc`, `cxxalloc.cc` | actions, properties |
| `KMalloc_proofs` | theorems about `KMalloc` | TLAPS |
| `Strings` | `memxxx.cc`, `strxxx.cc`, `strnxxx.cc` | operators, properties |
| `Format` | `_vcbprintf.cc` | actions, properties |
| `MCLib` | instances of `KList`, `KMalloc`, `Strings` and `Format`, one at a time | specification, model checking |

An operator whose comment starts with "Mutation:" is a deliberately wrong
variant of the definition that follows it. It takes no part in any
specification; substituting it for the definition makes the property named in
`PROJECT.json` fail, which shows that the property depends on that code.

### PhysMM

The bitmap is the set `used`, `_memory_map_used` is `usedCount`. Addresses count
pages. Every operation runs under `_memory_map_lock` and is one action.
Arithmetic is the code's: the test `bit > size * 8` that lets one bit too many
through (`PeekUsed`, with the value of that bit left open in `pastEnd`), the sum
of word and bit index in the bounds tests of the free functions
(`WordPlusBit`), the search over whole words (`Searchable`), the 32 bit product
of page size and count (`% WrapPages`), the metadata loops that run one entry
further (`Touched`), and `get_page_map`'s comparison with a size in bytes
(`HasPageMap`). `held` is what the callers know: the block each one was given.
Clients free only what they hold; beside that, `free_stray` makes the calls that
the unit tests expect to be harmless (page 0, pages behind the map). `init()`
appears as the state it leaves behind, with any set of reserved pages that
contains page 0.

### SlabCache

Frames are physmm's pages; a slab is named by its frame. Slab lists and bufctl
lists are sets, so every choice of a head element is explored. An operation on a
single cache is one action, since its lock hides the intermediate states. The
growth of an external cache is a sequence of actions (`slab_alloc_backing`, then
`slab_alloc_lock_pool` and `slab_alloc_slab` or `slab_alloc_bufctl` for each
structure, then `slab_alloc_done` or `slab_alloc_no_bufctl`), between which other
CPUs run. Running out of frames halts the CPU (`get_object_fault`,
`slab_alloc_fault`): the code clears the storage before it checks the pointer.
`reap()` and `release()`, which have no caller in the kernel, the statistics and
the object constructors are left out.

### LogRing and BoundedLog

`printk` takes the lock, `emit` stores one character, `printk_return` opens the
lock; other CPUs may step in between. A message is its length, a character is the
CPU that printed it. `BoundedLog` is a sequence that keeps the newest `Bound`
characters. `LogRing` implements it with `tail <- Contents` (what lies between
`out` and `in`) and `Bound <- Size - 1`.

### Mmio

A resource is a slot of the heap, a tree is the lists of children. `Reach` is the
set of resources that a walk visits: down the lists (`Below`), up to the root
(`Ancestry`), or down along the first children (`Descent`). `Place` and
`InsertSorted` are the result of `_add_nested`: it only ever looks at the first
child of each level, and its loop over the siblings ends at the list's head,
whose neighbouring fields it takes for a start address of at least 2^32
(refcount and flags of the parent). `ReleaseResource` includes the exception of
`list_splice` for one-element lists. `request_region` (search), then
`request_granted`, `request_refused`, `request_no_memory` or `request_outside`
are the two critical sections and the fault paths. When the code writes through
a list link into a deleted resource (`release_lost`) the model sets `wild` and
stops: what the memory holds by then is up to the heap. That is so only for a
resource that is on no list any more: one below it, whose own parent still lives, is
released like any other (`Listed`). `activate_region` asks `map_fixed` for each page,
which may fail for any that is not mapped yet, and sets the flag whatever came of it
(`mmio.cc:277`). `unbacked` remembers the pages that failed.

`TreeExclusive` is about the regions in the trees. The holder of a region that dropped
out (`mmio.cc:186`) still believes in its range, but no request collides with it any
more: a range that was granted as busy is granted again. `NestedKept` is the property
that would exclude this, and `mmio_window` shows that it does not hold.

`ActivatedMapped` speaks of the regions that were nested properly (`Firm`): they
lie inside of the regions the tree puts around them, and those start with a page.
`loose` remembers the others. Like `unbacked` it is a history variable, which no guard
reads. The
code makes two kinds of them. A region that only touches another one is put below
it (`mmio.cc:105`), and if that one is mapped, `activate_region` sets the flag and
maps nothing; the flag stays true to nothing when the region moves up later. And a
region that does not start with a page has its last page left out by the loop
(`mmio.cc:275`), so that a region inside of it may not be covered by its pages.

### VirtMM and FlatMap

Addresses count pages; a table is a frame of physmm, its contents a function
from indices to entries. `Grow` is one level of `_map_region` (follow the entry,
or allocate and clear a table), `MapPage` one round of its loop, `UnmapPage` one
round of `_unmap_region`'s. Single page calls are one action; the range calls and
the boot code take one action per page, with the other users of physmm (`take`,
`give`) in between. The code's own arithmetic is kept where it shows:
`map_address` maps the address with the base offset still added, or page 0 when
there is no page left (`AllocPage`); tables are never freed; `continue` in
`_unmap_region` does not advance the address (`unmap_step`); the count of the
backtracking is `n - 1`, and a count of 0 never ends (`Backtrack`, `Endless`).
`FlatMap` is a function from pages to pages of which each step changes one entry;
`VirtMM` implements it with `map <- Mapping`, the translation of every page. `Junk` is
what an uncleared frame may hold. virtmm has no lock: calls are serialised, as
its callers do (the boot processor, then mmio under its own lock).

### Apic, Madt, Idt and Boot

`Apic` has one operator per method of the two controllers, from register state to
register state. An entry is a vector and the set of its other bits. What the
code does with indices is kept: `ioapic::init` masks all pins but the last,
`set_route` takes the number of the global interrupt for that of the pin, a
target of 0 is not written to the command register, and the NMI of a local APIC
goes to a reserved register. `Madt` has what each of the three runs of `parse_madt`
does with one entry of the table (`first_run`, `second_run`, `third_run`), and the
entries at which a run uses a null pointer or writes to an unmapped register
(`second_run_faults`, `third_run_faults`). `EntryOK` says what a table consists of.

`Idt` keeps the descriptors, the patched stubs and the pointer table apart, since
an interrupt goes through all three (`Dispatch`). A registration is five actions
(number, context, pointer, descriptor cleared, descriptor set), a release three;
the lock lets one call at a time do so, interrupts arrive between any two of
them. `release_irq_handler` resets the stub whose index is the vector
(`ReleasedStub`), not the vector's own; `hit` remembers which were reset.

`Boot` runs `processor::init`. `parse_madt` takes a step per entry (`parse_entry`,
with the iterator in `plat.at`) and one at the end of each run (`parse_next`, which
panics without processors or IO APICs). The rest up to the first `sti` is in steps of
a call each; from then on every access to the timer, to a handler pointer or to the flag
`_calibrated` is an action, and so is each test and each `hlt`. A handler runs with
interrupts off, hence in one action with its delivery. The devices are
external: the timer counts down once or again and again (`pit_tick`; until `init`
programs it, it runs as the firmware left it), an edge is latched if the pin that
the line is wired to is not masked (`Latched`), the local APIC delivers the
highest vector (`deliver`). After init the kernel makes up to `calls` calls of the
kinds that the machine's workload allows: drivers register, route and release,
the timers and interprocessor interrupts are used.

### KList and ListSeqs

Heads and elements have `next` and `prev` links; a behaviour uses lists of one
kind. `Follow` reads a list off the links (`Walk` says of which sequence). The loops that may delete the element
they stand at (`*_FOREACH_MUTABLE`) take a step per element. The operations refine
`ListSeqs` with `lists <- [h \in Heads |-> Items(h)]`; a call that does nothing
(`list_splice` of one element, `slist_add_tail` to a list with elements) is a
stuttering step there. The reverse loops are the mirror image over `prev`, which
`BackLinks` covers.

### KMalloc

A cache is the set of its objects. `taken` is what the caches have handed out,
`held` what the callers know of; `krealloc` puts the entry of the cache table back
instead of the block, so that the two differ by one for each block moved. For a
cache that keeps its bufctl behind the object, that entry's neighbour in memory is
taken for a bufctl: the model ends in "corrupt". A cache that could not be created
faults when it is used.

### Strings

Memory is a function from addresses to bytes, a call is one step from any memory
whatever. The functions are operators on memory, byte by byte in the code's order;
the properties compare them with definitions on sequences of bytes.

### Format

A format is a sequence of parts, a directive a record of its flags, width,
precision, length, conversion and argument: reading these off the characters is
left out, with the exception of what a `*` may bring (negative widths and
precisions) and of a format that ends too early (`cut`). `NumberPieces` is the order
of output of the number branch, with each piece's text and the length that is
added to the count. `CText` is a definition of its own, from the C standard.
Words are scaled: `CharBits`, `ShortBits`, `IntBits`, `LongBits`.

## Runs

| Run | Expect | Shows |
|---|---|---|
| `physmm_map64` | pass | all six invariants on the unit tests' 64 page map |
| `physmm_bounds` | violation | stray frees write metadata behind their array |
| `physmm_neighbour` | violation | the page in front of a slab wipes the slab's metadata |
| `slab_caches` | pass | no buffer and no slab structure is lost or shared (`BuffersConserved`, `StructuresExclusive`), sorted lists (`ListsSorted`); nested growth over the shared pools terminates (`BuildTerminates`); no frame is lost or used twice, also on the error path of `_slab_alloc` (`FramesConserved`) |
| `slab_lockleak` | violation | `get_object` returns with the lock taken |
| `log_ring` | pass | refinement of `BoundedLog`, whole messages, lock returned |
| `mmio_nested` | pass | exclusive ranges within a tree, well-formed trees, exact reference counts, mapped pages but for those `map_fixed` failed to map |
| `mmio_window` | violation | an only child is dropped with its parent |
| `virtmm` | pass | refinement of `FlatMap`, tables are a tree of exclusive frames, a failed range call leaves exactly its last page mapped |
| `boot` | pass | init ends on exactly the machines it can reach the timer of, unless a device stands in for it, and always does so there (`OnlyBootable`, `BootCompletes`); the calibration waits for its own tick, and a one-shot started by a one-shot handler loses its handler (`OwnTick`); no open pin without a handler (`SourcesHandled`); the handler and context that belong to a vector (`RightHandler`, `Exclusive`); the parsed platform is what the table lists in any order (`PlatformAsListed`); interprocessor interrupts reach their target, but for id 0 (`IpiReaches`) |
| `lib` | pass | lists refine sequences and read the same backwards, loops visit each element once; blocks of kmalloc are conserved but for those krealloc moves, and copies stay inside; string functions and formatted output agree with the C standard but for the named differences |
| `slist_tail` | violation | `slist_add_tail` loses an element |

Bounds and why they are enough:

* `PhysMM`: three clients and six free pages, placed so that runs of every
  length and the end of the map take part; ranges of up to 4 pages, stray frees
  up to 2 pages behind the map. The map can be exhausted and fragmented by the
  clients. The proofs remove these bounds.
* `SlabCache`: two CPUs, two pools, one compact and three external caches, of
  which one has objects that do not fit, four frames, a CPU holds two buffers at
  the most. Every list transition (empty, partial, full) and exhaustion in the
  middle of a growth occur. No symmetry, since liveness is checked with the rest.
  The proofs remove these bounds for safety.
* `LogRing`: a ring of 4 with messages of up to 5 characters, so that a single
  message laps the ring; two CPUs. The proofs remove these bounds.
* `Mmio`: three drivers and two or three resources at a time, over a set of
  ranges that contain, equal, touch and overlap each other, one that does not start
  with a page and one outside of the root. The proofs remove these bounds.
* `VirtMM`: tables of 2 entries, hence 16 pages on four levels, 6 frames, ranges
  of up to 3 pages from two starting points, of which one range crosses from the
  first half of the address space to the second and needs three new tables.
  Memory runs out at each level of the walk. The proofs remove these bounds.
* `Boot`: 7 descriptors of which vector 0 is an unused system vector and vector 1
  the last reserved one (`Reserved` = 1), hence 5 vectors for four registrants,
  which is enough to run out of stubs, to reset another's stub and to write behind
  the last. 15 tables (6 that work, 9 that do not), each region refused, six
  machines with an active device, four workloads of up to 5 calls. The proofs remove
  the bounds for all properties but `BootCompletes`.
* `KList`: two lists, three elements: empty, one-element and longer lists, and
  deletion of the first, middle and last element.
* `KMalloc`: three sizes with two objects each, requests of 0, below, at and above
  each size; caches missing in every combination.
* `Strings`: every memory of 5 bytes over {0, 1, 255} with every legal call: two
  non-empty strings side by side with room to append, every overlap of up to 4
  bytes.
* `Format`: all combinations of the flags with three widths, five precisions,
  three lengths, six conversions and six arguments at the limits of the types
  (52 thousand directives); a long format to sinks of every size up to 42, longer
  than the largest int; padding in portions of 3.

Deadlock is checked in the `PhysMM` and `LogRing` runs. It is off for
`SlabCache`, `Mmio`, `VirtMM` and `Boot`, where the code really stops: a CPU halts
in the exception handler, possibly with a lock, or the boot code panics or waits
for a tick that does not come. It is off for `MCLib`, where a call returns.

Fairness. `SlabCache!FairSpec` and `LogRing!FairSpec` assume weak fairness of the
steps of a CPU inside of its critical section. These CPUs run without being
scheduled away (there is no scheduler), so each of their steps that stays
possible is taken. Nothing is assumed about who wins a free spin lock.
`Boot!Fairness` assumes that the processor executes its next instruction, that the
local APIC delivers a vector that it may deliver for as long as it waits, and that
a running timer counts to its end. `BootCompletes` further excludes what the code
cannot survive: a device that the firmware left active on the last pin, and a
one-shot that ends while the processor is still on its way to the `hlt` (the flag
is tested, then the processor halts: a tick in between is lost). The second is a
matter of 1 ms and a few instructions, and real.

## Findings

Five times a comment or a test of the repository says something else than the
code does and a violation run has the counterexample; `PROJECT.json` quotes both
sides.

1. `free_page`'s bounds test adds word and bit index (`physmm.cc:429`).
2. The metadata loops run one page too far (`physmm.cc:163`, `179`).
3. `get_object` returns with the lock taken (`cache.cc:484`).
4. An only child is lost when its parent is released (`mmio.cc:186`).
5. `slist_add_tail` appends to empty lists only (`list.h:208`): its loop looks for a
   null link, and an slist is a circle. The unit test adds three elements and looks at
   the first only (`list.tt:273`).

Two more comments disagree with the code, without a run of their own: "mask all"
at `ioapic.cc:81` (the last pin is not masked) and the rule on locks at `cache.cc:41`
(next list). What else was seen while modelling, also without a run:

* `get_page_map` compares a page with a size in bytes (`physmm.cc:484`,
  `HasPageMap`): only the lower eighth of the pages has metadata to look up.
* `_slab_alloc` clears its storage before it checks the pointer (`cache.cc:191`):
  running out of pages is a page fault (`get_object_fault`, `slab_alloc_fault`).
* Methods with an underscore do take further locks, those of the two pools
  (`cache.cc:204`), against the comment at `cache.cc:41`.
* `reap` keeps the slabs it released on their list (`cache.cc:593`, not modelled).
* `activate_region` ignores that `map_fixed` failed (`mmio.cc:277`).
* Regions that touch are nested (`mmio.cc:105`), and then taken for mapped; the last
  page of a region that does not start with a page is not mapped (`mmio.cc:275`);
  `_find_shared` returns the region it descended into (`mmio.cc:96`,
  `FindShared`); a range behind the root follows a null pointer (`mmio.cc:113`,
  `request_outside`).
* `map_address` maps page 0 when no page is left, and an address with the base
  offset otherwise, which `free_page` later refuses (`virtmm.cc:258`).
* `map_address_range` unmaps `n - 1` of the `n` pages it mapped when it fails, and
  never returns for `n` below 2 (`virtmm.cc:279`, `BacktrackOneShort`).
* The calibration's loop may halt behind the tick it waits for (`lapic.cc:177`); a
  tick of the firmware's programming may end the first `hlt` (`pit.cc:54`).
* A one-shot handler that arms the timer again loses the handler it sets
  (`pit.cc:100`).
* `release_irq_handler` resets the stub of another vector, or memory behind the
  stubs (`idt.cc:250`).
* The IO APIC's last pin is not masked (`ioapic.cc:79`); a base other than 0 is not
  taken off the pin's number (`ioapic.cc:119`).
* The NMI of a local APIC is written to a reserved register, so that its pin stays
  masked (`lapic.cc:256`); active low is set in bit 12 (`lapic_flags`); a message to
  id 0 goes to the target before (`lapic.cc:432`); `set_timer` with less than 1000
  stops the timer (`lapic.cc:232`).
* `parse_madt` uses a null pointer for a local NMI of the processor behind the last
  (`acpi.cc:287`).
* `krealloc` loses every block it moves (`kmalloc.cc:150`).
* The mutable hlist loop reads through a null pointer when the list is empty
  (`list.h:287`).
* `strstr` does not find an empty string in an empty one (`strxxx.cc:193`).
* `_vcbprintf`: the differences from C are the disjuncts of `Deviates`; a format that
  ends inside of a directive is read on behind its end (`_vcbprintf.cc:290`).

## Proofs

`PhysMM_proofs` proves the six invariants of `physmm_map64` for every map size,
reserved set, client set and range bound that satisfies the module's
assumptions: the map has at least 8 bytes (the smallest of the unit tests), page
0 is reserved (the kernel's `init` frees nothing below the kernel), the linear
mapping starts above all physical addresses, ranges are shorter than 4 GB. The
invariants are not inductive one by one: that a free is not refused depends on
where the block lies, that allocation does not hand out a page twice depends on
the bitmap showing all held pages, and that the counter is right after a free
depends on the block having been marked. `IInv` therefore joins them with
`BlocksPlaced` (every block starts at a page of the map other than 0, at an
address under one of the two bases). The argument goes: a search returns free
pages only (`SearchFound`); the counter follows the bitmap (`MarkUsedCount`,
`MarkFreeCount`, with the cardinality theorems); a held block passes the odd
bounds tests in full (`BoundsTestsPass`, `TrimRange`: word index plus bit index
of a page inside of the map is below the number of pages); a stray free changes
no bit (`StrayHarmless`).

`LogRing_proofs` proves the type invariant, `MessageUnbroken`,
`PortAllOrNothing` and the refinement `Spec => ImplementsLog` for every ring of
at least two characters and any set of CPUs. The inductive invariant adds
`LockHeld` (the CPUs inside of printk are the holder of the lock, at most one).
The refinement rests on `StoreStep`: the new contents are the old ones, without
the oldest character if the ring was full, followed by the new character.

`KMalloc_proofs` proves `MovedBlocksLost` and `BlocksFit` for every finite table of
sizes and all requests. The counting needs that both sides are finite sets, which
`KTypeOK` adds; then each call changes the number of objects handed out and of
blocks held by the same amount, or `moved` by one. `FreshIsLargeEnough` says that the
search over the table finds the first size not below the request, and
`CopyLengthFits` that krealloc's length is inside of the old and of the new object.

`SlabCache_proofs` proves `BuffersConserved`, `ListsSorted`, `FramesConserved` and
`StructuresExclusive` for any number of CPUs and frames and any finite sets of
caches. None of these is inductive: a CPU in the middle of `_slab_alloc` holds a
frame, a slab structure and some bufctls that are on no list, in a cache it has
locked, and it may be inside of a pool that another CPU wants to grow. `IInv` says
for every builder what it has fetched so far (`BuildShape`), that it holds the lock
of its cache, and of the pool while it is inside (`LocksHeld`), that each frame is
in one place (`Placed`), each pool object with one owner that is a slab, a builder
or nobody (`Structures`, `FromSlabs`, `OneOwner`), and that the buffers that are out
are those missing on the lists (`Exact`).

`VirtMM_proofs` proves `TablesExclusive`, `BacktrackOneShort` and the refinement of
`FlatMap` for tables of any width, any finite set of frames and ranges of any
length. `VInv` has the tree of tables (an entry above the last level is a frame
that no other entry names and that physmm does not have: `Graded`), that the pages
of `map_address` have their tables and lead to no frame that physmm knows (`Own`),
and for each loop what it has done so far (`Loop`): which
pages of the range are mapped, unmapped, or still to come. From the tree follows
that a store to a table changes the walk of one page only, hence the refinement.
The theorems carry the hypothesis `[](Runaway => Apart)`. A backtrack with the count
0 never ends (`virtmm.cc:277`): it unmaps what it finds mapped in front of it and gives
it to physmm, up to the first missing table, where it stays (`virtmm.cc:161`). If the kernel itself has mapped physmm's frames (`_create_system_vm`
maps all physical memory), it frees tables that are in use, and nothing can be said
from there on. The hypothesis is that not both happen. It is true of every
behaviour if `Device` is apart from `Frames`, as in the instance TLC checks, and of
every behaviour without an endless backtrack in any case.

`Boot_proofs` proves all safety properties of the `boot` run for all machines,
vectors, registrants and calls. What is assumed of a machine is `MachineOK`: a table,
if there is one, is a sequence of entries of the known kinds, in any number and order,
with any flags, ids and pins that their fields can hold.

* `RightHandler` and `Exclusive`. `IdtInv` ties the three tables to each other: a
  vector that is held, and whose stub no release has reset, has a present gate to its
  own stub, which pushes the vector's number and the holder's context, and the
  holder's entry in the pointer table (`Wired`). It also says how far a registration
  has come (`Registering`), because the gate is opened last and must find the rest in
  place, and that the vector a call works on is nobody else's. The loop over the
  system vectors needs an argument of its own: the i-th used vector meets the i-th
  stub although the unused ones have none (`SystemStubIsOwn`, by counting). Every
  other step of the kernel leaves the tables alone or is one of `Idt` (`NextOnTable`).
* `IpiReaches`. `IpiInv` keeps what the command register's target was last set to.
* `SourcesHandled`. `SourceInv` follows every pin through the boot (`PinsInv`): it is
  as the firmware left it until the second run has passed its IO APIC (`Pending`),
  then masked, or one that `ioapic::init` does not get at (`RawPin`), or routed to a
  vector that was given away (`OpenPin`). Before the end of init that vector can only
  be the timer's, since just two handlers are registered (`TwoVectors`: the first two
  stubs, hence the first two vectors). The local APICs are untouched until
  `lapic::init` has masked their entries (`EarlyLapics`, `LateLapic`). A vector that
  was given once keeps its gate to a stub, also after its release (`GivenStays`).
* `PlatformAsListed`. `ListInv` has a loop invariant per run: after the entries below
  `plat.at`, the target of a source is that of its last override so far (`TargetInv`),
  the NMI pin of a local APIC that of the last entry so far that names its processor
  (`LintInv`), and the pins of the NMI sources so far are set up (`NmiInv`, of the
  IO APICs, whose ranges and order no later entry changes). `LastBelow` is the step
  of such a loop: what the last of some places is when one more has been passed. The
  runs are steps of `Boot` and not folds for the sake of this proof, which needs no
  induction over the table then.
* `OnlyBootable`. `RunInv` says which entries a run did not fault at, `RegionInv` which
  regions were granted. The heart is `EdgeBootable`: an edge that is latched with the
  timer's vector before the end of init has gone through a pin that the kernel routed,
  and such a pin is that of the timer's line only if the IO APIC counts from 0; so
  everything that `Bootable` asks for holds by then. Both waits need the interrupt.
* `OwnTick`. `TickInv` says of the tick that waits in the local APIC whose it is, for
  each phase of the start (`Phases`): the firmware's until the timer is programmed;
  then that of the first one-shot, which is still to come exactly if a tick of the
  firmware's ended the first `hlt`; then that of the calibration. `HandlerInv` says
  that the calibration's handler is set once and runs once, `WaitInv` that nothing
  but the timer's vector waits. That the handler runs with its context rests on
  `RightHandler`.

`OnlyBootable` and the first half of `OwnTick` are about machines that are `Undisturbed`:
the firmware left no pin open with one of the kernel's first two vectors, and no device
active on a pin that `set_route` may take for the timer's. The hypothesis came out of
the proof. Without it both are false, as TLC shows on such machines: the interrupt of
the device runs the timer's handler, which takes it for a tick. The earlier statements
had no such hypothesis and held only because no such machine was among the instances;
two of this kind are in `MCBoot` now.

`Mmio_proofs` proves all four invariants of `mmio_nested` for any finite sets of
drivers and resources and all requests. `MmioInv` joins them with the links
(`Linked`: every resource on a list is alive, is there once, names the list's owner
as its parent and has its root; also where resources dropped out of the tree, since
they keep what they have below), with `Nested` (a region that is not in `loose` is
covered by all its ancestors) and with the fact that a driver with a request has no
region. Trees and ancestors are least closed sets, and the lemmas say what joining
(`JoinReach`) and leaving (`LeaveReach`) do to them: a tree grows by the new resource
only, and nobody gets another ancestor. That `_add_nested` ends in the tree is a
pigeonhole argument over the finite set of resources (`PlaceInTree`): a descent that
never stops would have more resources than first children. `ActivatedMapped` rests
on `CoverPages`, that the page of every address of the inner region is met by the
loop over the outer one. `TreeExclusive` says nothing of regions that dropped out of a
tree, and `ActivatedMapped` nothing of the pages in `unbacked`, in the theorems as in
the run. The first attempt at this proof failed on an earlier
statement of `ActivatedMapped`, without `loose`: it held on the instance that TLC
checked, and TLC found the two exceptions above once regions that touch and that
do not start with a page were among the requests, where they now are.

`KList_proofs` proves the three properties of the lists that hold for any heads and any finite
set of elements (`ListAssumption`: heads, elements and the null pointer differ). The
invariant is about links, not about walks: `Shape` says that there are sequences, one
per head, without a common element, such that each node's `next` leads to the node
behind it and, where the kind of list has links back, that one's `prev` to the node
itself, and that a node on no list has no links. `FollowLeads` then shows that reading
the links yields just those sequences, since a sequence without repetitions is no
longer than the set of elements. An operation that links one element in (`AddShape`),
takes one out (`DelShape`) or moves a whole list (`SpliceShape`) keeps the shape for the
changed sequences, whatever the kind of list; each action is one of these or does
nothing, which is also what the refinement needs (`LinkStep`). For the loops the
invariant has to know where both pointers stand (`Spot`): what is on the list behind
its first `d` elements is what is left to visit, `ptr` is at the first of it and `ref`
at the second. That `ref` is read before the body is what makes a deletion harmless
(`DeleteVisits`): the node that follows is the same before and after.

Only model-checked:

* the liveness properties `BuildTerminates`, `LockReleased` and `BootCompletes`:
  liveness under fairness is out of the prover's reach;
* `CallsExact` of `Strings`, `CountExact` and `FormatsAsC` of `Format`: what their
  recursive functions and folds compute for every input needs induction over data,
  which the prover cannot do either.

## Plan

Modelled: the memory management, the kernel log, the start of the bootstrap
processor with its interrupts, and the library. Proved: every safety property and
every refinement that a passing run checks, but for those of strings and formatted
output. Next:

1. `PhysInit`: construction of the bitmap from the boot loader's memory map,
   establishing `PhysMM!Init`.

## Not modelled

* Boot assembly, descriptor encodings (GDT, TSS, the bits of a gate), the multiboot
  data layout, the toolchain, packaging and the vendored unit test framework: data
  formats and I/O without state a model checker would explore.
* The application processors: no code starts them, and they would share one boot
  stack (FIXME in `boot.S`). INIT and SIPI messages, `clr_nmi` and the destructors of
  the controllers have no caller either.
* Search and checksums of the ACPI tables: the parser is given a table or none.
* `reap()` and `release()` of the slab caches, without a caller; `physmm::init`, which
  appears as the state it leaves behind.
* C++ run time support (`cxxabi.cc`): there are no function local statics, and the
  exit handlers never run.
* `spin_lock_irqsafe`, which nothing uses; it disables interrupts after it took the
  lock, so that an interrupt in between would spin on its own CPU's lock.

Some weak spots of the code are in the models but no property is about them,
because no line of the repository says what should happen instead: the page number
that `physmm.cc:484` compares with a size in bytes, the 32 bit product of
`physmm.cc:407` (ranges are bounded below it), the storage that `cache.cc:191` clears
and the resource that `mmio.cc:214` uses before the check for null, a range behind
the root (`mmio.cc:113`), the hole at which `virtmm.cc:161` does not advance, the
page 0 that `virtmm.cc:258` maps when there is no memory, the unit of
`lapic.cc:232`, the register number of `lapic.cc:256`, and a format that ends inside
of a directive (`_vcbprintf.cc:290`). Others need processors that nothing starts:
the shared `_gdtr` (`gdt.cc:118`), `_aps[id]` (`core.cc:186`), and the translation
buffers of the other cores (`virtmm.cc:185`).
