-------------------------------- MODULE Mmio --------------------------------
(***************************************************************************)
(* The registry of memory mapped and port regions,                         *)
(* src/kernel/memory/mmio.cc: two trees of resources, in which a driver    *)
(* reserves a range before it touches the device behind it.                *)
(*                                                                         *)
(* A resource is a slot of the heap.  "range" is the first address behind  *)
(* the region, as in the code.  The children of a resource are a list,     *)
(* whose order decides where the next region is put.                       *)
(*                                                                         *)
(* Each section under _mmio_resource_lock is one action.  request_region   *)
(* has two of them: it looks for a region to share, opens the lock, and    *)
(* takes it again to insert a new one.                                     *)
(***************************************************************************)
EXTENDS Integers, Sequences, SequencesExt, FiniteSets

CONSTANTS
  Clients,    \* drivers, each of which asks for one region at a time
  Slots,      \* the resources the heap has room for
  MemRoot, PortRoot,
  Limit,      \* per root: its range
  Requests,   \* the requests the clients make
  PageSize,
  None        \* no resource, no request

Roots == {MemRoot, PortRoot}
Nodes == Roots \cup Slots

Request == [root : Roots, start : Nat, range : Nat, busy : BOOLEAN, shared : BOOLEAN]

\* A slot that holds no region.
Unused == [root |-> MemRoot, start |-> 0, range |-> 0, busy |-> FALSE, shared |-> FALSE]

ASSUME MmioAssumption ==
  /\ Limit \in [Roots -> Nat]
  /\ Requests \subseteq Request
  /\ \A q \in Requests : q.start < q.range
  /\ PageSize \in Nat \ {0}
  /\ IsFiniteSet(Clients) /\ IsFiniteSet(Slots)
  /\ Roots \cap Slots = {} /\ MemRoot # PortRoot
  /\ None \notin Nodes /\ None \notin Request

VARIABLES
  region,    \* start, range and flags of each resource
  mapped,    \* the resources with the Mapped flag
  refcount,
  parent,
  children,  \* the list of children, first one first
  alive,     \* the slots in use
  vmap,      \* the pages virtmm has mapped
  unbacked,  \* history: the pages that map_fixed failed to map
  want,      \* per client: the request it is working on
  handle,    \* per client: the region it holds
  halted,    \* clients stopped by a page fault
  locked,    \* _mmio_resource_lock was taken by a client that halted
  loose,     \* history: regions that were not nested properly, see Firm
  wild       \* a list link inside of a deleted resource was written

vars == <<region, mapped, refcount, parent, children, alive, vmap, unbacked, want,
          handle, halted, locked, loose, wild>>

tree == <<region, mapped, refcount, parent, children, alive, vmap, unbacked, loose>>

-----------------------------------------------------------------------------
(* Looking at the tree *)

\* What can be reached from n by steps, which are pairs of resources: what is in
\* every set that holds n and that no step leads out of.  Only n and the ends of
\* steps can be.
Reach(n, steps) ==
  LET ends   == ({n} \cup {e[2] : e \in steps}) \cap Nodes
      closed == {S \in SUBSET ends : n \in S /\ \A e \in steps : e[1] \in S => e[2] \in S}
  IN  {m \in ends : \A S \in closed : m \in S}

\* The resources that a walk over the lists of children visits from n.
Below(n) == Reach(n, UNION {{<<m, k>> : k \in ToSet(children[m])} : m \in Nodes})

\* The resource and its ancestors; a root has no parent.
Ancestry(r) == Reach(r, {<<n, parent[n]>> : n \in {m \in Nodes : parent[m] # None}})

\* Mutation: the test for an overlap with the end of the region is missing.
CollidesStartOnly(n, q) ==
  LET r == region[n] IN
  \/ q.start < r.start /\ q.range > r.start
  \/ q.start >= r.start /\ q.range <= r.range /\ r.busy

\* The condition of _check_resource: q overlaps one end of the region, or fits
\* in although the region is busy.
Collides(n, q) ==
  LET r == region[n] IN
  \/ q.start < r.start /\ q.range > r.start
  \/ q.start < r.range /\ q.range > r.range
  \/ q.start >= r.start /\ q.range <= r.range /\ r.busy

\* _check_resource finds a collision anywhere below the root.
CheckResource(q) == \E n \in Below(q.root) : Collides(n, q)

MatchesShared(n, q) ==
  region[n].start = q.start /\ region[n].range = q.range /\ region[n].shared

\* _find_shared: not the region that matches, but the child of the root above
\* it, since every level returns its own child.
FindShared(q) ==
  LET i == SelectInSeq(children[q.root],
                       LAMBDA n : \E m \in Below(n) : MatchesShared(m, q))
  IN  IF i = 0 THEN None ELSE children[q.root][i]

PossibleSibling(n, q) == q.range < region[n].start \/ q.start > region[n].range

-----------------------------------------------------------------------------
(* Changing the tree *)

\* Where _add_nested puts a region: it goes down along the first children for
\* as long as those are no possible siblings.  (The loop over the children
\* never gets past the first one, whose branch always succeeds.)
StopsAt(n, q) == children[n] = <<>> \/ PossibleSibling(children[n][1], q)
Descent(q) ==
  Reach(q.root, {<<n, children[n][1]>> : n \in {m \in Nodes : ~StopsAt(m, q)}})
Place(q) == CHOOSE n \in Descent(q) : StopsAt(n, q)

\* The position in a list of siblings: in front of the first one behind its
\* head element that starts later, else at the end.  (The loop also visits the
\* list's head and takes the parent's flags and refcount for a start address
\* above all others, so it always ends there.)
InsertSorted(list, s, start) ==
  LET later == {i \in 2 .. Len(list) : region[list[i]].start > start}
  IN  IF list = <<>> THEN <<s>>
      ELSE IF later = {} THEN Append(list, s)
      ELSE InsertAt(list, Min(later), s)

\* Mutation: children keep the deleted resource as their parent.
ReleaseResourceKeepsParent(r) ==
  LET kids == children[r]
      p    == parent[r]
      i    == CHOOSE j \in 1 .. Len(children[p]) : children[p][j] = r
      list == children[p]
  IN  /\ parent' = parent
      /\ children' = [children EXCEPT
           ![p] = SubSeq(list, 1, i - 1) \o (IF Len(kids) > 1 THEN kids ELSE <<>>)
                    \o SubSeq(list, i + 1, Len(list)),
           ![r] = <<>>]

\* _release_resource for the last reference: the children move up to the
\* place of the resource.  list_splice does nothing for a list of one element,
\* so that a single child drops out of the tree.
ReleaseResource(r) ==
  LET kids == children[r]
      p    == parent[r]
      i    == CHOOSE j \in 1 .. Len(children[p]) : children[p][j] = r
      list == children[p]
  IN  /\ parent' = [n \in Nodes |-> IF n \in ToSet(kids) THEN p ELSE parent[n]]
      /\ children' = [children EXCEPT
           ![p] = SubSeq(list, 1, i - 1) \o (IF Len(kids) > 1 THEN kids ELSE <<>>)
                    \o SubSeq(list, i + 1, Len(list)),
           ![r] = <<>>]

-----------------------------------------------------------------------------
(* request_region *)

Running(c) == c \notin halted /\ ~wild

\* A request starts.  One that may share a region looks for it first.
request_region(c, q) ==
  /\ Running(c) /\ handle[c] = None /\ want[c] = None
  /\ ~q.shared \/ (~locked /\ FindShared(q) = None)
  /\ want' = [want EXCEPT ![c] = q]
  /\ UNCHANGED <<tree, handle, halted, locked, wild>>

\* Mutation: the reference is not counted.
request_shared_uncounted(c, q) ==
  /\ Running(c) /\ handle[c] = None /\ want[c] = None
  /\ q.shared /\ ~locked /\ FindShared(q) # None
  /\ handle' = [handle EXCEPT ![c] = FindShared(q)]
  /\ UNCHANGED <<tree, want, halted, locked, wild>>

\* It finds one and gets another reference to it.
request_shared(c, q) ==
  /\ Running(c) /\ handle[c] = None /\ want[c] = None
  /\ q.shared /\ ~locked /\ FindShared(q) # None
  /\ refcount' = [refcount EXCEPT ![FindShared(q)] = @ + 1]
  /\ handle' = [handle EXCEPT ![c] = FindShared(q)]
  /\ UNCHANGED <<region, mapped, parent, children, alive, vmap, unbacked, want,
                 halted, locked, loose, wild>>

Working(c) == Running(c) /\ want[c] # None

\* The exception handler stops the CPU; its request is gone.
Halt(c) == halted' = halted \cup {c} /\ want' = [want EXCEPT ![c] = None]

\* The heap, which others use too, has no memory left: the new resource is
\* filled in without looking at the pointer, which faults.
request_no_memory(c) ==
  /\ Working(c)
  /\ Halt(c)
  /\ UNCHANGED <<tree, handle, locked, wild>>

\* Another region is in the way: nullptr.
request_refused(c) ==
  /\ Working(c) /\ ~locked
  /\ CheckResource(want[c])
  /\ want' = [want EXCEPT ![c] = None]
  /\ UNCHANGED <<tree, handle, halted, locked, wild>>

\* The range lies behind the root's: _add_nested takes it for a sibling of the
\* root, which is on no list, and follows a null pointer with the lock taken.
request_outside(c) ==
  /\ Working(c) /\ ~locked
  /\ ~CheckResource(want[c]) /\ PossibleSibling(want[c].root, want[c])
  /\ Halt(c)
  /\ locked' = TRUE
  /\ UNCHANGED <<tree, handle, wild>>

Inside(x, y)  == x.start >= y.start /\ x.range <= y.range

\* Whether a region below p is nested properly: it lies inside of every region
\* above it, the loop of activate_region covers those, since they start with a
\* page, and so it was with each of them.
Firm(q, p) ==
  \A a \in Ancestry(p) :
    a \notin loose /\ Inside(q, region[a]) /\ region[a].start % PageSize = 0

\* The new resource s joins the tree.
request_granted(c, s) ==
  /\ Working(c) /\ s \notin alive /\ ~locked
  /\ ~CheckResource(want[c]) /\ ~PossibleSibling(want[c].root, want[c])
  /\ LET q == want[c]
         p == Place(q)
     IN  /\ region' = [region EXCEPT ![s] = q]
         /\ parent' = [parent EXCEPT ![s] = p]
         /\ children' = [children EXCEPT ![p] = InsertSorted(@, s, q.start), ![s] = <<>>]
         /\ refcount' = [refcount EXCEPT ![s] = 1]
         /\ loose' = IF Firm(q, p) THEN loose \ {s} ELSE loose \cup {s}
  /\ mapped' = mapped \ {s}
  /\ alive' = alive \cup {s}
  /\ handle' = [handle EXCEPT ![c] = s]
  /\ want' = [want EXCEPT ![c] = None]
  /\ UNCHANGED <<vmap, unbacked, halted, locked, wild>>

-----------------------------------------------------------------------------
(* release_region *)

Holds(c) == Running(c) /\ handle[c] # None

InTree(r) == \E root \in Roots : r \in Below(root)

\* The resource is on the list of another one, which need not be in a tree itself.
Listed(r) == \E n \in Nodes \ {r} : r \in ToSet(children[n])

LetGo(c) == handle' = [handle EXCEPT ![c] = None]

\* Others still share the region.
release_shared(c) ==
  /\ Holds(c) /\ ~locked /\ refcount[handle[c]] > 1
  /\ refcount' = [refcount EXCEPT ![handle[c]] = @ - 1]
  /\ LetGo(c)
  /\ UNCHANGED <<region, mapped, parent, children, alive, vmap, unbacked, want,
                 halted, locked, loose, wild>>

\* The last reference: the resource is unlinked and deleted.  Its memory keeps
\* the Mapped flag and the parent for a child that dropped out of the tree.
release_last(c) ==
  /\ Holds(c) /\ ~locked /\ refcount[handle[c]] < 2 /\ Listed(handle[c])
  /\ ReleaseResource(handle[c])
  /\ refcount' = [refcount EXCEPT ![handle[c]] = 0]
  /\ alive' = alive \ {handle[c]} /\ loose' = loose \ {handle[c]}
  /\ region' = [region EXCEPT ![handle[c]] = Unused]
  /\ LetGo(c)
  /\ UNCHANGED <<mapped, vmap, unbacked, want, halted, locked, wild>>

\* The last reference to a resource that dropped out of the tree: list_del
\* writes to the list head of its deleted parent.  The slot may be in use
\* again by then, and the model follows the kernel no further.  (What is on the
\* list of such a resource is released like any other.)
release_lost(c) ==
  /\ Holds(c) /\ ~locked /\ refcount[handle[c]] < 2 /\ ~Listed(handle[c])
  /\ wild' = TRUE
  /\ UNCHANGED <<tree, want, handle, halted, locked>>

-----------------------------------------------------------------------------
(* activate_region *)

\* The pages that the loop over the region maps.
LoopPages(r) == {a \div PageSize : a \in {b \in region[r].start .. region[r].range - 1 :
                                            (b - region[r].start) % PageSize = 0}}

\* Mutation: only the first page is mapped.
NewPagesFirst(r) == {region[r].start \div PageSize}

\* Nothing, if any resource up to the root is mapped already.
NewPages(r) == IF Ancestry(r) \cap mapped # {} THEN {} ELSE LoopPages(r)

\* map_fixed fails for a page if it needs a table and no frame is left; the loop
\* goes on with the next page, and the region counts as mapped in any case.  A
\* page that is mapped has its tables.  (Other users of physmm may free a frame
\* between two pages, so that any of the new ones may fail.)
activate_region(c) ==
  /\ Holds(c)
  /\ IF region[handle[c]].root = PortRoot THEN UNCHANGED <<mapped, vmap, unbacked>>
     ELSE /\ ~locked
          /\ \E failed \in SUBSET (NewPages(handle[c]) \ vmap) :
               vmap' = vmap \cup (NewPages(handle[c]) \ failed)
          /\ unbacked' = (unbacked \cup NewPages(handle[c])) \ vmap'
          /\ mapped' = mapped \cup {handle[c]}
  /\ UNCHANGED <<region, refcount, parent, children, alive, want, handle,
                 halted, locked, loose, wild>>

-----------------------------------------------------------------------------
Init ==
  /\ region = [n \in Nodes |->
                 IF n \in Roots THEN [Unused EXCEPT !.root = n, !.range = Limit[n]]
                                ELSE Unused]
  /\ mapped = {}
  /\ refcount = [n \in Nodes |-> IF n \in Roots THEN 1 ELSE 0]
  /\ parent = [n \in Nodes |-> None]
  /\ children = [n \in Nodes |-> <<>>]
  /\ alive = {}
  /\ vmap = {}
  /\ unbacked = {}
  /\ want = [c \in Clients |-> None]
  /\ handle = [c \in Clients |-> None]
  /\ halted = {}
  /\ locked = FALSE
  /\ loose = {}
  /\ wild = FALSE

Next ==
  \E c \in Clients :
    \/ \E q \in Requests : request_region(c, q)
    \/ \E q \in Requests : request_shared(c, q)
    \/ request_no_memory(c)
    \/ request_refused(c)
    \/ request_outside(c)
    \/ \E s \in Slots : request_granted(c, s)
    \/ release_shared(c)
    \/ release_last(c)
    \/ release_lost(c)
    \/ activate_region(c)

Spec == Init /\ [][Next]_vars

-----------------------------------------------------------------------------
(* Properties *)

Overlap(x, y) == x.start < y.range /\ y.start < x.range

\* Two regions of a tree overlap only if one lies inside of the other and the
\* outer one is not busy, in whatever order regions were nested, moved up and
\* released: no driver gets a range that is busy in the tree.  That is not every
\* range that another driver reserved.  A region that dropped out when the one
\* around it was released (mmio.cc:186, see NestedKept) still has its holder, but
\* no request collides with it: its range is granted again, busy or not.
TreeExclusive ==
  \A root \in Roots : \A m, n \in Below(root) :
    m # n /\ Overlap(region[m], region[n]) =>
      \/ Inside(region[m], region[n]) /\ ~region[n].busy
      \/ Inside(region[n], region[m]) /\ ~region[m].busy

\* The trees are trees of live resources: each is on one list, once, that of
\* the parent it names, so that activate_region walks up to the root.
TreeWellFormed ==
  \A root \in Roots : \A n \in Below(root) :
    /\ n \in alive \cup Roots
    /\ \A i, j \in 1 .. Len(children[n]) : i # j => children[n][i] # children[n][j]
    /\ \A m \in ToSet(children[n]) : parent[m] = n

\* A region lives as long as one of its holders: refcount counts the handles,
\* and nobody holds a deleted resource.
RefcountExact ==
  \A r \in Slots :
    LET holders == {c \in Clients : handle[c] = r}
    IN  IF r \in alive THEN refcount[r] = Cardinality(holders) ELSE holders = {}

\* activate_region has asked map_fixed for every page of a region, in its own loop
\* or in that of an ancestor that was mapped before, and this stays so when
\* ancestors are released: the pages are mapped but for those for which map_fixed
\* failed, which nobody notices (mmio.cc:277).  The exceptions are regions that
\* dropped out of the tree, and those that were not nested properly: _add_nested
\* puts a region also below one that it only touches (mmio.cc:105), and the loop
\* misses the last page of a region that does not start with a page (mmio.cc:275).
ActivatedMapped ==
  \A r \in (mapped \cap alive) \ loose : InTree(r) => LoopPages(r) \subseteq vmap \cup unbacked

\* The unit test releases a region with two regions inside (mmio.tt:252) and
\* expects them to move to its parent: no region drops out of the tree.
NestedKept == \A r \in alive : InTree(r)
=============================================================================
