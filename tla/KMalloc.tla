------------------------------- MODULE KMalloc ------------------------------
(***************************************************************************)
(* kmalloc, kfree and krealloc, src/kernel/memory/kmalloc.cc, with the     *)
(* operators new and delete that stand for them (src/kernel/lib/           *)
(* cxxalloc.cc), over one slab cache per size.                             *)
(*                                                                         *)
(* A cache is the set of its objects, any of which get_object may hand     *)
(* out, and it may fail (SlabCache models what is inside).  taken is what  *)
(* the caches have handed out, held what the callers still know of.        *)
(***************************************************************************)
EXTENDS Integers, FiniteSets, FiniteSetsExt, Functions

CONSTANTS
  Sizes,     \* _kmalloc_cache_table
  Compact,   \* the sizes whose caches keep their bufctl behind the object
  Objects,   \* bound: the objects of one cache
  Requests   \* the sizes that callers ask for

ASSUME KMallocAssumption ==
  /\ Sizes \subseteq Nat \ {0} /\ IsFiniteSet(Sizes) /\ Sizes # {}
  /\ Compact \subseteq Sizes
  /\ Requests \subseteq Nat

VARIABLES
  caches,  \* the sizes whose caches exist
  taken,   \* objects handed out, each as its size and a number
  held,    \* the callers' blocks: object and size asked for
  copied,  \* the last memcpy of krealloc: old and new object, length
  moved,   \* number of blocks that krealloc has moved
  kstate   \* "boot", "running", "panic", "fault" or "corrupt"

kvars == <<caches, taken, held, copied, moved, kstate>>

Heap == Sizes \X Objects
Running == kstate = "running"

\* _lookup_cache_for_size: the first in the table that is large enough, 0 if none.
lookup_cache_for_size(n) ==
  IF \A s \in Sizes : n > s THEN 0 ELSE Min({s \in Sizes : n <= s})

Served(n) == lookup_cache_for_size(n) \in caches
Fresh(n) == {o \in Heap \ taken : o[1] = lookup_cache_for_size(n)}

-----------------------------------------------------------------------------
\* init: a cache that could not be created stays a null pointer.
kmalloc_init(created) ==
  /\ kstate = "boot"
  /\ caches' = created
  /\ kstate' = "running"
  /\ UNCHANGED <<taken, held, copied, moved>>

\* kmalloc, operator new and operator new[].
kmalloc(n) ==
  /\ Running /\ Served(n)
  /\ \E o \in Fresh(n) : /\ taken' = taken \cup {o}
                         /\ held' = held \cup {[at |-> o, size |-> n]}
  /\ UNCHANGED <<caches, copied, moved, kstate>>

\* Too large, or get_object has nothing left: a null pointer is returned.
kmalloc_null(n) ==
  /\ Running /\ (lookup_cache_for_size(n) = 0 \/ Served(n))
  /\ UNCHANGED kvars

\* The cache does not exist: get_object takes the lock of a null pointer.
kmalloc_fault(n) ==
  /\ Running /\ lookup_cache_for_size(n) \in Sizes \ caches
  /\ kstate' = "fault"
  /\ UNCHANGED <<caches, taken, held, copied, moved>>

\* Mutation: the object does not go back.
kfree_keeps(b) ==
  /\ Running
  /\ held' = held \ {b}
  /\ UNCHANGED <<caches, taken, copied, moved, kstate>>

\* kfree, operator delete and operator delete[].
kfree(b) ==
  /\ Running
  /\ taken' = taken \ {b.at}
  /\ held' = held \ {b}
  /\ UNCHANGED <<caches, copied, moved, kstate>>

\* Freeing or deleting a null pointer, or what is no object of a cache.
kfree_panics ==
  /\ Running
  /\ kstate' = "panic"
  /\ UNCHANGED <<caches, taken, held, copied, moved>>

\* Mutation: the new size is copied.
CopyLength_new(b, n) == n

\* The bytes that krealloc copies.
CopyLength(b, n) == IF n > b.at[1] THEN b.at[1] ELSE n

\* krealloc.  What is put back is the entry of the table, not the block: it is no
\* object of the cache, so that nothing is found; but for a compact cache, what
\* lies behind the entry is taken for its bufctl.
krealloc(b, n) ==
  /\ Running /\ Served(n)
  /\ \E o \in Fresh(n) :
       /\ taken' = taken \cup {o}
       /\ held' = (held \ {b}) \cup {[at |-> o, size |-> n]}
       /\ copied' = [from |-> b, to |-> [at |-> o, size |-> n], length |-> CopyLength(b, n)]
  /\ moved' = moved + 1
  /\ kstate' = IF b.at[1] \in Compact THEN "corrupt" ELSE kstate
  /\ UNCHANGED caches

\* Without a block for the new size the caller gets the old pointer back, which
\* it cannot tell from success.
krealloc_same(b, n) ==
  /\ Running /\ (lookup_cache_for_size(n) = 0 \/ Served(n))
  /\ UNCHANGED kvars

-----------------------------------------------------------------------------
KMallocInit ==
  /\ caches = {} /\ taken = {} /\ held = {} /\ moved = 0 /\ kstate = "boot"
  /\ copied = [length |-> 0]

KMallocNext ==
  \/ \E created \in SUBSET Sizes : kmalloc_init(created)
  \/ \E n \in Requests : kmalloc(n) \/ kmalloc_null(n) \/ kmalloc_fault(n)
  \/ \E b \in held : kfree(b)
  \/ kfree_panics
  \/ \E b \in held, n \in Requests : krealloc(b, n) \/ krealloc_same(b, n)

KMallocSpec == KMallocInit /\ [][KMallocNext]_kvars

-----------------------------------------------------------------------------
(* Properties *)

\* Every block that krealloc moves is lost (kmalloc.cc:150), and no other: what
\* the caches have handed out is what the callers hold and one object for each
\* block moved.
MovedBlocksLost ==
  /\ \A b \in held : b.at \in taken
  /\ \A b, c \in held : b.at = c.at => b = c
  /\ Cardinality(taken) = Cardinality(held) + moved

\* A block is as large as was asked for; krealloc copies what both the old and
\* the new caller may use, and reads and writes inside of the two objects.
BlocksFit ==
  /\ \A b \in held : b.size <= b.at[1]
  /\ copied.length # 0 =>
       /\ copied.length <= copied.from.at[1] /\ copied.length <= copied.to.at[1]
       /\ copied.length >= Min({copied.from.size, copied.to.size})
=============================================================================
