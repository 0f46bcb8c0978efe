----------------------------- MODULE SlabCache ------------------------------
(***************************************************************************)
(* The slab object caches, src/kernel/memory/cache.cc.                     *)
(*                                                                         *)
(* A cache hands out objects from slabs; a slab is one backing block       *)
(* (here: a frame of physmm) cut into Cap[c] buffers.  In a compact cache  *)
(* the slab and bufctl structures live inside of the frame.  Any other     *)
(* cache fetches them from two pools, _slab_cache and _bufctl_cache, which *)
(* are compact caches themselves: get_object then calls get_object again,  *)
(* with its own lock held.                                                 *)
(*                                                                         *)
(* Lists are modelled as sets: which slab heads a list and which bufctl    *)
(* heads a slab is left open, so every property holds for any list order.  *)
(*                                                                         *)
(* Granularity.  What an operation does under a cache's lock is invisible  *)
(* to the other CPUs until the lock is released, except for calls into     *)
(* another cache or into physmm.  An operation that makes at most one such *)
(* call is one action.  Building a slab of a cache that is not compact     *)
(* makes many; taking a pool's lock and leaving the pool are actions of    *)
(* their own there, between which the other CPUs run.                      *)
(***************************************************************************)
EXTENDS Integers, FiniteSets

CONSTANTS
  CPUs,
  SlabPool, BufctlPool,  \* _slab_cache and _bufctl_cache
  Compact, External,     \* the clients' caches: compact ones and the others
  Cap,                   \* buffers in a slab, per cache: buff_avail
  Frames,                \* the frames physmm has left
  MaxHeld,               \* bound: objects a CPU keeps
  Nobody,                \* an open lock
  NoBuild                \* a CPU that is not building a slab

Pools  == {SlabPool, BufctlPool}
Caches == Pools \cup Compact \cup External

\* Objects of the pools always fit; a client's objects may not (an object of
\* 4096 bytes with its overflow marker is larger than its slab).
ASSUME CacheAssumption ==
  /\ Cap \in [Caches -> Nat]
  /\ \A c \in Pools \cup Compact : Cap[c] > 0
  /\ SlabPool # BufctlPool
  /\ Pools \cap (Compact \cup External) = {} /\ Compact \cap External = {}
  /\ IsFiniteSet(Compact) /\ IsFiniteSet(External)
  /\ Nobody \notin CPUs

VARIABLES
  lock,     \* mem_cache.lock: its holder
  lists,    \* mem_cache.free, used, full: the slabs on each list
  bufs,     \* slab.bufctls: the free buffers of the slab in a frame
  refs,     \* slab.refs
  hdr,      \* the pool object that holds an external slab structure
  ctls,     \* the pool objects that hold its bufctls
  avail,    \* frames in the hands of physmm
  build,    \* per CPU: the slab that _slab_alloc is working on
  held,     \* per CPU: the objects it got and has not put back
  state     \* per CPU: "running", or "halted" by a page fault

vars == <<lock, lists, bufs, refs, hdr, ctls, avail, build, held, state>>

MaxCap  == CHOOSE n \in {Cap[c] : c \in Caches} : \A c \in Caches : Cap[c] <= n
Objects == Frames \X (1 .. MaxCap)

\* A slab under construction: the cache it is for, its frame, the pool objects
\* fetched so far, and whether the CPU is inside of a pool.
Builds == [cache : External, frame : Frames, hdr : SUBSET Objects,
           ctls : SUBSET Objects, inPool : BOOLEAN]

ASSUME NoBuildAssumption == NoBuild \notin Builds

\* The slabs of a cache.
SlabsOf(c) == lists[c].free \cup lists[c].used \cup lists[c].full

-----------------------------------------------------------------------------
(* One slab and one cache *)

\* _slab_full and _slab_empty, on the values a step is about to write.
SlabFull(B, f)  == B[f] = {}
SlabEmpty(R, f) == R[f] = 0

\* Mutation: the pass over the full list is missing.
CacheSortKeepsFull(L, B, R) ==
  LET mixed == L.used \cup {f \in L.free : ~SlabEmpty(R, f)}
  IN  [full |-> L.full \cup {f \in mixed : SlabFull(B, f)},
       free |-> {f \in L.free : SlabEmpty(R, f)}
                  \cup {f \in mixed : ~SlabFull(B, f) /\ SlabEmpty(R, f)},
       used |-> {f \in mixed : ~SlabFull(B, f) /\ ~SlabEmpty(R, f)}]

\* _cache_sort: partial slabs leave the full and the free list, then full and
\* empty ones leave the used list.
CacheSort(L, B, R) ==
  LET mixed == L.used \cup {f \in L.full : ~SlabFull(B, f)}
                      \cup {f \in L.free : ~SlabEmpty(R, f)}
  IN  [full |-> {f \in L.full \cup mixed : SlabFull(B, f)},
       free |-> {f \in L.free : SlabEmpty(R, f)}
                  \cup {f \in mixed : ~SlabFull(B, f) /\ SlabEmpty(R, f)},
       used |-> {f \in mixed : ~SlabFull(B, f) /\ ~SlabEmpty(R, f)}]

\* Mutation: the bufctl is read but stays on the slab's list.
SlabGetObjectKeeps(c, L, B, R, f, i) ==
  /\ i \in B[f]
  /\ bufs' = B
  /\ refs' = [R EXCEPT ![f] = @ + 1]
  /\ lists' = [lists EXCEPT ![c] = CacheSort(L, bufs', refs')]

\* _slab_get_object and the sort behind it: buffer i of slab f goes out.  L, B
\* and R are the cache's lists, the bufctls and the reference counts before.
SlabGetObject(c, L, B, R, f, i) ==
  /\ i \in B[f]
  /\ bufs' = [B EXCEPT ![f] = @ \ {i}]
  /\ refs' = [R EXCEPT ![f] = @ + 1]
  /\ lists' = [lists EXCEPT ![c] = CacheSort(L, bufs', refs')]

\* get_object's choice of a list: a partial slab before an empty one.  (Its last
\* resort, nullptr for a slab without bufctls, is out of reach: ListsSorted.)
Candidates(c) == IF lists[c].used # {} THEN lists[c].used ELSE lists[c].free

\* get_object on a cache that has a slab to take the object from.
GetHit(c, f, i) ==
  /\ f \in Candidates(c)
  /\ SlabGetObject(c, lists[c], bufs, refs, f, i)
  /\ UNCHANGED avail

\* get_object on an empty compact cache: physmm supplies frame f, _slab_alloc
\* carves it up, and the object is buffer i of the new slab.
GetMiss(c, f, i) ==
  /\ Candidates(c) = {}
  /\ f \in avail
  /\ avail' = avail \ {f}
  /\ SlabGetObject(c, [lists[c] EXCEPT !.free = {f}],
                   [bufs EXCEPT ![f] = 1 .. Cap[c]], [refs EXCEPT ![f] = 0], f, i)

\* put_object, for an object of the cache: _slab_put_object and the sort.
SlabPutObject(c, o) ==
  /\ bufs' = [bufs EXCEPT ![o[1]] = IF refs[o[1]] > 0 THEN @ \cup {o[2]} ELSE @]
  /\ refs' = [refs EXCEPT ![o[1]] = IF @ > 0 THEN @ - 1 ELSE 0]
  /\ lists' = [lists EXCEPT ![c] = CacheSort(@, bufs', refs')]

-----------------------------------------------------------------------------
(* get_object and put_object of the clients *)

Running(cpu)  == state[cpu] = "running"
Idle(cpu)     == Running(cpu) /\ build[cpu] = NoBuild
MayAsk(cpu)   == Idle(cpu) /\ Cardinality(held[cpu]) < MaxHeld
Received(cpu, o) == held' = [held EXCEPT ![cpu] = @ \cup {o}]

\* A cache with a partial or an empty slab: no call leaves the cache.
get_object_hit(cpu, c) ==
  /\ MayAsk(cpu) /\ lock[c] = Nobody
  /\ \E f \in Frames, i \in 1 .. MaxCap : GetHit(c, f, i) /\ Received(cpu, <<f, i>>)
  /\ UNCHANGED <<lock, hdr, ctls, build, state>>

\* An empty compact cache.
get_object_miss(cpu, c) ==
  /\ MayAsk(cpu) /\ lock[c] = Nobody /\ c \in Compact
  /\ \E f \in Frames, i \in 1 .. MaxCap : GetMiss(c, f, i) /\ Received(cpu, <<f, i>>)
  /\ UNCHANGED <<lock, hdr, ctls, build, state>>

\* physmm has no frame left: memset(nullptr) faults before _slab_alloc looks
\* at the pointer, and the CPU halts in the default handler, lock in hand.
get_object_fault(cpu, c) ==
  /\ MayAsk(cpu) /\ lock[c] = Nobody
  /\ Candidates(c) = {} /\ avail = {}
  /\ lock' = [lock EXCEPT ![c] = cpu]
  /\ state' = [state EXCEPT ![cpu] = "halted"]
  /\ UNCHANGED <<lists, bufs, refs, hdr, ctls, avail, build, held>>

put_object(cpu, c) ==
  /\ Idle(cpu) /\ lock[c] = Nobody
  /\ \E o \in held[cpu] :
       /\ o[1] \in SlabsOf(c)
       /\ SlabPutObject(c, o)
       /\ held' = [held EXCEPT ![cpu] = @ \ {o}]
  /\ UNCHANGED <<lock, hdr, ctls, avail, build, state>>

-----------------------------------------------------------------------------
(* _slab_alloc of a cache that is not compact *)

NoHdr == {}

\* The lock is taken and stays taken; physmm supplies the backing frame.
slab_alloc_backing(cpu, c) ==
  /\ MayAsk(cpu) /\ lock[c] = Nobody /\ c \in External
  /\ Candidates(c) = {}
  /\ lock' = [lock EXCEPT ![c] = cpu]
  /\ \E f \in avail :
       /\ avail' = avail \ {f}
       /\ build' = [build EXCEPT ![cpu] =
                      [cache |-> c, frame |-> f, hdr |-> NoHdr, ctls |-> {},
                       inPool |-> FALSE]]
  /\ UNCHANGED <<lists, bufs, refs, hdr, ctls, held, state>>

\* The pool that _slab_alloc turns to next: first SLAB_EXTERN, then
\* BUFCTL_EXTERN for each buffer; a cache whose objects do not fit asks for no
\* bufctl and returns the slab structure.
PoolOf(b) == IF b.hdr = NoHdr \/ Cap[b.cache] = 0 THEN SlabPool ELSE BufctlPool

\* Mutation: the loop over the buffers stops one early.
CompleteEarly(b) == Cap[b.cache] > 0 /\ Cardinality(b.ctls) = Cap[b.cache] - 1

Complete(b) == Cap[b.cache] > 0 /\ Cardinality(b.ctls) = Cap[b.cache]

\* The nested get_object or put_object takes the pool's lock.
slab_alloc_lock_pool(cpu) ==
  /\ Running(cpu) /\ build[cpu] # NoBuild
  /\ ~build[cpu].inPool /\ ~Complete(build[cpu])
  /\ lock[PoolOf(build[cpu])] = Nobody
  /\ lock' = [lock EXCEPT ![PoolOf(build[cpu])] = cpu]
  /\ build' = [build EXCEPT ![cpu].inPool = TRUE]
  /\ UNCHANGED <<lists, bufs, refs, hdr, ctls, avail, held, state>>

InPool(cpu) == Running(cpu) /\ build[cpu] # NoBuild /\ build[cpu].inPool

\* Mutation: the pool's lock is not opened.
UnlockPoolMissing(cpu) == lock' = lock

UnlockPool(cpu) == lock' = [lock EXCEPT ![PoolOf(build[cpu])] = Nobody]

\* The nested get_object takes an object and opens the pool's lock.
PoolGet(cpu, pool, o) ==
  /\ GetHit(pool, o[1], o[2]) \/ GetMiss(pool, o[1], o[2])
  /\ UnlockPool(cpu)
  /\ UNCHANGED <<hdr, ctls, held, state>>

\* SLAB_EXTERN: the slab structure.
slab_alloc_slab(cpu) ==
  /\ InPool(cpu) /\ build[cpu].hdr = NoHdr
  /\ \E o \in Objects :
       /\ PoolGet(cpu, SlabPool, o)
       /\ build' = [build EXCEPT ![cpu].hdr = {o}, ![cpu].inPool = FALSE]

\* BUFCTL_EXTERN: one bufctl for each of the buffers.
slab_alloc_bufctl(cpu) ==
  /\ InPool(cpu) /\ PoolOf(build[cpu]) = BufctlPool
  /\ \E o \in Objects :
       /\ PoolGet(cpu, BufctlPool, o)
       /\ build' = [build EXCEPT ![cpu].ctls = @ \cup {o}, ![cpu].inPool = FALSE]

\* The nested get_object finds neither an object nor a frame: the CPU halts
\* with the pool's lock and its own cache's lock.
slab_alloc_fault(cpu) ==
  /\ InPool(cpu)
  /\ build[cpu].hdr = NoHdr \/ PoolOf(build[cpu]) = BufctlPool
  /\ Candidates(PoolOf(build[cpu])) = {} /\ avail = {}
  /\ state' = [state EXCEPT ![cpu] = "halted"]
  /\ UNCHANGED <<lock, lists, bufs, refs, hdr, ctls, avail, build, held>>

\* The slab is complete: it joins the free list, its first object goes out
\* and get_object opens the lock.
slab_alloc_done(cpu) ==
  /\ Running(cpu) /\ build[cpu] # NoBuild /\ Complete(build[cpu])
  /\ LET b == build[cpu]
         c == b.cache
         f == b.frame
     IN  /\ hdr' = [hdr EXCEPT ![f] = b.hdr]
         /\ ctls' = [ctls EXCEPT ![f] = b.ctls]
         /\ \E i \in 1 .. Cap[c] :
              /\ SlabGetObject(c, [lists[c] EXCEPT !.free = @ \cup {f}],
                               [bufs EXCEPT ![f] = 1 .. Cap[c]],
                               [refs EXCEPT ![f] = 0], f, i)
              /\ Received(cpu, <<f, i>>)
         /\ lock' = [lock EXCEPT ![c] = Nobody]
  /\ build' = [build EXCEPT ![cpu] = NoBuild]
  /\ UNCHANGED <<avail, state>>

\* Mutation: the error path forgets the backing storage.
BackingFreeMissing(f) == avail' = avail

BackingFree(f) == avail' = avail \cup {f}

\* buff_avail = 0: the slab structure and the frame go back, _slab_alloc
\* returns nullptr, and get_object returns without opening the lock.
slab_alloc_no_bufctl(cpu) ==
  /\ InPool(cpu) /\ build[cpu].hdr # NoHdr /\ Cap[build[cpu].cache] = 0
  /\ \E o \in build[cpu].hdr : SlabPutObject(SlabPool, o)
  /\ UnlockPool(cpu)
  /\ BackingFree(build[cpu].frame)
  /\ build' = [build EXCEPT ![cpu] = NoBuild]
  /\ UNCHANGED <<hdr, ctls, held, state>>

-----------------------------------------------------------------------------
Init ==
  /\ lock = [c \in Caches |-> Nobody]
  /\ lists = [c \in Caches |-> [free |-> {}, used |-> {}, full |-> {}]]
  /\ bufs = [f \in Frames |-> {}]
  /\ refs = [f \in Frames |-> 0]
  /\ hdr = [f \in Frames |-> {}]
  /\ ctls = [f \in Frames |-> {}]
  /\ avail = Frames
  /\ build = [cpu \in CPUs |-> NoBuild]
  /\ held = [cpu \in CPUs |-> {}]
  /\ state = [cpu \in CPUs |-> "running"]

\* The steps with which a CPU finishes a slab it has begun.
Building(cpu) ==
  \/ slab_alloc_lock_pool(cpu)
  \/ slab_alloc_slab(cpu)
  \/ slab_alloc_bufctl(cpu)
  \/ slab_alloc_done(cpu)
  \/ slab_alloc_no_bufctl(cpu)
  \/ slab_alloc_fault(cpu)

Next ==
  \E cpu \in CPUs :
    \/ \E c \in Compact \cup External :
         \/ get_object_hit(cpu, c)
         \/ get_object_miss(cpu, c)
         \/ get_object_fault(cpu, c)
         \/ slab_alloc_backing(cpu, c)
         \/ put_object(cpu, c)
    \/ Building(cpu)

Spec == Init /\ [][Next]_vars

\* A CPU in the middle of get_object keeps running.
FairSpec == Spec /\ \A cpu \in CPUs : WF_vars(Building(cpu))

-----------------------------------------------------------------------------
(* Properties *)

Builders == {cpu \in CPUs : build[cpu] # NoBuild}

\* What the clients and, for the pools, the external slabs have of a cache.
OutAsHdr  == UNION ({hdr[f] : f \in Frames} \cup {build[u].hdr : u \in Builders})
OutAsCtl  == UNION ({ctls[f] : f \in Frames} \cup {build[u].ctls : u \in Builders})
OutHeld   == UNION {held[cpu] : cpu \in CPUs}
Out(c) == CASE c = SlabPool   -> OutAsHdr
            [] c = BufctlPool -> OutAsCtl
            [] OTHER          -> {o \in OutHeld : o[1] \in SlabsOf(c)}

\* Every buffer of every slab is either on the slab's list or with exactly one
\* owner, whatever the CPUs interleave: nothing is handed out twice, nothing
\* is lost, and slab.refs counts what is out.
BuffersConserved ==
  /\ \A c \in Caches : \A f \in SlabsOf(c) :
       LET out == {i \in 1 .. MaxCap : <<f, i>> \in Out(c)}
       IN  /\ bufs[f] \cup out = 1 .. Cap[c]
           /\ bufs[f] \cap out = {}
           /\ refs[f] = Cardinality(out)
  /\ \A u, v \in CPUs : u # v => held[u] \cap held[v] = {}

\* Whoever takes a cache's lock finds its slabs on the list they belong to, so
\* that get_object never takes a full slab for a partial one.
ListsSorted ==
  \A c \in Caches : lock[c] = Nobody =>
    /\ \A f \in lists[c].free : refs[f] = 0
    /\ \A f \in lists[c].used : refs[f] > 0 /\ bufs[f] # {}
    /\ \A f \in lists[c].full : bufs[f] = {}

\* No frame is leaked and none has two uses: it is physmm's, or it backs one
\* slab on one list of one cache, or the slab one CPU is building.
FramesConserved ==
  LET uses(f) == (IF f \in avail THEN 1 ELSE 0)
                 + Cardinality({c \in Caches : f \in lists[c].free})
                 + Cardinality({c \in Caches : f \in lists[c].used})
                 + Cardinality({c \in Caches : f \in lists[c].full})
                 + Cardinality({u \in Builders : build[u].frame = f})
  IN  \A f \in Frames : uses(f) = 1

\* An external slab in use has its structure and a bufctl of its own for each
\* buffer, and shares them with no other slab.
StructuresExclusive ==
  /\ \A c \in External : \A f \in SlabsOf(c) :
       Cardinality(hdr[f]) = 1 /\ Cardinality(ctls[f]) = Cap[c]
  /\ \A f, g \in Frames : f # g => hdr[f] \cap hdr[g] = {} /\ ctls[f] \cap ctls[g] = {}

\* A CPU that started to build a slab finishes it, unless memory runs out and
\* a CPU halts: the nested pool locks cannot block it for good.
BuildTerminates ==
  \A cpu \in CPUs :
    build[cpu] # NoBuild ~> (build[cpu] = NoBuild \/ \E u \in CPUs : ~Running(u))

\* "since these caches need to be SMP safe" (cache.cc:41): get_object returns
\* with the cache's lock open, whatever it returns.
NoLockLeak ==
  \A c \in Caches : lock[c] # Nobody => ~Idle(lock[c])
=============================================================================
