---------------------------- MODULE MCSlabCache -----------------------------
(***************************************************************************)
(* Instances of SlabCache: two CPUs, the two pools, one compact cache and  *)
(* three external ones, and few enough frames that they run out.           *)
(***************************************************************************)
EXTENDS SlabCache, TLC

CONSTANTS cpu1, cpu2, slabs, bufctls, small, large, huge, odd, f1, f2, f3, f4

\* Three external caches that share the pools, of which one has objects that do
\* not fit.  Their slabs take two, one and no bufctls, so that a slab of bufctls
\* may fill up in the middle of one of theirs.
CapMixed == (slabs :> 2) @@ (bufctls :> 2) @@ (small :> 2) @@ (large :> 2) @@ (huge :> 1)
              @@ (odd :> 0)

Symmetry == Permutations(CPUs) \cup Permutations(Frames)
=============================================================================
