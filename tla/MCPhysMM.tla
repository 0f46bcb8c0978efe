------------------------------ MODULE MCPhysMM ------------------------------
(***************************************************************************)
(* Small instances of PhysMM for TLC.  Each Reserved set leaves a few      *)
(* pages free at boot, so that the map fills up and runs of every length   *)
(* compete for them.                                                       *)
(***************************************************************************)
EXTENDS PhysMM, TLC

CONSTANTS c1, c2, c3

\* Clients only differ in the block they hold.
ClientSymmetry == Permutations(Clients)

\* The 64 page map of the unit tests with the last pages free.
Reserved64 == (0 .. 63) \ ({1, 2, 4} \cup (61 .. 63))

\* Only low pages free, whose metadata get_page_map can reach.
ReservedLow == (0 .. 63) \ {2, 3, 4}
=============================================================================
