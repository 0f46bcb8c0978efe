------------------------------- MODULE FlatMap ------------------------------
(***************************************************************************)
(* What the virtual memory manager promises: a function from virtual pages *)
(* to physical ones, in which every step changes one page at the most.     *)
(***************************************************************************)
CONSTANTS Virt, Phys, Unmapped

VARIABLE map

Init == map = [v \in Virt |-> Unmapped]

\* Page v gets another translation, or loses its own.
Set(v) == /\ map'[v] \in Phys \cup {Unmapped}
          /\ map' = [map EXCEPT ![v] = map'[v]]

Next == \E v \in Virt : Set(v)

Spec == Init /\ [][Next]_map
=============================================================================
