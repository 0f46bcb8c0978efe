------------------------------ MODULE ListSeqs ------------------------------
(***************************************************************************)
(* What src/kernel/include/list.h promises: lists are sequences.  An       *)
(* element is put in front or behind, taken out, or moved with all others  *)
(* to the front of another list.                                           *)
(***************************************************************************)
EXTENDS Sequences, SequencesExt

CONSTANTS Heads, Elems

VARIABLE lists

On(e) == \E h \in Heads : Contains(lists[h], e)

Put(h, e) ==
  /\ ~On(e)
  /\ \/ lists' = [lists EXCEPT ![h] = Cons(e, @)]
     \/ lists' = [lists EXCEPT ![h] = Append(@, e)]

Take(h, e) ==
  \E i \in 1 .. Len(lists[h]) :
    /\ lists[h][i] = e
    /\ lists' = [lists EXCEPT ![h] = RemoveAt(@, i)]

Splice(from, to) ==
  lists' = [lists EXCEPT ![from] = <<>>, ![to] = lists[from] \o @]

Init == lists = [h \in Heads |-> <<>>]

Next ==
  \/ \E h \in Heads, e \in Elems : Put(h, e) \/ Take(h, e)
  \/ \E from, to \in Heads : from # to /\ Splice(from, to)

Spec == Init /\ [][Next]_lists
=============================================================================
