-------------------------------- MODULE KList -------------------------------
(***************************************************************************)
(* The linked lists of src/kernel/include/list.h, as links in memory: the  *)
(* circular lists of both kinds (list, slist) and the lists with a null at *)
(* their end (hlist).  A behaviour uses one kind.                          *)
(*                                                                         *)
(* The links of a node are next and prev; for an hlist prev is the node    *)
(* whose next field pprev points to, and for an slist it is not used.  A   *)
(* loop of a FOREACH macro that may delete the node it is at goes on step  *)
(* by step; its body does nothing else to the list.                        *)
(***************************************************************************)
EXTENDS Integers, Sequences, SequencesExt, FiniteSets

CONSTANTS Heads, Elems, Null

ASSUME ListAssumption ==
  /\ IsFiniteSet(Elems) /\ Heads \cap Elems = {}
  /\ Null \notin Heads \cup Elems /\ "fault" \notin Heads \cup {Null}

VARIABLES
  kind,   \* "list", "slist" or "hlist"
  next,   \* the next link of heads and elements
  prev,
  loop    \* the mutable loop: the list, ptr, ref, and what it has seen

lvars == <<kind, next, prev, loop>>

NoLoop == [at |-> Null, ptr |-> Null, ref |-> Null, todo |-> <<>>, seen |-> <<>>]

-----------------------------------------------------------------------------
(* The sequence that a list stands for. *)

\* s is what is met from h on, link by link, up to a node that is no element.  In a
\* circle of elements, which is a list that went wrong, the walk is cut off.
Walk(links, h, s) ==
  /\ \A i \in 1 .. Len(s) : s[i] = links[IF i = 1 THEN h ELSE s[i - 1]]
  /\ Len(s) <= Cardinality(Elems) => links[IF s = <<>> THEN h ELSE Last(s)] \notin Elems

Follow(links, h) ==
  IF links[h] \notin Elems THEN <<>>
  ELSE CHOOSE s \in SeqOf(Elems, Cardinality(Elems) + 1) : Walk(links, h, s)

Items(h) == Follow(next, h)
OnList(h, e) == Contains(Items(h), e)
Linked(e) == \E h \in Heads : OnList(h, e)

-----------------------------------------------------------------------------
(* Doubly linked lists *)

\* Mutation: the link back from the next node is left out.
list_add_at_one_way(e, p, n) ==
  /\ next' = [next EXCEPT ![e] = n, ![p] = e]
  /\ prev' = [prev EXCEPT ![e] = p]

\* __list_add
list_add_at(e, p, n) ==
  /\ next' = [next EXCEPT ![e] = n, ![p] = e]
  /\ prev' = [prev EXCEPT ![e] = p, ![n] = e]

list_add(h, e) ==
  /\ kind = "list" /\ ~Linked(e)
  /\ list_add_at(e, h, next[h])
  /\ UNCHANGED <<kind, loop>>

list_add_tail(h, e) ==
  /\ kind = "list" /\ ~Linked(e)
  /\ list_add_at(e, prev[h], h)
  /\ UNCHANGED <<kind, loop>>

\* list_del: __list_del, then both links are cleared.
Unlink(e) ==
  /\ next' = [next EXCEPT ![prev[e]] = next[e], ![e] = Null]
  /\ prev' = [prev EXCEPT ![next[e]] = prev[e], ![e] = Null]

list_del(e) ==
  /\ kind = "list" /\ Linked(e)
  /\ Unlink(e)
  /\ UNCHANGED <<kind, loop>>

\* Mutation: the list that was moved keeps its links.
list_splice_keeps(l, h) ==
  /\ kind = "list" /\ l # h
  /\ IF next[l] = prev[l] THEN UNCHANGED <<next, prev>>
     ELSE /\ next' = [next EXCEPT ![h] = next[l], ![prev[l]] = next[h]]
          /\ prev' = [prev EXCEPT ![next[l]] = h, ![next[h]] = prev[l]]
  /\ UNCHANGED <<kind, loop>>

\* list_splice: a list of one element is taken for an empty one.
list_splice(l, h) ==
  /\ kind = "list" /\ l # h
  /\ IF next[l] = prev[l] THEN UNCHANGED <<next, prev>>
     ELSE /\ next' = [next EXCEPT ![h] = next[l], ![prev[l]] = next[h], ![l] = l]
          /\ prev' = [prev EXCEPT ![next[l]] = h, ![next[h]] = prev[l], ![l] = l]
  /\ UNCHANGED <<kind, loop>>

-----------------------------------------------------------------------------
(* Singly linked lists *)

slist_add(h, e) ==
  /\ kind = "slist" /\ ~Linked(e)
  /\ next' = [next EXCEPT ![e] = next[h], ![h] = e]
  /\ UNCHANGED <<kind, prev, loop>>

\* The links after slist_add_tail.  The loop looks for an element with a null link,
\* and a circle has none.
STailLinks(h, e) ==
  LET ends == {p \in ToSet(Items(h)) : next[p] = Null}
  IN  IF next[h] = h THEN [next EXCEPT ![e] = h, ![h] = e]
      ELSE IF ends = {} THEN next
      ELSE [next EXCEPT ![CHOOSE p \in ends : TRUE] = e, ![e] = Null]

slist_add_tail(h, e) ==
  /\ kind = "slist" /\ ~Linked(e)
  /\ next' = STailLinks(h, e)
  /\ UNCHANGED <<kind, prev, loop>>

\* The links after slist_del: the element behind which e is found, if any.
SUnlink(h, e) ==
  LET before == {p \in {h} \cup ToSet(Items(h)) : next[p] = e}
  IN  IF before = {} THEN next
      ELSE [next EXCEPT ![CHOOSE p \in before : TRUE] = next[e], ![e] = Null]

slist_del(h, e) ==
  /\ kind = "slist"
  /\ next' = SUnlink(h, e)
  /\ UNCHANGED <<kind, prev, loop>>

-----------------------------------------------------------------------------
(* Lists with a single head *)

hlist_add(h, e) ==
  /\ kind = "hlist" /\ ~Linked(e)
  /\ next' = [next EXCEPT ![e] = next[h], ![h] = e]
  /\ prev' = [n \in DOMAIN prev |-> IF n = e THEN h ELSE IF n = next[h] THEN e ELSE prev[n]]
  /\ UNCHANGED <<kind, loop>>

HUnlink(e) ==
  /\ next' = [next EXCEPT ![prev[e]] = next[e], ![e] = Null]
  /\ prev' = [n \in DOMAIN prev |-> IF n = e THEN Null
                                    ELSE IF n = next[e] THEN prev[e] ELSE prev[n]]

hlist_del(e) ==
  /\ kind = "hlist" /\ Linked(e)
  /\ HUnlink(e)
  /\ UNCHANGED <<kind, loop>>

-----------------------------------------------------------------------------
(* LIST_, SLIST_ and HLIST_FOREACH_MUTABLE *)

End(h) == IF kind = "hlist" THEN Null ELSE h

\* Both pointers are set; ref is read through ptr, which is the head itself for
\* an empty circle, and null for an empty hlist: that is a fault.
foreach_begin(h) ==
  /\ loop.at = Null
  /\ loop' = IF next[h] = Null THEN [loop EXCEPT !.at = "fault"]
             ELSE [at |-> h, ptr |-> next[h], ref |-> next[next[h]],
                   todo |-> Items(h), seen |-> <<>>]
  /\ UNCHANGED <<kind, next, prev>>

\* Mutation: the next element is read after the body, and a null link ends the loop.
Advance_late(links) ==
  [loop EXCEPT !.ptr = IF links[loop.ptr] = Null THEN End(loop.at) ELSE links[loop.ptr],
               !.seen = Append(@, loop.ptr)]

\* ptr goes to ref, and ref to what is behind it; links are those after the body.
Advance(links) ==
  [loop EXCEPT !.ptr = loop.ref, !.seen = Append(@, loop.ptr),
               !.ref = IF loop.ref = Null THEN Null ELSE links[loop.ref]]

Looping == loop.at \in Heads /\ loop.ptr # End(loop.at)

foreach_keep ==
  /\ Looping
  /\ loop' = Advance(next)
  /\ UNCHANGED <<kind, next, prev>>

foreach_delete ==
  /\ Looping
  /\ CASE kind = "list"  -> Unlink(loop.ptr)
       [] kind = "slist" -> next' = SUnlink(loop.at, loop.ptr) /\ UNCHANGED prev
       [] kind = "hlist" -> HUnlink(loop.ptr)
  /\ loop' = Advance(next')
  /\ UNCHANGED kind

foreach_end ==
  /\ loop.at \in Heads /\ ~Looping
  /\ loop' = NoLoop
  /\ UNCHANGED <<kind, next, prev>>

-----------------------------------------------------------------------------
\* INIT_LIST and INIT_SLIST: a head is linked to itself; INIT_HLIST_HEAD: null.
ListInit ==
  /\ kind \in {"list", "slist", "hlist"}
  /\ next = [n \in Heads \cup Elems |-> IF n \in Heads /\ kind # "hlist" THEN n ELSE Null]
  /\ prev = [n \in Heads \cup Elems |-> IF n \in Heads /\ kind = "list" THEN n ELSE Null]
  /\ loop = NoLoop

ListNext ==
  \/ /\ loop.at = Null
     /\ \/ \E h \in Heads, e \in Elems :
             \/ list_add(h, e) \/ list_add_tail(h, e)
             \/ slist_add(h, e) \/ slist_add_tail(h, e) \/ slist_del(h, e)
             \/ hlist_add(h, e)
        \/ \E e \in Elems : list_del(e) \/ hlist_del(e)
        \/ \E l, h \in Heads : list_splice(l, h)
  \/ \E h \in Heads : foreach_begin(h)
  \/ foreach_keep \/ foreach_delete \/ foreach_end

ListSpec == ListInit /\ [][ListNext]_lvars

-----------------------------------------------------------------------------
(* Properties *)

\* After every operation the links stand for sequences that changed as list.h
\* says: nothing is lost, doubled or reordered, and no list gets into another.
Seqs == INSTANCE ListSeqs WITH lists <- [h \in Heads |-> Items(h)]
ImplementsLists == Seqs!Spec

\* The list reads the same backwards; pprev leads to the node in front.  A node
\* that is on no list has no links.
BackLinks ==
  /\ kind = "list" => \A h \in Heads : Follow(prev, h) = Reverse(Items(h))
  /\ kind = "hlist" => \A n \in Heads \cup Elems : next[n] # Null => prev[next[n]] = n
  /\ \A e \in Elems : ~Linked(e) => next[e] = Null /\ prev[e] = Null

\* A mutable loop visits what was on the list when it started, each element once
\* and in order, whichever of them its body deletes.  Over an empty hlist it
\* reads through a null pointer before its first test (list.h:287).
LoopVisits ==
  /\ IsPrefix(loop.seen, loop.todo)
  /\ loop.at \in Heads /\ ~Looping => loop.seen = loop.todo
  /\ loop.at = "fault" => kind = "hlist"

\* list.h:150 documents insertion at the tail of an slist: a call of slist_add_tail
\* would leave the list with the new element at its end, in whatever state it is made.
TailInserted ==
  kind = "slist" => \A h \in Heads, e \in Elems :
    ~Linked(e) => Follow(STailLinks(h, e), h) = Append(Items(h), e)
=============================================================================
