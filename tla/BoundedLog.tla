----------------------------- MODULE BoundedLog -----------------------------
(***************************************************************************)
(* What the kernel log promises: it holds the newest Bound characters that *)
(* were printed, in the order in which they were printed.                  *)
(***************************************************************************)
EXTENDS Naturals, Sequences

CONSTANTS Char, Bound

VARIABLE tail   \* the characters in the log, oldest first

Init == tail = <<>>

\* A new character drops the oldest one once the log is full.
Write(ch) ==
  tail' = IF Len(tail) < Bound THEN Append(tail, ch) ELSE Append(Tail(tail), ch)

Next == \E ch \in Char : Write(ch)

Spec == Init /\ [][Next]_tail
=============================================================================
