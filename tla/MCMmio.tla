------------------------------- MODULE MCMmio -------------------------------
(***************************************************************************)
(* Instances of Mmio.  Addresses are small numbers, a page is 2 of them.   *)
(***************************************************************************)
EXTENDS Mmio, TLC

CONSTANTS mem, port, c1, c2, c3, s1, s2, s3, s4

Symmetry == Permutations(Clients) \cup Permutations(Slots)

LimitBoth == (mem :> 10) @@ (port :> 4)

Req(r, a, b, isBusy, isShared) ==
  [root |-> r, start |-> a, range |-> b, busy |-> isBusy, shared |-> isShared]

\* A bridge with a device inside that the CPUs share, and behind the bridge, with
\* no gap, another device; one that overlaps both, one behind the end of the
\* memory root, and a port.
RequestsBus ==
  { Req(mem, 0, 2, FALSE, FALSE), Req(mem, 0, 1, TRUE, TRUE),
    Req(mem, 2, 4, TRUE, FALSE), Req(mem, 1, 4, TRUE, FALSE),
    Req(mem, 12, 14, TRUE, FALSE), Req(port, 0, 2, TRUE, FALSE) }

\* A window and a device inside of it.
RequestsWindow ==
  { Req(mem, 0, 4, FALSE, FALSE), Req(mem, 0, 2, TRUE, FALSE) }
=============================================================================
