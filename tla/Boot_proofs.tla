----------------------------- MODULE Boot_proofs ----------------------------
(***************************************************************************)
(* Proofs about the start of the kernel and about the running one, on      *)
(* every machine whose tables are well formed and for any number of        *)
(* vectors, drivers and calls.  In order:                                  *)
(*   - an interrupt finds its handler: what each step of a registration or *)
(*     release does to the descriptor table, then the rest of the kernel;  *)
(*   - an interprocessor interrupt reaches its target;                     *)
(*   - what the operators of the controllers and of the parser return, and *)
(*     the two vectors that init gives away;                               *)
(*   - no source is let through without a handler (SourceInv);             *)
(*   - the parser knows what the table lists (ListInv);                    *)
(*   - only a bootable machine gets to the end of init (BootInv);          *)
(*   - the calibration ends with its own tick (TickInv).                   *)
(***************************************************************************)
EXTENDS Boot, FiniteSetTheorems, WellFoundedInduction, TLAPS

-----------------------------------------------------------------------------
(* The stubs of the system vectors *)

\* The loop of init finds the stub of each vector, although the unused vectors
\* have none: it pushes the number of the vector.
LEMMA SystemStubIsOwn ==
  ASSUME NEW v \in 0 .. Reserved, v \notin Unused
  PROVE  SystemStub(v) = v
<1> DEFINE Before(n) == {m \in SystemStubs : m < n}
           Skipped == {u \in Unused : u < v}
<1>1. Reserved \in Nat /\ Unused \subseteq 0 .. Reserved - 1
  BY IdtAssumption
<1>10. /\ \A u \in Unused : u \in Int /\ 0 <= u /\ u <= Reserved
       /\ \A m : m \in SystemStubs <=> m \in 0 .. Reserved /\ m \notin Unused
       /\ v \in Int /\ 0 <= v /\ v <= Reserved
  BY <1>1 DEF SystemStubs
<1>2. v \in SystemStubs /\ SystemStubs \subseteq 0 .. Reserved
  BY DEF SystemStubs
<1>3. IsFiniteSet(0 .. Reserved) /\ IsFiniteSet(0 .. v - 1)
  BY <1>1, FS_Interval
<1>4. \A n \in SystemStubs : IsFiniteSet(Before(n))
  BY <1>2, <1>3, FS_Subset
<1>5. IsFiniteSet(Skipped)
  <2>1. \A u \in Skipped : u \in 0 .. Reserved
    BY <1>1, <1>10
  <2> QED
    BY <1>3, <2>1, FS_Subset
<1>6. Cardinality(Before(v)) = v - Cardinality(Skipped)
  <2>1. Before(v) \cup Skipped = 0 .. v - 1 /\ Before(v) \cap Skipped = {}
    <3>1. \A x : x \in Before(v) <=> x \in 0 .. v - 1 /\ x \notin Unused
      BY <1>1, <1>10
    <3>2. ASSUME NEW x PROVE x \in Skipped <=> x \in 0 .. v - 1 /\ x \in Unused
      <4>1. CASE x \in Unused
        <5>1. x \in Int /\ 0 <= x
          BY <1>10, <4>1
        <5>2. x < v <=> x \in 0 .. v - 1
          BY <1>10, <5>1
        <5> QED
          BY <4>1, <5>2
      <4>2. CASE x \notin Unused
        BY <4>2
      <4> QED
        BY <4>1, <4>2
    <3> HIDE DEF Before, Skipped
    <3> QED
      BY <3>1, <3>2
  <2>2. Cardinality(0 .. v - 1) = v
    BY <1>1, FS_Interval
  <2>3. Cardinality(Before(v) \cup Skipped) =
          Cardinality(Before(v)) + Cardinality(Skipped) - Cardinality(Before(v) \cap Skipped)
    BY <1>2, <1>4, <1>5, FS_Union
  <2>4. Cardinality({}) = 0
    BY FS_EmptySet
  <2>5. Cardinality(Before(v)) \in Nat /\ Cardinality(Skipped) \in Nat
    BY <1>2, <1>4, <1>5, FS_CardinalityType
  <2> HIDE DEF Before, Skipped
  <2>6. Cardinality(Before(v) \cup Skipped) = v /\ Cardinality(Before(v) \cap Skipped) = 0
    BY <2>1, <2>2, <2>4, Zenon
  <2> QED
    BY <1>10, <2>3, <2>5, <2>6
<1>7. ASSUME NEW n \in SystemStubs, NEW k \in SystemStubs, n < k
      PROVE  Cardinality(Before(n)) # Cardinality(Before(k))
  <2>1. \A x \in Before(n) : x \in Before(k)
    <3>1. \A x \in SystemStubs : x \in Int
      BY <1>1, <1>10
    <3> QED
      BY <1>7, <3>1
  <2>2. n \in Before(k) /\ n \notin Before(n)
    BY <1>2, <1>7
  <2> HIDE DEF Before
  <2> QED
    BY <1>4, <2>1, <2>2, FS_Subset
<1>8. ASSUME NEW n \in SystemStubs, Cardinality(Before(n)) = Cardinality(Before(v)) PROVE n = v
  <2>1. n \in Int /\ v \in Int
    BY <1>1, <1>2
  <2> QED
    BY <1>2, <1>7, <1>8, <2>1
<1>9. SystemStub(v) = CHOOSE n \in SystemStubs : Cardinality(Before(n)) = Cardinality(Before(v))
  BY <1>6 DEF SystemStub, StubAt
<1> HIDE DEF Before
<1> QED
  BY <1>2, <1>8, <1>9

-----------------------------------------------------------------------------
(* The invariant *)

Who == Registrants \cup {"none"}

RegisterOps == {"context", "pointer", "clear", "gate"}
ReleaseOps  == {"unpoint", "absent"}

IdtTypes ==
  /\ stub \in [Stubs -> [nr : Int \cup {Magic}, ctx : Who]]
  /\ table \in [Vectors -> Who \cup {"default", "wild"}]
  /\ gate \in [Vectors -> [present : BOOLEAN, to : {"none", "system", "stub"}, nr : Nat]]
  /\ owner \in [Vectors -> Who]
  /\ hit \subseteq Stubs
  /\ edit \in [op : RegisterOps \cup ReleaseOps, who : Who, at : Nat] \cup {Idle}

\* The vectors whose handler nothing has taken away.
Safe(v) == Held(v) /\ ~Taken(v)

\* The stub of vector v, and the way of an interrupt through gate, stub and table.
StubOf(v) == v - (Reserved + 1)
Wired(v) ==
  /\ StubOf(v) \in Stubs
  /\ gate[v].present /\ gate[v].to = "stub" /\ gate[v].nr = StubOf(v)
  /\ stub[StubOf(v)].nr = v /\ stub[StubOf(v)].ctx = owner[v]
  /\ table[v] = owner[v]

\* A registration works on a vector that is not anyone's, and what it has
\* patched so far is in place.
Registering ==
  edit # Idle /\ edit.op \in RegisterOps =>
    /\ edit.at \in Stubs /\ VectorOf(edit.at) \in Vectors
    /\ ~Safe(VectorOf(edit.at))
    /\ stub[edit.at].nr = VectorOf(edit.at)
    /\ edit.op # "context" => stub[edit.at].ctx = edit.who
    /\ edit.op \in {"clear", "gate"} => table[VectorOf(edit.at)] = edit.who

\* So does a release.
Releasing ==
  edit # Idle /\ edit.op \in ReleaseOps => edit.at \in Vectors /\ ~Safe(edit.at)

OwnStubs == \A v \in Vectors : gate[v].present /\ gate[v].to = "system" => gate[v].nr = v

IdtInv ==
  /\ IdtTypes
  /\ \A v \in Vectors : Safe(v) => Wired(v)
  /\ Registering
  /\ Releasing
  /\ OwnStubs

LEMMA IdtInvInit == IdtInit => IdtInv
<1> SUFFICES ASSUME IdtInit PROVE IdtInv
  OBVIOUS
<1>1. IdtTypes
  BY DEF IdtInit, IdtTypes, FreeStub, Who
<1>2. \A v \in Vectors : ~Safe(v) /\ ~gate[v].present
  BY DEF IdtInit, Safe, Held
<1> QED
  BY <1>1, <1>2 DEF IdtInit, IdtInv, Registering, Releasing, OwnStubs

LEMMA Places ==
  /\ Reserved \in Nat /\ Descriptors \in Nat /\ Reserved + 1 < Descriptors
  /\ Stubs = 0 .. Descriptors - Reserved - 1 /\ Vectors = 0 .. Descriptors - 1
  /\ \A i \in Nat : VectorOf(i) \in Int /\ VectorOf(i) > Reserved /\ StubOf(VectorOf(i)) = i
  /\ \A v \in Nat : VectorOf(StubOf(v)) = v
  /\ \A i \in Stubs : i \in Nat
BY IdtAssumption DEF Stubs, Vectors, VectorOf, StubOf

LEMMA LowestIn ==
  ASSUME NEW S \in SUBSET Nat, S # {}
  PROVE  Lowest(S) \in S /\ \A j \in S : Lowest(S) <= j
<1> DEFINE Less == {ss \in Nat \X Nat : ss[1] < ss[2]}
<1>1. IsWellFoundedOn(Less, Nat)
  BY NatLessThanWellFounded DEF OpToRel
<1> HIDE DEF Less
<1>2. \E p \in S : \A q \in S : ~(<<q, p>> \in Less)
  BY <1>1, WFMin
<1>3. \E p \in S : \A q \in S : ~(q < p)
  BY <1>2 DEF Less
<1>4. \E p \in S : \A q \in S : p <= q
  BY <1>3
<1> QED
  BY <1>4 DEF Lowest

LEMMA FirstFree ==
  ASSUME FreeStubs # {}
  PROVE  Lowest(FreeStubs) \in FreeStubs
<1>1. FreeStubs \subseteq Nat
  BY Places DEF FreeStubs
<1> QED
  BY <1>1, LowestIn

-----------------------------------------------------------------------------
(* The steps *)

\* A vector stays as it is if a step leaves its gate, its stub, its entry of the
\* table and its owner alone.
Same(v) ==
  /\ owner'[v] = owner[v] /\ gate'[v] = gate[v] /\ table'[v] = table[v]
  /\ StubOf(v) \in Stubs => stub'[StubOf(v)] = stub[StubOf(v)]

LEMMA SameWired ==
  ASSUME NEW v \in Vectors, Safe(v) => Wired(v), hit \subseteq hit', Same(v)
  PROVE  (Safe(v) => Wired(v))'
<1>1. Safe(v)' => Safe(v)
  BY DEF Safe, Held, Taken, Same
<1>2. Wired(v) => Wired(v)'
  BY DEF Wired, Same
<1> QED
  BY <1>1, <1>2

LEMMA SystemHandlerStep ==
  ASSUME IdtInv, NEW v \in Vectors, NEW who \in Who, register_system_handler(v, who)
  PROVE  IdtInv'
<1>1. /\ edit = Idle /\ v <= Reserved /\ table' = [table EXCEPT ![v] = who]
      /\ UNCHANGED <<stub, gate, edit, owner, hit>>
  BY DEF register_system_handler
<1>2. IdtTypes'
  BY <1>1 DEF IdtInv, IdtTypes
<1>3. ASSUME NEW w \in Vectors PROVE (Safe(w) => Wired(w))'
  <2>1. CASE w = v
    <3>1. ~Wired(w)
      BY <1>1, <2>1, Places DEF Wired, StubOf
    <3>2. ~Safe(w)
      BY <3>1 DEF IdtInv
    <3> QED
      BY <1>1, <3>2 DEF Safe, Held, Taken
  <2>2. CASE w # v
    <3>1. Same(w)
      BY <1>1, <2>2 DEF Same, IdtInv, IdtTypes
    <3> QED
      BY <1>1, <3>1, SameWired DEF IdtInv
  <2> QED
    BY <2>1, <2>2
<1>4. Registering' /\ Releasing' /\ OwnStubs'
  BY <1>1 DEF IdtInv, Registering, Releasing, OwnStubs
<1> QED
  BY <1>2, <1>3, <1>4 DEF IdtInv

\* register_irq_handler takes a stub without a number, hence nobody's.
LEMMA RegisterStep ==
  ASSUME IdtInv, NEW who \in Who, register_irq_handler(who)
  PROVE  IdtInv'
<1>1. PICK i : i = Lowest(FreeStubs)
  OBVIOUS
<1>2. /\ edit = Idle /\ FreeStubs # {}
      /\ stub' = [stub EXCEPT ![i] = [@ EXCEPT !.nr = VectorOf(i)]]
      /\ edit' = [op |-> "context", who |-> who, at |-> i]
      /\ UNCHANGED <<table, gate, owner, hit>>
  BY <1>1 DEF register_irq_handler
<1>3. i \in FreeStubs
  BY <1>1, <1>2, FirstFree
<1>4. i \in Stubs /\ i < Descriptors - Reserved - 1 /\ stub[i].nr = Magic
  BY <1>3 DEF FreeStubs
<1>5. i \in Nat /\ VectorOf(i) \in Vectors /\ VectorOf(i) \in Int /\ StubOf(VectorOf(i)) = i
  <2>1. i \in Nat
    BY <1>4, Places
  <2>2. VectorOf(i) = Reserved + 1 + i
    BY DEF VectorOf
  <2> QED
    BY <1>4, <2>1, <2>2, Places
<1>6. ~Safe(VectorOf(i))
  <2>1. ~Wired(VectorOf(i))
    BY <1>4, <1>5, IdtAssumption DEF Wired
  <2> QED
    BY <1>5, <2>1 DEF IdtInv
<1>7. /\ IdtTypes
      /\ stub[i] \in [nr : Int \cup {Magic}, ctx : Who]
  BY <1>4 DEF IdtInv, IdtTypes
<1>8. [stub[i] EXCEPT !.nr = VectorOf(i)] \in [nr : Int \cup {Magic}, ctx : Who]
  BY <1>5, <1>7
<1>9. stub' \in [Stubs -> [nr : Int \cup {Magic}, ctx : Who]]
  BY <1>2, <1>4, <1>7, <1>8 DEF IdtTypes
<1>10. edit' \in [op : RegisterOps \cup ReleaseOps, who : Who, at : Nat] \cup {Idle}
  BY <1>2, <1>5 DEF RegisterOps
<1>11. IdtTypes'
  BY <1>2, <1>7, <1>9, <1>10 DEF IdtTypes
<1>12. ASSUME NEW w \in Vectors PROVE (Safe(w) => Wired(w))'
  <2>1. CASE w = VectorOf(i)
    BY <1>2, <1>6, <2>1 DEF Safe, Held, Taken
  <2>2. CASE w # VectorOf(i)
    <3>1. StubOf(w) # i
      BY <1>5, <2>2, Places
    <3>2. Same(w)
      BY <1>2, <1>7, <3>1 DEF Same, IdtTypes
    <3> QED
      BY <1>2, <3>2, SameWired DEF IdtInv
  <2> QED
    BY <2>1, <2>2
<1>13. Registering'
  <2>1. edit'.at = i /\ edit'.op = "context"
    BY <1>2
  <2>2. stub'[i].nr = VectorOf(i)
    BY <1>2, <1>4, <1>7 DEF IdtTypes
  <2>3. ~Safe(VectorOf(i))'
    BY <1>2, <1>6 DEF Safe, Held, Taken
  <2>4. (edit.at)' = i
    BY <2>1
  <2> QED
    BY <1>4, <1>5, <2>1, <2>2, <2>3 DEF Registering
<1>14. Releasing' /\ OwnStubs'
  BY <1>2 DEF IdtInv, Releasing, OwnStubs, ReleaseOps
<1> QED
  BY <1>11, <1>12, <1>13, <1>14 DEF IdtInv

\* The fields of the call in progress after a step of it.
LEMMA EditFields ==
  ASSUME NEW e \in [op : RegisterOps \cup ReleaseOps, who : Who, at : Nat],
         NEW o \in RegisterOps \cup ReleaseOps
  PROVE  /\ [e EXCEPT !.op = o] \in [op : RegisterOps \cup ReleaseOps, who : Who, at : Nat]
         /\ [e EXCEPT !.op = o].op = o
         /\ [e EXCEPT !.op = o].who = e.who
         /\ [e EXCEPT !.op = o].at = e.at
OBVIOUS

\* The steps of a registration before the last: e is the call, V its vector.
LEMMA PatchStep ==
  ASSUME IdtInv, patch_context \/ set_pointer \/ clear_gate
  PROVE  IdtInv'
<1>1. PICK e : e = edit
  OBVIOUS
<1>2. PICK V : V = VectorOf(e.at)
  OBVIOUS
<1>3. e # Idle /\ e.op \in {"context", "pointer", "clear"} /\ UNCHANGED <<owner, hit>>
  BY <1>1 DEF patch_context, set_pointer, clear_gate
<1>4. IdtTypes /\ Registering /\ OwnStubs /\ \A w \in Vectors : Safe(w) => Wired(w)
  BY DEF IdtInv
<1>5. e \in [op : RegisterOps \cup ReleaseOps, who : Who, at : Nat]
  BY <1>1, <1>3, <1>4 DEF IdtTypes
<1>6. /\ e.at \in Stubs /\ V \in Vectors /\ ~Safe(V) /\ stub[e.at].nr = V
      /\ e.op # "context" => stub[e.at].ctx = e.who
      /\ e.op = "clear" => table[V] = e.who
  BY <1>1, <1>2, <1>3, <1>4 DEF Registering, RegisterOps
<1>7. e.at \in Nat /\ e.who \in Who /\ StubOf(V) = e.at
  BY <1>2, <1>5, Places
<1>8. \A w \in Vectors : w # V => StubOf(w) # e.at
  BY <1>2, <1>7, Places
<1>9. ~Safe(V)'
  BY <1>3, <1>6 DEF Safe, Held, Taken
<1>10. ASSUME IdtTypes', NEW o \in {"pointer", "clear", "gate"}, edit' = [e EXCEPT !.op = o],
              \A w \in Vectors : w # V => Same(w), OwnStubs', stub'[e.at].nr = V,
              stub'[e.at].ctx = e.who, o # "pointer" => table'[V] = e.who
       PROVE  IdtInv'
  <2>1. o \in RegisterOps \cup ReleaseOps /\ o \notin ReleaseOps
    BY <1>10 DEF RegisterOps, ReleaseOps
  <2>2. edit'.op = o /\ edit'.at = e.at /\ edit'.who = e.who
    BY <1>5, <1>10, <2>1, EditFields
  <2>3. ASSUME NEW w \in Vectors PROVE (Safe(w) => Wired(w))'
    <3>1. CASE w = V
      BY <1>9, <3>1
    <3>2. CASE w # V
      BY <1>3, <1>4, <1>10, <3>2, SameWired
    <3> QED
      BY <3>1, <3>2
  <2>4. Registering'
    BY <1>2, <1>6, <1>9, <1>10, <2>2 DEF Registering
  <2>5. Releasing'
    BY <2>1, <2>2 DEF Releasing
  <2> QED
    BY <1>10, <2>3, <2>4, <2>5 DEF IdtInv
<1>11. CASE patch_context
  <2>1. /\ stub' = [stub EXCEPT ![e.at] = [@ EXCEPT !.ctx = e.who]]
        /\ edit' = [e EXCEPT !.op = "pointer"] /\ UNCHANGED <<table, gate>>
    BY <1>1, <1>11 DEF patch_context
  <2>2. stub[e.at] \in [nr : Int \cup {Magic}, ctx : Who]
    BY <1>4, <1>6 DEF IdtTypes
  <2>3. /\ [stub[e.at] EXCEPT !.ctx = e.who] \in [nr : Int \cup {Magic}, ctx : Who]
        /\ [stub[e.at] EXCEPT !.ctx = e.who].nr = V
        /\ [stub[e.at] EXCEPT !.ctx = e.who].ctx = e.who
    BY <1>6, <1>7, <2>2
  <2>4. /\ stub' \in [Stubs -> [nr : Int \cup {Magic}, ctx : Who]]
        /\ stub'[e.at] = [stub[e.at] EXCEPT !.ctx = e.who]
    BY <1>4, <1>6, <2>1, <2>3 DEF IdtTypes
  <2>5. edit' \in [op : RegisterOps \cup ReleaseOps, who : Who, at : Nat]
    BY <1>5, <2>1, EditFields DEF RegisterOps
  <2>6. IdtTypes'
    BY <1>3, <1>4, <2>1, <2>4, <2>5 DEF IdtTypes
  <2>7. ASSUME NEW w \in Vectors, w # V PROVE Same(w)
    BY <1>3, <1>4, <1>8, <2>1, <2>7 DEF Same, IdtTypes
  <2>8. OwnStubs'
    BY <1>4, <2>1 DEF OwnStubs
  <2> QED
    BY <1>10, <2>1, <2>3, <2>4, <2>6, <2>7, <2>8
<1>12. CASE set_pointer
  <2>1. /\ e.op = "pointer" /\ table' = [table EXCEPT ![V] = e.who]
        /\ edit' = [e EXCEPT !.op = "clear"] /\ UNCHANGED <<stub, gate>>
    BY <1>1, <1>2, <1>12 DEF set_pointer
  <2>2. table' \in [Vectors -> Who \cup {"default", "wild"}] /\ table'[V] = e.who
    BY <1>4, <1>6, <1>7, <2>1 DEF IdtTypes
  <2>3. edit' \in [op : RegisterOps \cup ReleaseOps, who : Who, at : Nat]
    BY <1>5, <2>1, EditFields DEF RegisterOps
  <2>4. IdtTypes'
    BY <1>3, <1>4, <2>1, <2>2, <2>3 DEF IdtTypes
  <2>5. ASSUME NEW w \in Vectors, w # V PROVE Same(w)
    BY <1>3, <1>4, <2>1, <2>5 DEF Same, IdtTypes
  <2>6. OwnStubs'
    BY <1>4, <2>1 DEF OwnStubs
  <2>7. stub'[e.at].nr = V /\ stub'[e.at].ctx = e.who
    BY <1>6, <2>1
  <2> QED
    BY <1>10, <2>1, <2>2, <2>4, <2>5, <2>6, <2>7
<1>13. CASE clear_gate
  <2>1. /\ e.op = "clear" /\ gate' = [gate EXCEPT ![V] = [@ EXCEPT !.present = FALSE]]
        /\ edit' = [e EXCEPT !.op = "gate"] /\ UNCHANGED <<stub, table>>
    BY <1>1, <1>2, <1>13 DEF clear_gate
  <2>2. gate[V] \in [present : BOOLEAN, to : {"none", "system", "stub"}, nr : Nat]
    BY <1>4, <1>6 DEF IdtTypes
  <2>3. /\ [gate[V] EXCEPT !.present = FALSE]
              \in [present : BOOLEAN, to : {"none", "system", "stub"}, nr : Nat]
        /\ [gate[V] EXCEPT !.present = FALSE].present = FALSE
    BY <2>2
  <2>4. /\ gate' \in [Vectors -> [present : BOOLEAN, to : {"none", "system", "stub"}, nr : Nat]]
        /\ gate'[V].present = FALSE
        /\ \A w \in Vectors : w # V => gate'[w] = gate[w]
    BY <1>4, <1>6, <2>1, <2>3 DEF IdtTypes
  <2>5. edit' \in [op : RegisterOps \cup ReleaseOps, who : Who, at : Nat]
    BY <1>5, <2>1, EditFields DEF RegisterOps
  <2>6. IdtTypes'
    BY <1>3, <1>4, <2>1, <2>4, <2>5 DEF IdtTypes
  <2>7. ASSUME NEW w \in Vectors, w # V PROVE Same(w)
    BY <1>3, <2>1, <2>4, <2>7 DEF Same
  <2>8. OwnStubs'
    BY <1>4, <2>4 DEF OwnStubs
  <2>9. stub'[e.at].nr = V /\ stub'[e.at].ctx = e.who /\ table'[V] = e.who
    BY <1>6, <2>1
  <2> QED
    BY <1>10, <2>1, <2>6, <2>7, <2>8, <2>9
<1> QED
  BY <1>11, <1>12, <1>13

\* The last step of a registration: the way of the interrupt is complete, and
\* the vector is its registrant's.
LEMMA SetGateStep ==
  ASSUME IdtInv, set_gate
  PROVE  IdtInv'
<1>1. PICK e : e = edit
  OBVIOUS
<1>2. PICK V : V = VectorOf(e.at)
  OBVIOUS
<1>3. /\ e # Idle /\ e.op = "gate" /\ edit' = Idle /\ UNCHANGED <<stub, table, hit>>
      /\ gate' = [gate EXCEPT ![V] = [present |-> TRUE, to |-> "stub", nr |-> e.at]]
      /\ owner' = [owner EXCEPT ![V] = e.who]
  BY <1>1, <1>2 DEF set_gate
<1>4. IdtTypes /\ Registering /\ OwnStubs /\ \A w \in Vectors : Safe(w) => Wired(w)
  BY DEF IdtInv
<1>5. e \in [op : RegisterOps \cup ReleaseOps, who : Who, at : Nat]
  BY <1>1, <1>3, <1>4 DEF IdtTypes
<1>6. /\ e.at \in Stubs /\ V \in Vectors /\ stub[e.at].nr = V
      /\ stub[e.at].ctx = e.who /\ table[V] = e.who
  BY <1>1, <1>2, <1>3, <1>4 DEF Registering, RegisterOps
<1>7. e.at \in Nat /\ e.who \in Who /\ StubOf(V) = e.at
  BY <1>2, <1>5, Places
<1>8. /\ gate' \in [Vectors -> [present : BOOLEAN, to : {"none", "system", "stub"}, nr : Nat]]
      /\ gate'[V].present /\ gate'[V].to = "stub" /\ gate'[V].nr = e.at
      /\ \A w \in Vectors : w # V => gate'[w] = gate[w]
  BY <1>3, <1>4, <1>6, <1>7 DEF IdtTypes
<1>9. /\ owner' \in [Vectors -> Who] /\ owner'[V] = e.who
      /\ \A w \in Vectors : w # V => owner'[w] = owner[w]
  BY <1>3, <1>4, <1>6, <1>7 DEF IdtTypes
<1>10. IdtTypes'
  BY <1>3, <1>4, <1>8, <1>9 DEF IdtTypes
<1>11. Wired(V)'
  BY <1>3, <1>6, <1>7, <1>8, <1>9 DEF Wired
<1>12. ASSUME NEW w \in Vectors PROVE (Safe(w) => Wired(w))'
  <2>1. CASE w = V
    BY <1>11, <2>1
  <2>2. CASE w # V
    <3>1. Same(w)
      BY <1>3, <1>8, <1>9, <2>2 DEF Same
    <3> QED
      BY <1>3, <1>4, <3>1, SameWired
  <2> QED
    BY <2>1, <2>2
<1>13. OwnStubs'
  BY <1>4, <1>8 DEF OwnStubs
<1> QED
  BY <1>3, <1>10, <1>12, <1>13 DEF IdtInv, Registering, Releasing

\* release_irq_handler resets a stub; whoever it belongs to, its vector counts
\* as taken from then on.
LEMMA ReleaseStep ==
  ASSUME IdtInv, NEW v \in Vectors, release_irq_handler(v)
  PROVE  IdtInv'
<1>1. PICK i : i = ReleasedStub(v)
  OBVIOUS
<1>2. /\ edit = Idle /\ i \in Stubs
      /\ stub' = [stub EXCEPT ![i] = FreeStub] /\ hit' = hit \cup {i}
      /\ owner' = [owner EXCEPT ![v] = "none"]
      /\ edit' = [op |-> "unpoint", who |-> owner[v], at |-> v]
      /\ UNCHANGED <<table, gate>>
  BY <1>1 DEF release_irq_handler
<1>3. IdtTypes /\ OwnStubs /\ \A w \in Vectors : Safe(w) => Wired(w)
  BY DEF IdtInv
<1>4. /\ stub' \in [Stubs -> [nr : Int \cup {Magic}, ctx : Who]]
      /\ \A j \in Stubs : j # i => stub'[j] = stub[j]
  BY <1>2, <1>3 DEF IdtTypes, FreeStub, Who
<1>5. /\ owner' \in [Vectors -> Who] /\ owner'[v] = "none" /\ owner[v] \in Who
      /\ \A w \in Vectors : w # v => owner'[w] = owner[w]
  BY <1>2, <1>3 DEF IdtTypes, Who
<1>6. v \in Nat
  BY Places
<1>7. edit' \in [op : RegisterOps \cup ReleaseOps, who : Who, at : Nat]
  BY <1>2, <1>5, <1>6 DEF ReleaseOps
<1>8. IdtTypes'
  BY <1>2, <1>3, <1>4, <1>5, <1>7 DEF IdtTypes
<1>9. ~Safe(v)'
  BY <1>5 DEF Safe, Held
<1>10. ASSUME NEW w \in Vectors PROVE (Safe(w) => Wired(w))'
  <2>1. CASE w = v
    BY <1>9, <2>1
  <2>2. CASE w # v /\ StubOf(w) = i
    <3>1. VectorOf(i) = w
      BY <2>2, Places
    <3>2. Taken(w)'
      BY <1>2, <3>1 DEF Taken
    <3> QED
      BY <3>2 DEF Safe
  <2>3. CASE w # v /\ StubOf(w) # i
    <3>1. Same(w)
      BY <1>2, <1>4, <1>5, <2>3 DEF Same
    <3>2. hit \subseteq hit'
      BY <1>2
    <3> QED
      BY <1>3, <3>1, <3>2, SameWired
  <2> QED
    BY <2>1, <2>2, <2>3
<1>11. Registering' /\ Releasing'
  <2>1. edit'.op = "unpoint" /\ edit'.at = v
    BY <1>2
  <2> QED
    BY <1>9, <2>1 DEF Registering, Releasing, RegisterOps
<1>12. OwnStubs'
  BY <1>2, <1>3 DEF OwnStubs
<1> QED
  BY <1>8, <1>10, <1>11, <1>12 DEF IdtInv

\* The rest of a release touches the released vector only.
LEMMA ClearStep ==
  ASSUME IdtInv, clear_pointer \/ drop_gate
  PROVE  IdtInv'
<1>1. PICK e : e = edit
  OBVIOUS
<1>2. e # Idle /\ e.op \in ReleaseOps /\ UNCHANGED <<stub, owner, hit>>
  BY <1>1 DEF clear_pointer, drop_gate, ReleaseOps
<1>3. IdtTypes /\ OwnStubs /\ \A w \in Vectors : Safe(w) => Wired(w)
  BY DEF IdtInv
<1>4. e \in [op : RegisterOps \cup ReleaseOps, who : Who, at : Nat]
  BY <1>1, <1>2, <1>3 DEF IdtTypes
<1>5. e.at \in Vectors /\ ~Safe(e.at)
  BY <1>1, <1>2 DEF IdtInv, Releasing
<1>6. ~Safe(e.at)'
  BY <1>2, <1>5 DEF Safe, Held, Taken
<1>7. ASSUME \A w \in Vectors : w # e.at => Same(w), NEW w \in Vectors
      PROVE  (Safe(w) => Wired(w))'
  <2>1. CASE w = e.at
    BY <1>6, <2>1
  <2>2. CASE w # e.at
    BY <1>2, <1>3, <1>7, <2>2, SameWired
  <2> QED
    BY <2>1, <2>2
<1>8. CASE clear_pointer
  <2>1. /\ table' = [table EXCEPT ![e.at] = "wild"]
        /\ edit' = [e EXCEPT !.op = "absent"] /\ UNCHANGED gate
    BY <1>1, <1>8 DEF clear_pointer
  <2>2. table' \in [Vectors -> Who \cup {"default", "wild"}]
    BY <1>3, <1>5, <2>1 DEF IdtTypes
  <2>3. /\ edit' \in [op : RegisterOps \cup ReleaseOps, who : Who, at : Nat]
        /\ edit'.op = "absent" /\ edit'.at = e.at
    BY <1>4, <2>1, EditFields DEF ReleaseOps
  <2>4. IdtTypes'
    BY <1>2, <1>3, <2>1, <2>2, <2>3 DEF IdtTypes
  <2>5. \A w \in Vectors : w # e.at => Same(w)
    BY <1>2, <1>3, <2>1 DEF Same, IdtTypes
  <2>6. Registering' /\ Releasing'
    BY <1>5, <1>6, <2>3 DEF Registering, Releasing, RegisterOps
  <2>7. OwnStubs'
    BY <1>3, <2>1 DEF OwnStubs
  <2> QED
    BY <1>7, <2>4, <2>5, <2>6, <2>7 DEF IdtInv
<1>9. CASE drop_gate
  <2>1. /\ gate' = [gate EXCEPT ![e.at] = [@ EXCEPT !.present = FALSE]]
        /\ edit' = Idle /\ UNCHANGED table
    BY <1>1, <1>9 DEF drop_gate
  <2>2. gate[e.at] \in [present : BOOLEAN, to : {"none", "system", "stub"}, nr : Nat]
    BY <1>3, <1>5 DEF IdtTypes
  <2>3. /\ [gate[e.at] EXCEPT !.present = FALSE]
              \in [present : BOOLEAN, to : {"none", "system", "stub"}, nr : Nat]
        /\ [gate[e.at] EXCEPT !.present = FALSE].present = FALSE
    BY <2>2
  <2>4. /\ gate' \in [Vectors -> [present : BOOLEAN, to : {"none", "system", "stub"}, nr : Nat]]
        /\ gate'[e.at].present = FALSE
        /\ \A w \in Vectors : w # e.at => gate'[w] = gate[w]
    BY <1>3, <1>5, <2>1, <2>3 DEF IdtTypes
  <2>5. IdtTypes'
    BY <1>2, <1>3, <2>1, <2>4 DEF IdtTypes
  <2>6. \A w \in Vectors : w # e.at => Same(w)
    BY <1>2, <2>1, <2>4 DEF Same
  <2>7. OwnStubs'
    BY <1>3, <2>4 DEF OwnStubs
  <2> QED
    BY <1>7, <2>1, <2>5, <2>6, <2>7 DEF IdtInv, Registering, Releasing
<1> QED
  BY <1>8, <1>9

\* init, in the state that the linker left.
LEMMA InitStep ==
  ASSUME IdtInv, \A v \in Vectors : ~Held(v), edit = Idle, idt_init
  PROVE  IdtInv' /\ (\A v \in Vectors : ~Held(v))' /\ edit' = Idle
<1>1. UNCHANGED <<stub, edit, owner, hit>>
  BY DEF idt_init
<1>2. IdtTypes
  BY DEF IdtInv
<1>3. table' \in [Vectors -> Who \cup {"default", "wild"}]
  BY DEF idt_init, Who
<1>4. ASSUME NEW v \in Vectors
      PROVE  /\ gate'[v] \in [present : BOOLEAN, to : {"none", "system", "stub"}, nr : Nat]
             /\ gate'[v].present => gate'[v].nr = v
  <2>1. CASE v <= Reserved /\ v \notin Unused
    <3>1. v \in 0 .. Reserved /\ v \in Nat
      BY <2>1, Places
    <3>2. gate'[v] = [present |-> TRUE, to |-> "system", nr |-> SystemStub(v)]
      BY <2>1 DEF idt_init
    <3>3. SystemStub(v) = v
      BY <2>1, <3>1, SystemStubIsOwn
    <3> QED
      BY <3>1, <3>2, <3>3
  <2>2. CASE ~(v <= Reserved /\ v \notin Unused)
    <3>1. gate'[v] = [present |-> FALSE, to |-> "none", nr |-> 0]
      BY <2>2 DEF idt_init
    <3> QED
      BY <3>1
  <2> QED
    BY <2>1, <2>2
<1>5. gate' \in [Vectors -> [present : BOOLEAN, to : {"none", "system", "stub"}, nr : Nat]]
  <2>1. gate' = [v \in Vectors |-> gate'[v]]
    BY DEF idt_init
  <2> QED
    BY <1>4, <2>1
<1>6. IdtTypes'
  BY <1>1, <1>2, <1>3, <1>5 DEF IdtTypes
<1>7. OwnStubs'
  BY <1>4 DEF OwnStubs
<1>8. (\A v \in Vectors : ~Held(v))'
  BY <1>1 DEF Held
<1> QED
  BY <1>1, <1>6, <1>7, <1>8 DEF IdtInv, Safe, Registering, Releasing

-----------------------------------------------------------------------------
(* What follows *)

\* The steps of the kernel, as far as the descriptor table is concerned.
IdtStep ==
  \/ \E v \in Vectors, who \in Who : register_system_handler(v, who)
  \/ \E who \in Who : register_irq_handler(who)
  \/ EditStep
  \/ \E v \in Vectors : release_irq_handler(v)
  \/ UNCHANGED ivars

LEMMA IdtInvStep == IdtInv /\ IdtStep => IdtInv'
<1>1. ASSUME IdtInv, UNCHANGED ivars PROVE IdtInv'
  BY <1>1 DEF ivars, IdtInv, IdtTypes, Safe, Held, Taken, Wired, Registering, Releasing, OwnStubs
<1>2. ASSUME IdtInv, EditStep PROVE IdtInv'
  BY <1>2, PatchStep, SetGateStep, ClearStep DEF EditStep
<1> QED
  BY <1>1, <1>2, SystemHandlerStep, RegisterStep, ReleaseStep DEF IdtStep

LEMMA WiredIsRight == IdtInv => RightHandler
<1> SUFFICES ASSUME IdtInv, NEW v \in Vectors
             PROVE  /\ Safe(v) => Dispatch(v) = [fn |-> owner[v], ctx |-> owner[v]]
                    /\ gate[v].present /\ gate[v].to = "system" => gate[v].nr = v
  BY DEF RightHandler, Safe
<1>1. ASSUME Safe(v) PROVE Dispatch(v) = [fn |-> owner[v], ctx |-> owner[v]]
  <2>1. Wired(v)
    BY <1>1 DEF IdtInv
  <2>2. v # Magic
    BY IdtAssumption, Places
  <2> QED
    BY <2>1, <2>2 DEF Wired, Dispatch
<1> QED
  BY <1>1 DEF IdtInv, OwnStubs

\* A step gives a vector to another only if a release has taken it.
GivesFree ==
  \A v \in Vectors : Held(v) /\ owner'[v] # owner[v] /\ owner'[v] # "none" => Taken(v)

LEMMA StepGivesFree == IdtInv /\ IdtStep => GivesFree
<1> SUFFICES ASSUME IdtInv, IdtStep, NEW v \in Vectors, Held(v), owner'[v] # owner[v],
                    owner'[v] # "none"
             PROVE  Taken(v)
  BY DEF GivesFree
<1>1. owner \in [Vectors -> Who]
  BY DEF IdtInv, IdtTypes
<1>2. owner' # owner
  OBVIOUS
<1>3. CASE set_gate
  <2>1. owner' = [owner EXCEPT ![VectorOf(edit.at)] = edit.who] /\ edit # Idle /\ edit.op = "gate"
    BY <1>3 DEF set_gate
  <2>2. v = VectorOf(edit.at)
    BY <1>1, <2>1
  <2>3. ~Safe(v)
    BY <2>1, <2>2 DEF IdtInv, Registering, RegisterOps
  <2> QED
    BY <2>3 DEF Safe
<1>4. ASSUME NEW w \in Vectors, release_irq_handler(w) PROVE FALSE
  <2>1. owner' = [owner EXCEPT ![w] = "none"]
    BY <1>4 DEF release_irq_handler
  <2> QED
    BY <1>1, <2>1
<1> QED
  BY <1>2, <1>3, <1>4 DEF IdtStep, EditStep, register_system_handler, register_irq_handler,
     patch_context, set_pointer, clear_gate, clear_pointer, drop_gate, ivars

-----------------------------------------------------------------------------
(* The descriptor table in the running kernel *)

\* Nobody registers anything before init of the descriptor table has run.
BeforeInit == pc = "start" => edit = Idle /\ \A v \in Vectors : ~Held(v)

\* Every step of the kernel and of its devices is one of the descriptor table,
\* or init, and none leads back to the start.
LEMMA NextOnTable ==
  ASSUME BeforeInit, [Next]_vars
  PROVE  /\ IdtStep \/ (pc = "start" /\ idt_init)
         /\ pc' = "start" => pc = "start" /\ UNCHANGED ivars
<1>1. {"pit", "spurious"} \subseteq Who /\ \A d \in Drivers : d \in Who
  BY BootAssumption DEF Who
<1>2. ASSUME UNCHANGED ivars, pc' = "start" => pc = "start"
      PROVE  /\ IdtStep \/ (pc = "start" /\ idt_init)
             /\ pc' = "start" => pc = "start" /\ UNCHANGED ivars
  BY <1>2 DEF IdtStep
<1>3. ASSUME IdtStep, pc' # "start"
      PROVE  /\ IdtStep \/ (pc = "start" /\ idt_init)
             /\ pc' = "start" => pc = "start" /\ UNCHANGED ivars
  BY <1>3
<1>4. CASE UNCHANGED vars
  BY <1>2, <1>4 DEF vars, bvars
<1>5. CASE cpu
  <2>1. CASE start_idt
    BY <2>1 DEF start_idt, Go
  <2>2. CASE parse \/ parse_entry \/ parse_next
    <3>1. pc' # "start" /\ UNCHANGED ivars
      BY <2>2 DEF parse, parse_entry, parse_next, Go
    <3> QED
      BY <1>2, <3>1
  <2>3. CASE lapic_fails \/ lapic_on \/ pit_refused \/ pit_route
    <3>1. pc' # "start" /\ UNCHANGED ivars
      BY <2>3 DEF lapic_fails, lapic_on, pit_refused, pit_route, Go
    <3> QED
      BY <1>2, <3>1
  <2>4. CASE lapic_init \/ pit_init
    <3>1. pc' # "start" /\ (register_irq_handler("spurious") \/ register_irq_handler("pit"))
      BY <2>4 DEF lapic_init, pit_init, Go
    <3>2. IdtStep
      BY <1>1, <3>1 DEF IdtStep
    <3> QED
      BY <1>3, <3>1, <3>2
  <2>5. CASE warm_up \/ flags \/ calibrate \/ calibrated
    <3>1. pc' # "start" /\ UNCHANGED ivars
      BY <2>5 DEF warm_up, flags, calibrate, calibrated, set_handlers, set_mode, set_count,
                  walk, set_flag, Go
    <3> QED
      BY <1>2, <3>1
  <2>6. CASE edit_step
    <3>1. IdtStep /\ pc' = pc
      BY <2>6 DEF edit_step, IdtStep, bvars
    <3>2. edit # Idle
      BY <2>6 DEF edit_step, EditStep, patch_context, set_pointer, clear_gate, set_gate,
                  clear_pointer, drop_gate
    <3> QED
      BY <1>3, <3>1, <3>2 DEF BeforeInit
  <2> QED
    BY <1>5, <2>1, <2>2, <2>3, <2>4, <2>5, <2>6 DEF cpu
<1>6. CASE kernel
  <2>1. ASSUME NEW d \in Drivers, driver_register(d) PROVE IdtStep /\ pc' # "start"
    <3>1. pc' # "start" /\ (register_irq_handler(d) \/ UNCHANGED ivars)
      BY <2>1 DEF driver_register, Call, register_full
    <3> QED
      BY <1>1, <3>1 DEF IdtStep
  <2>2. ASSUME NEW d \in Drivers, NEW v \in Vectors, driver_route(d, v)
        PROVE  UNCHANGED ivars /\ pc' # "start"
    BY <2>2 DEF driver_route, Call
  <2>3. ASSUME NEW v \in Vectors, driver_release(v) PROVE IdtStep /\ pc' # "start"
    <3>1. pc' # "start" /\ release_irq_handler(v)
      BY <2>3 DEF driver_release, Call
    <3> QED
      BY <3>1 DEF IdtStep
  <2>4. ASSUME NEW v \in Vectors, driver_release_wild(v)
        PROVE  UNCHANGED ivars /\ pc' # "start"
    BY <2>4 DEF driver_release_wild
  <2>5. ASSUME NEW d \in Drivers, NEW v \in Vectors, kernel_system_handler(v, d)
        PROVE  IdtStep /\ pc' # "start"
    <3>1. pc' # "start" /\ register_system_handler(v, d)
      BY <2>5 DEF kernel_system_handler, Call
    <3> QED
      BY <1>1, <3>1 DEF IdtStep
  <2>6. ASSUME kernel_timer PROVE UNCHANGED ivars /\ pc' # "start"
    BY <2>6 DEF kernel_timer, set_handlers, set_mode, set_count, Go
  <2>7. ASSUME NEW target, NEW mode, kernel_ipi(target, mode)
        PROVE  UNCHANGED ivars /\ pc' # "start"
    BY <2>7 DEF kernel_ipi, Call
  <2>8. ASSUME NEW v \in Vectors, kernel_lapic_timer(v) PROVE UNCHANGED ivars /\ pc' # "start"
    BY <2>8 DEF kernel_lapic_timer, Call
  <2> QED
    BY <1>2, <1>3, <1>6, <2>1, <2>2, <2>3, <2>4, <2>5, <2>6, <2>7, <2>8 DEF kernel
<1>7. CASE pit_tick \/ lapic_tick \/ \E g \in Lines : device_edge(g)
  <2>1. UNCHANGED ivars /\ UNCHANGED pc
    BY <1>7 DEF pit_tick, lapic_tick, device_edge
  <2> QED
    BY <1>2, <2>1
<1>8. ASSUME NEW v \in Vectors, deliver(v)
      PROVE  UNCHANGED ivars /\ (pc' = "start" => pc = "start")
  BY <1>8 DEF deliver, Resume
<1> QED
  BY <1>2, <1>4, <1>5, <1>6, <1>7, <1>8 DEF Next

TableInv == IdtInv /\ BeforeInit

LEMMA TableInvNext == TableInv /\ [Next]_vars => TableInv' /\ [GivesFree]_ivars
<1> SUFFICES ASSUME IdtInv, BeforeInit, [Next]_vars
             PROVE  IdtInv' /\ BeforeInit' /\ [GivesFree]_ivars
  BY DEF TableInv
<1>1. /\ IdtStep \/ (pc = "start" /\ idt_init)
      /\ pc' = "start" => pc = "start" /\ UNCHANGED ivars
  BY NextOnTable
<1>2. BeforeInit'
  BY <1>1 DEF BeforeInit, ivars, Held
<1>3. CASE IdtStep
  BY <1>2, <1>3, IdtInvStep, StepGivesFree
<1>4. CASE pc = "start" /\ idt_init
  <2>1. IdtInv' /\ (\A v \in Vectors : ~Held(v))
    BY <1>4, InitStep DEF BeforeInit
  <2> QED
    BY <1>2, <2>1 DEF GivesFree
<1> QED
  BY <1>1, <1>3, <1>4

LEMMA TableInvInit == ASSUME Init PROVE TableInv
<1>1. IdtInit
  BY DEF Init
<1>2. IdtInv
  BY <1>1, IdtInvInit
<1> QED
  BY <1>1, <1>2 DEF TableInv, BeforeInit, IdtInit, Held

\* Whatever the machine, its devices and its drivers do, the table is sound.
THEOREM TableInvariant == Spec => []TableInv
<1>1. Init => TableInv
  BY TableInvInit
<1>2. TableInv /\ [Next]_vars => TableInv'
  BY TableInvNext
<1> QED
  BY <1>1, <1>2, PTL DEF Spec

\* An interrupt on a vector that someone holds runs that one's handler with its
\* context, also in the middle of the registration or release of another, unless
\* a release reset its stub (idt.cc:250); a system vector runs its own entry.
THEOREM HandlerAlwaysRight == Spec => []RightHandler
<1>1. TableInv => RightHandler
  BY WiredIsRight DEF TableInv
<1> QED
  BY <1>1, TableInvariant, PTL

\* register_irq_handler gives nobody a vector that another one holds, unless a
\* release reset its stub.
THEOREM VectorsExclusive == Spec => Exclusive
<1>1. TableInv /\ [Next]_vars => [GivesFree]_ivars
  BY TableInvNext
<1>2. [GivesFree]_ivars =>
      [\A v \in Vectors : Held(v) /\ owner'[v] # owner[v] /\ owner'[v] # "none" => Taken(v)]_ivars
  BY DEF GivesFree
<1> QED
  BY <1>1, <1>2, TableInvariant, PTL DEF Spec, Exclusive

-----------------------------------------------------------------------------
(* Interprocessor interrupts *)

History == {"late", "woken", "by", "ran", "ipi", "other"}

\* IpiReaches needs to know when the command register still holds 0: until a
\* processor with another id has been asked for.
IpiInv ==
  /\ DOMAIN seen = History /\ seen.ipi \in Int /\ seen.other \in BOOLEAN
  /\ icr.hi # 0 => seen.other \/ seen.ipi > 0
  /\ IpiReaches

\* A step that sends none.
Quiet ==
  /\ icr' = icr /\ DOMAIN seen' = DOMAIN seen
  /\ seen'.ipi = seen.ipi /\ seen'.other = seen.other

LEMMA QuietStep == ASSUME IpiInv, Quiet PROVE IpiInv'
BY DEF IpiInv, Quiet, IpiReaches

\* What the other steps note leaves alone what is known of the last one sent.
LEMMA NotedQuiet ==
  ASSUME IpiInv, NEW late
  PROVE  /\ DOMAIN [seen EXCEPT !.late = late] = DOMAIN seen
         /\ [seen EXCEPT !.late = late].ipi = seen.ipi
         /\ [seen EXCEPT !.late = late].other = seen.other
         /\ DOMAIN Noted = DOMAIN seen /\ Noted.ipi = seen.ipi /\ Noted.other = seen.other
<1>1. {"ipi", "other", "by", "woken", "ran", "late"} \subseteq DOMAIN seen
  BY DEF IpiInv, History
<1>2. /\ DOMAIN [seen EXCEPT !.late = late] = DOMAIN seen
      /\ [seen EXCEPT !.late = late].ipi = seen.ipi
      /\ [seen EXCEPT !.late = late].other = seen.other
  BY <1>1
<1>3. DOMAIN Noted = DOMAIN seen /\ Noted.ipi = seen.ipi /\ Noted.other = seen.other
  BY <1>1 DEF Noted
<1> QED
  BY <1>2, <1>3

\* One is sent: to a processor, or to all.
LEMMA IpiStep ==
  ASSUME IpiInv, NEW target \in Nat, NEW mode \in {"none", "all"}, kernel_ipi(target, mode)
  PROVE  IpiInv'
<1> DEFINE to == IF mode = "none" THEN target ELSE -1
<1>1. /\ icr' = send_ipi(icr, target, mode, "fixed", 1)
      /\ seen' = [seen EXCEPT !.ipi = to, !.other = seen.other \/ seen.ipi > 0]
  BY DEF kernel_ipi
<1>2. icr'.hi = IF mode = "none" /\ target # 0 THEN target ELSE icr.hi
  BY <1>1 DEF send_ipi
<1>3. to \in Int
  OBVIOUS
<1>4. /\ DOMAIN seen' = History /\ seen'.ipi = to
      /\ seen'.other = (seen.other \/ seen.ipi > 0)
  <2> HIDE DEF to
  <2> QED
    BY <1>1 DEF IpiInv, History
<1>5. seen.ipi \in Int /\ seen.other \in BOOLEAN /\ (icr.hi # 0 => seen.other \/ seen.ipi > 0)
  BY DEF IpiInv
<1>6. icr'.hi # 0 => seen'.other \/ seen'.ipi > 0
  <2>1. to > 0 \/ icr'.hi = icr.hi
    BY <1>2
  <2> HIDE DEF to
  <2> QED
    BY <1>4, <1>5, <2>1, Zenon
<1>7. IpiReaches'
  BY <1>2, <1>4, <1>5 DEF IpiReaches
<1> QED
  BY <1>3, <1>4, <1>6, <1>7 DEF IpiInv

LEMMA IpiInvNext == ASSUME IpiInv, [Next]_vars PROVE IpiInv'
<1>1. ASSUME UNCHANGED <<icr, seen>> PROVE IpiInv'
  BY <1>1, QuietStep DEF Quiet
<1>2. CASE UNCHANGED vars
  BY <1>1, <1>2 DEF vars, bvars
<1>3. CASE cpu
  <2>1. UNCHANGED <<icr, seen>>
    <3>1. CASE start_idt \/ parse \/ parse_entry \/ parse_next
      BY <3>1 DEF start_idt, parse, parse_entry, parse_next
    <3>2. CASE lapic_fails \/ lapic_init \/ lapic_on \/ pit_refused \/ pit_init \/ pit_route
      BY <3>2 DEF lapic_fails, lapic_init, lapic_on, pit_refused, pit_init, pit_route
    <3>3. CASE warm_up \/ flags \/ calibrate \/ calibrated
      BY <3>3 DEF warm_up, flags, calibrate, calibrated, set_handlers, set_mode, set_count,
                  walk, set_flag
    <3>4. CASE edit_step
      BY <3>4 DEF edit_step, bvars
    <3> QED
      BY <1>3, <3>1, <3>2, <3>3, <3>4 DEF cpu
  <2> QED
    BY <1>1, <2>1
<1>4. CASE kernel
  <2>1. ASSUME NEW target \in Targets, kernel_ipi(target, "none") PROVE IpiInv'
    BY <2>1, IpiStep, BootAssumption
  <2>2. ASSUME kernel_ipi(0, "all") PROVE IpiInv'
    BY <2>2, IpiStep
  <2>3. ASSUME NEW d \in Drivers, NEW v \in Vectors,
               driver_register(d) \/ driver_route(d, v) \/ kernel_system_handler(v, d)
        PROVE  IpiInv'
    BY <1>1, <2>3 DEF driver_register, driver_route, kernel_system_handler
  <2>4. ASSUME NEW d \in Drivers, driver_register(d) PROVE IpiInv'
    BY <1>1, <2>4 DEF driver_register
  <2>5. ASSUME NEW v \in Vectors,
               driver_release(v) \/ driver_release_wild(v) \/ kernel_lapic_timer(v)
        PROVE  IpiInv'
    BY <1>1, <2>5 DEF driver_release, driver_release_wild, kernel_lapic_timer
  <2>6. ASSUME kernel_timer PROVE IpiInv'
    BY <1>1, <2>6 DEF kernel_timer, set_handlers, set_mode, set_count
  <2> QED
    BY <1>4, <2>1, <2>2, <2>3, <2>4, <2>5, <2>6 DEF kernel
<1>5. CASE pit_tick
  <2>1. icr' = icr /\ \E late : seen' = [seen EXCEPT !.late = late]
    BY <1>5 DEF pit_tick
  <2> QED
    BY <2>1, NotedQuiet, QuietStep DEF Quiet
<1>6. CASE lapic_tick \/ \E g \in Lines : device_edge(g)
  BY <1>1, <1>6 DEF lapic_tick, device_edge
<1>7. ASSUME NEW v \in Vectors, deliver(v) PROVE IpiInv'
  <2>1. icr' = icr /\ (seen' = Noted \/ seen' = seen)
    BY <1>7 DEF deliver, trigger
  <2>2. CASE seen' = Noted
    BY <2>1, <2>2, NotedQuiet, QuietStep DEF Quiet
  <2> QED
    BY <1>1, <2>1, <2>2
<1> QED
  BY <1>2, <1>3, <1>4, <1>5, <1>6, <1>7 DEF Next

\* An interprocessor interrupt goes to the processor that send_ipi was called
\* for, also after any number of others and of broadcasts, but for one to id 0
\* after one to another id (lapic.cc:432).
THEOREM IpiAlwaysReaches == Spec => []IpiReaches
<1>1. Init => IpiInv
  BY DEF Init, IpiInv, IpiReaches, History
<1>2. IpiInv /\ [Next]_vars => IpiInv'
  BY IpiInvNext
<1>3. IpiInv => IpiReaches
  BY DEF IpiInv
<1> QED
  BY <1>1, <1>2, <1>3, PTL DEF Spec

-----------------------------------------------------------------------------
(* Least and greatest numbers, and the entries of a table *)

LEMMA MinIn ==
  ASSUME NEW S \in SUBSET Nat, S # {}
  PROVE  Min(S) \in S /\ \A j \in S : Min(S) <= j
<1>1. \E p \in S : \A q \in S : p <= q
  BY LowestIn
<1> QED
  BY <1>1 DEF Min

LEMMA MaxIn ==
  ASSUME NEW n \in Nat, NEW S \in SUBSET (0 .. n), S # {}
  PROVE  Max(S) \in S /\ \A j \in S : j <= Max(S)
<1> DEFINE T == {y \in 0 .. n : n - y \in S}
<1>1. T \in SUBSET Nat
  OBVIOUS
<1>2. T # {}
  <2>1. PICK x \in S : TRUE
    OBVIOUS
  <2>2. n - x \in 0 .. n /\ n - (n - x) = x
    BY <2>1
  <2> QED
    BY <2>1, <2>2
<1>3. PICK p \in T : \A q \in T : p <= q
  BY <1>1, <1>2, LowestIn
<1>4. \A j \in S : n - j \in T
  OBVIOUS
<1>5. n - p \in S /\ \A j \in S : n - p >= j
  BY <1>3, <1>4
<1> HIDE DEF T
<1>6. \E x \in S : \A j \in S : x >= j
  BY <1>5
<1>7. Max(S) \in S /\ \A j \in S : Max(S) >= j
  BY <1>6 DEF Max
<1> QED
  BY <1>7

\* The places below k.
Below(J, k) == {j \in J : j < k}

LEMMA LastBelow ==
  ASSUME NEW J \in SUBSET (Nat \ {0})
  PROVE  /\ LastOf(Below(J, 1)) = 0
         /\ \A k \in Nat : k \in J => LastOf(Below(J, k + 1)) = k
         /\ \A k \in Nat : k \notin J => Below(J, k + 1) = Below(J, k)
         /\ \A n \in Nat : J \subseteq 1 .. n => Below(J, n + 1) = J
<1>0. \A j \in J : j \in Nat /\ j # 0
  OBVIOUS
<1>1. LastOf(Below(J, 1)) = 0
  <2>1. Below(J, 1) = {}
    <3>1. \A j \in J : ~(j < 1)
      BY <1>0
    <3> QED
      BY <3>1 DEF Below
  <2>2. {0} \cup {} = {0}
    OBVIOUS
  <2>3. LastOf({}) = 0
    BY <2>2 DEF LastOf, Max
  <2> QED
    BY <2>1, <2>3
<1>2. ASSUME NEW k \in Nat, k \in J PROVE LastOf(Below(J, k + 1)) = k
  <2> DEFINE S == {0} \cup Below(J, k + 1)
  <2>1. k \in S /\ \A y \in S : y \in Nat /\ k >= y
    BY <1>2 DEF Below
  <2>2. LastOf(Below(J, k + 1)) = CHOOSE x \in S : \A y \in S : x >= y
    BY DEF LastOf, Max
  <2> HIDE DEF S
  <2>3. \A x \in S : (\A y \in S : x >= y) => x = k
    BY <2>1
  <2> QED
    BY <2>1, <2>2, <2>3
<1>3. ASSUME NEW k \in Nat, k \notin J PROVE Below(J, k + 1) = Below(J, k)
  <2>1. \A j \in J : j < k + 1 <=> j < k
    BY <1>0, <1>3
  <2> QED
    BY <2>1 DEF Below
<1>4. ASSUME NEW n \in Nat, J \subseteq 1 .. n PROVE Below(J, n + 1) = J
  <2>1. \A j \in J : j < n + 1
    BY <1>0, <1>4
  <2> QED
    BY <2>1 DEF Below
<1> QED
  BY <1>1, <1>2, <1>3, <1>4

\* What the firmware presents, and what can be said of an entry by its type.
LEMMA TableFacts ==
  ASSUME NEW m \in Machines, m.madt # NoTable
  PROVE  /\ Len(m.madt) \in Nat /\ DOMAIN m.madt = 1 .. Len(m.madt)
         /\ \A j \in DOMAIN m.madt : EntryOK(m.madt[j])
<1>1. MachineOK(m)
  BY BootAssumption
<1> QED
  BY <1>1 DEF MachineOK

LEMMA EntryFields ==
  ASSUME NEW e, EntryOK(e)
  PROVE  /\ e.type = "lapic" => e.processor \in Byte /\ e.apic \in Byte
         /\ e.type = "ioapic" =>
              e.base \in Nat /\ \E n \in 1 .. 256 : e.pins \in [0 .. n - 1 -> Entry]
         /\ e.type = "override" =>
              /\ e.source \in Byte /\ e.global \in Byte
              /\ e.trigger \in Modes /\ e.polarity \in Levels
         /\ e.type = "nmi" =>
              e.global \in Byte /\ e.trigger \in Modes /\ e.polarity \in Levels
         /\ e.type = "lapicnmi" => /\ e.processor \in Byte /\ e.lint \in Byte
                                   /\ e.trigger \in Modes /\ e.polarity \in Levels
         /\ e.type = "address" => e.base \in Nat
BY DEF EntryOK

LEMMA EntriesIn ==
  ASSUME NEW m \in Machines, NEW type
  PROVE  /\ Entries(m.madt, type) \subseteq Nat \ {0}
         /\ IsFiniteSet(Entries(m.madt, type))
         /\ \A j \in Entries(m.madt, type) :
              /\ m.madt # NoTable /\ j \in DOMAIN m.madt /\ j \in 1 .. Len(m.madt)
              /\ EntryOK(m.madt[j]) /\ m.madt[j].type = type
<1>1. CASE m.madt = NoTable
  BY <1>1, FS_EmptySet DEF Entries
<1>2. CASE m.madt # NoTable
  <2>1. /\ Len(m.madt) \in Nat /\ DOMAIN m.madt = 1 .. Len(m.madt)
        /\ \A j \in DOMAIN m.madt : EntryOK(m.madt[j])
    BY <1>2, TableFacts
  <2>2. Entries(m.madt, type) = {j \in DOMAIN m.madt : m.madt[j].type = type}
    BY <1>2 DEF Entries
  <2>3. IsFiniteSet(1 .. Len(m.madt))
    BY <2>1, FS_Interval
  <2>4. Entries(m.madt, type) \subseteq 1 .. Len(m.madt)
    BY <2>1, <2>2
  <2>5. IsFiniteSet(Entries(m.madt, type))
    BY <2>3, <2>4, FS_Subset
  <2> QED
    BY <1>2, <2>1, <2>2, <2>4, <2>5
<1> QED
  BY <1>1, <1>2

\* The first processor id, and the number of processors.
LEMMA Cores ==
  ASSUME NEW m \in Machines
  PROVE  /\ core_base(m.madt) \in Byte
         /\ \A j \in Entries(m.madt, "lapic") : core_base(m.madt) <= m.madt[j].processor
         /\ core_count(m.madt) \in Nat
         /\ core_count(m.madt) = 0 <=> Entries(m.madt, "lapic") = {}
<1> DEFINE S == {255} \cup {m.madt[j].processor : j \in Entries(m.madt, "lapic")}
<1>1. ASSUME NEW j \in Entries(m.madt, "lapic") PROVE m.madt[j].processor \in Byte
  <2>1. EntryOK(m.madt[j]) /\ m.madt[j].type = "lapic"
    BY EntriesIn
  <2> QED
    BY <2>1, EntryFields
<1>2. S \in SUBSET Byte /\ S # {}
  <2>1. 255 \in Byte
    BY DEF Byte
  <2> QED
    BY <1>1, <2>1
<1>3. S \in SUBSET Nat
  BY <1>2 DEF Byte
<1>4. core_base(m.madt) = Min(S)
  BY DEF core_base
<1>5. \A j \in Entries(m.madt, "lapic") : m.madt[j].processor \in S
  OBVIOUS
<1> HIDE DEF S
<1>6. Min(S) \in S /\ \A j \in S : Min(S) <= j
  BY <1>2, <1>3, MinIn
<1>7. IsFiniteSet(Entries(m.madt, "lapic"))
  BY EntriesIn
<1>8. /\ Cardinality(Entries(m.madt, "lapic")) \in Nat
      /\ Cardinality(Entries(m.madt, "lapic")) = 0 <=> Entries(m.madt, "lapic") = {}
  BY <1>7, FS_CardinalityType, FS_EmptySet
<1> QED
  BY <1>2, <1>4, <1>5, <1>6, <1>8 DEF core_count

-----------------------------------------------------------------------------
(* The registers of the controllers *)

Slot == [vector : Nat, bits : SUBSET Bits]
Ioapic(D) == [base : Nat, size : Nat, pins : [D -> Slot]]

LEMMA EntryIsSlot == Entry \subseteq Slot
BY DEF Entry, Slot

LEMMA SlotBits ==
  ASSUME NEW e \in Slot, NEW B \in SUBSET Bits
  PROVE  /\ With(e, B) \in Slot /\ With(e, B).vector = e.vector /\ With(e, B).bits = e.bits \cup B
         /\ Without(e, B) \in Slot /\ Without(e, B).vector = e.vector
         /\ Without(e, B).bits = e.bits \ B
BY DEF With, Without, Slot

LEMMA FlagBits ==
  ASSUME NEW t, NEW p
  PROVE  /\ ioapic_flags(t, p) \in SUBSET Bits /\ 16 \notin ioapic_flags(t, p)
         /\ lapic_flags(t, p) \in SUBSET Bits /\ 16 \notin lapic_flags(t, p)
BY DEF ioapic_flags, lapic_flags, Bits

\* ioapic::init masks all pins but the last.
LEMMA InitIoapic ==
  ASSUME NEW n \in Nat \ {0}, NEW a \in Ioapic(0 .. n - 1), NEW base \in Nat, NEW granted \in BOOLEAN,
         NEW b, b = ioapic_init(a, base, granted)
  PROVE  /\ b \in Ioapic(0 .. n - 1)
         /\ ~granted => b = a
         /\ \A r \in 0 .. n - 1 :
              /\ b.pins[r].vector = a.pins[r].vector
              /\ Masked(a.pins[r]) => Masked(b.pins[r])
              /\ granted /\ r + 1 \in 0 .. n - 1 => Masked(b.pins[r])
              /\ r + 1 \notin 0 .. n - 1 => b.pins[r] = a.pins[r]
<1>1. CASE ~granted
  <2>1. b = a
    BY <1>1 DEF ioapic_init
  <2> QED
    BY <1>1, <2>1
<1>2. CASE granted
  <2> DEFINE pins == [r \in 0 .. n - 1 |-> IF r < n - 1 THEN With(a.pins[r], {16}) ELSE a.pins[r]]
  <2>1. a.pins \in [0 .. n - 1 -> Slot] /\ DOMAIN a.pins = 0 .. n - 1
    BY DEF Ioapic
  <2>2. Cardinality(DOMAIN a.pins) - 1 = n - 1
    <3>1. Cardinality(0 .. n - 1) = n
      BY FS_Interval
    <3> QED
      BY <2>1, <3>1
  <2>3. b = [base |-> base, size |-> n - 1, pins |-> pins]
    BY <1>2, <2>1, <2>2 DEF ioapic_init
  <2>4. ASSUME NEW r \in 0 .. n - 1
        PROVE  /\ pins[r] \in Slot /\ pins[r].vector = a.pins[r].vector
               /\ Masked(a.pins[r]) => Masked(pins[r])
               /\ r + 1 \in 0 .. n - 1 => Masked(pins[r])
               /\ r + 1 \notin 0 .. n - 1 => pins[r] = a.pins[r]
    <3>1. a.pins[r] \in Slot
      BY <2>1
    <3>2. /\ With(a.pins[r], {16}) \in Slot /\ With(a.pins[r], {16}).vector = a.pins[r].vector
          /\ With(a.pins[r], {16}).bits = a.pins[r].bits \cup {16}
      BY <3>1, SlotBits DEF Bits
    <3>3. r + 1 \in 0 .. n - 1 <=> r < n - 1
      OBVIOUS
    <3>4. pins[r] = IF r < n - 1 THEN With(a.pins[r], {16}) ELSE a.pins[r]
      OBVIOUS
    <3> HIDE DEF pins
    <3> QED
      BY <3>1, <3>2, <3>3, <3>4 DEF Masked
  <2>5. pins \in [0 .. n - 1 -> Slot]
    BY <2>4
  <2> HIDE DEF pins
  <2>6. b \in Ioapic(0 .. n - 1) /\ b.pins = pins
    BY <2>3, <2>5 DEF Ioapic
  <2> QED
    BY <1>2, <2>4, <2>6
<1> QED
  BY <1>1, <1>2

LEMMA PinRead ==
  ASSUME NEW D, NEW a \in Ioapic(D), NEW g
  PROVE  ReadPin(a, g) \in Slot /\ (g \in D => ReadPin(a, g) = a.pins[g])
<1>1. Clear \in Slot
  BY DEF Clear, Slot
<1> QED
  BY <1>1 DEF ReadPin, Ioapic

LEMMA PinWrite ==
  ASSUME NEW D, NEW a \in Ioapic(D), NEW g, NEW e \in Slot
  PROVE  /\ WritePin(a, g, e) \in Ioapic(D)
         /\ WritePin(a, g, e).base = a.base /\ WritePin(a, g, e).size = a.size
         /\ \A r \in D : r # g => WritePin(a, g, e).pins[r] = a.pins[r]
         /\ g \in D => WritePin(a, g, e).pins[g] = e
BY DEF WritePin, Ioapic

\* ioapic::set_nmi leaves the vector and the mask of a pin alone.
LEMMA NmiIoapic ==
  ASSUME NEW D, NEW a \in Ioapic(D), NEW g, NEW t, NEW p,
         NEW b, b = ioapic_set_nmi(a, g, t, p)
  PROVE  /\ b \in Ioapic(D) /\ b.base = a.base /\ b.size = a.size
         /\ \A r \in D :
              /\ b.pins[r].vector = a.pins[r].vector
              /\ Masked(b.pins[r]) <=> Masked(a.pins[r])
              /\ NMI \subseteq a.pins[r].bits => NMI \subseteq b.pins[r].bits
         /\ Serves(a, g) /\ g \in D => NMI \subseteq b.pins[g].bits
<1>1. CASE ~Serves(a, g)
  <2>1. b = a
    BY <1>1 DEF ioapic_set_nmi
  <2> QED
    BY <1>1, <2>1
<1>2. CASE Serves(a, g)
  <2>1. PICK old \in Slot : old = ReadPin(a, g)
    BY PinRead
  <2>2. PICK bits : bits = ioapic_flags(t, p) \cup NMI
    OBVIOUS
  <2>3. bits \in SUBSET Bits /\ 16 \notin bits /\ NMI \subseteq bits
    BY <2>2, FlagBits DEF NMI, Bits
  <2>4. PICK cut \in Slot : cut = Without(old, {8, 9, 10, 13, 14, 15})
    BY SlotBits DEF Bits
  <2>5. cut.vector = old.vector /\ (16 \in cut.bits <=> 16 \in old.bits)
    BY <2>4, SlotBits DEF Bits
  <2>6. PICK new \in Slot : new = With(cut, bits)
    BY <2>3, SlotBits
  <2>7. new.vector = cut.vector /\ new.bits = cut.bits \cup bits
    BY <2>3, <2>6, SlotBits
  <2>8. b = WritePin(a, g, new)
    BY <1>2, <2>1, <2>2, <2>4, <2>6 DEF ioapic_set_nmi
  <2>9. /\ b \in Ioapic(D) /\ b.base = a.base /\ b.size = a.size
        /\ \A r \in D : r # g => b.pins[r] = a.pins[r]
        /\ g \in D => b.pins[g] = new /\ old = a.pins[g]
    BY <2>1, <2>8, PinRead, PinWrite
  <2>10. new.vector = old.vector /\ (Masked(new) <=> Masked(old)) /\ NMI \subseteq new.bits
    BY <2>3, <2>5, <2>7 DEF Masked
  <2> QED
    BY <2>9, <2>10
<1> QED
  BY <1>1, <1>2

\* ioapic::set_route and ioapic::set_mask, as core::route_isa_irq calls them.
Routed(a, g, vector, t, p) ==
  ioapic_set_mask(ioapic_set_route(a, g, vector, t, p), g, FALSE)

LEMMA RouteIoapic ==
  ASSUME NEW D, NEW a \in Ioapic(D), NEW g, NEW vector \in Nat, NEW t, NEW p,
         NEW b, b = Routed(a, g, vector, t, p)
  PROVE  /\ b \in Ioapic(D) /\ b.base = a.base /\ b.size = a.size
         /\ \A r \in D : b.pins[r] = a.pins[r] \/ (r = g /\ b.pins[r].vector = vector)
<1>1. CASE ~Serves(a, g)
  <2>1. b = a
    BY <1>1 DEF Routed, ioapic_set_route, ioapic_set_mask
  <2> QED
    BY <1>1, <2>1
<1>2. CASE Serves(a, g)
  <2>1. PICK new : new = [vector |-> vector,
                          bits   |-> ioapic_flags(t, p) \cup {11, 16}]
    OBVIOUS
  <2>2. new \in Slot /\ new.vector = vector
    BY <2>1, FlagBits DEF Slot, Bits
  <2>3. PICK c : c = WritePin(a, g, new)
    OBVIOUS
  <2>4. /\ c \in Ioapic(D) /\ c.base = a.base /\ c.size = a.size
        /\ \A r \in D : r # g => c.pins[r] = a.pins[r]
        /\ g \in D => c.pins[g] = new
    BY <2>2, <2>3, PinWrite
  <2>5. Serves(c, g)
    BY <1>2, <2>4 DEF Serves, start, range
  <2>6. PICK old \in Slot : old = ReadPin(c, g)
    BY <2>4, PinRead
  <2>7. g \in D => old = new
    BY <2>4, <2>6, PinRead
  <2>8. PICK open \in Slot : open = With(Without(old, {16}), {}) /\ open.vector = old.vector
    <3>1. Without(old, {16}) \in Slot /\ Without(old, {16}).vector = old.vector
      BY SlotBits DEF Bits
    <3> QED
      BY <3>1, SlotBits
  <2>9. b = WritePin(c, g, open)
    BY <1>2, <2>1, <2>3, <2>5, <2>6, <2>8 DEF Routed, ioapic_set_route, ioapic_set_mask
  <2>10. /\ b \in Ioapic(D) /\ b.base = c.base /\ b.size = c.size
         /\ \A r \in D : r # g => b.pins[r] = c.pins[r]
         /\ g \in D => b.pins[g] = open
    BY <2>4, <2>9, PinWrite
  <2> QED
    BY <2>2, <2>4, <2>7, <2>8, <2>10
<1> QED
  BY <1>1, <1>2

\* A local APIC; svr and the address are of no concern here.
LapicFields == {"id", "address", "nmi", "trigger", "polarity", "init_done", "mapped", "svr",
                "timer", "lvt"}
LapicOK(l) ==
  /\ DOMAIN l = LapicFields
  /\ l.lvt \in [LvtNames -> Slot] /\ l.init_done \in BOOLEAN

\* All but the timer is masked.
Shut(l) == \A n \in LvtNames \ {"Timer"} : Masked(l.lvt[n])

LEMMA NewLapic ==
  ASSUME NEW id, NEW address, NEW l, l = new_lapic(id, address, FirmwareLvt)
  PROVE  LapicOK(l) /\ l.nmi = 255 /\ ~l.init_done /\ l.timer = "stopped"
<1>1. FirmwareLvt \in [LvtNames -> Slot]
  BY BootAssumption, EntryIsSlot
<1> QED
  BY <1>1 DEF new_lapic, LapicOK, LapicFields

LEMMA LvtWrite ==
  ASSUME NEW l, LapicOK(l), NEW name \in LvtNames, NEW e \in Slot,
         NEW k, k = [l EXCEPT !.lvt[name] = e]
  PROVE  /\ LapicOK(k) /\ k.lvt[name] = e /\ \A n \in LvtNames : n # name => k.lvt[n] = l.lvt[n]
         /\ k.nmi = l.nmi /\ k.init_done = l.init_done /\ k.timer = l.timer
BY DEF LapicOK, LapicFields

LEMMA NmiLapic ==
  ASSUME NEW l, LapicOK(l), NEW lint, NEW t, NEW p, NEW k, k = lapic_set_nmi(l, lint, t, p)
  PROVE  /\ LapicOK(k) /\ k.lvt = l.lvt /\ k.timer = l.timer /\ k.init_done = l.init_done
         /\ k.nmi = IF l.init_done THEN l.nmi ELSE lint
<1>1. CASE ~l.init_done
  <2>1. k = [l EXCEPT !.nmi = lint, !.trigger = t, !.polarity = p]
    BY <1>1 DEF lapic_set_nmi
  <2> QED
    BY <1>1, <2>1 DEF LapicOK, LapicFields
<1>2. CASE l.init_done
  <2>1. k = l
    BY <1>2 DEF lapic_set_nmi, WriteLvt, NmiRegister, LvtNames
  <2> QED
    BY <1>2, <2>1
<1> QED
  BY <1>1, <1>2

LEMMA MapLapic ==
  ASSUME NEW l, LapicOK(l), NEW k, k = lapic_map(l)
  PROVE  /\ LapicOK(k) /\ Shut(k) /\ k.timer = l.timer /\ k.nmi = l.nmi
         /\ k.init_done = l.init_done
<1> DEFINE lvt == [n \in LvtNames |-> With(l.lvt[n], {16})]
<1>1. \A n \in LvtNames : l.lvt[n] \in Slot
  BY DEF LapicOK
<1>2. \A n \in LvtNames : lvt[n] \in Slot /\ Masked(lvt[n])
  BY <1>1, SlotBits DEF Bits, Masked
<1>3. lvt \in [LvtNames -> Slot]
  BY <1>2
<1>4. k = [[l EXCEPT !.lvt = lvt] EXCEPT !.mapped = TRUE]
  BY DEF lapic_map, MaskAll
<1> HIDE DEF lvt
<1>5. /\ DOMAIN k = LapicFields /\ k.lvt = lvt /\ k.timer = l.timer /\ k.nmi = l.nmi
      /\ k.init_done = l.init_done
  BY <1>4 DEF LapicOK, LapicFields
<1> QED
  BY <1>2, <1>3, <1>5 DEF LapicOK, Shut

LEMMA EnableLapic ==
  ASSUME NEW l, LapicOK(l), NEW vector, NEW k, k = lapic_enable(l, vector)
  PROVE  LapicOK(k) /\ k.lvt = l.lvt /\ k.timer = l.timer /\ k.nmi = l.nmi
<1>1. PICK s : s = [l EXCEPT !.svr = vector]
  OBVIOUS
<1>2. LapicOK(s) /\ s.lvt = l.lvt /\ s.timer = l.timer /\ s.nmi = l.nmi
  BY <1>1 DEF LapicOK, LapicFields
<1>3. CASE l.nmi = 255
  BY <1>1, <1>2, <1>3 DEF lapic_enable
<1>4. CASE l.nmi # 255
  <2>1. PICK d : d = [s EXCEPT !.init_done = TRUE]
    OBVIOUS
  <2>2. LapicOK(d) /\ d.lvt = l.lvt /\ d.timer = l.timer /\ d.nmi = l.nmi /\ d.init_done
    BY <1>2, <2>1 DEF LapicOK, LapicFields
  <2>3. k = lapic_set_nmi(d, l.nmi, l.trigger, l.polarity)
    BY <1>1, <1>4, <2>1 DEF lapic_enable
  <2> QED
    BY <2>2, <2>3, NmiLapic
<1> QED
  BY <1>3, <1>4

LEMMA MaskTimer ==
  ASSUME NEW l, LapicOK(l), NEW masked \in BOOLEAN, NEW k, k = lapic_set_mask(l, "Timer", masked)
  PROVE  /\ LapicOK(k) /\ k.timer = l.timer /\ k.nmi = l.nmi /\ (Shut(l) => Shut(k))
         /\ k.lvt["Timer"].vector = l.lvt["Timer"].vector
<1>1. "Timer" \in LvtNames
  BY DEF LvtNames
<1>2. l.lvt["Timer"] \in Slot
  BY <1>1 DEF LapicOK
<1>3. PICK e \in Slot : /\ e = IF masked THEN With(l.lvt["Timer"], {16})
                                 ELSE Without(l.lvt["Timer"], {16})
                        /\ e.vector = l.lvt["Timer"].vector
  BY <1>2, SlotBits DEF Bits
<1>4. k = [l EXCEPT !.lvt["Timer"] = e]
  BY <1>3 DEF lapic_set_mask
<1> QED
  BY <1>1, <1>3, <1>4, LvtWrite DEF Shut

LEMMA RouteTimer ==
  ASSUME NEW l, LapicOK(l), NEW vector \in Nat, NEW t, NEW p,
         NEW k, k = lapic_set_route(l, "Timer", vector, t, p)
  PROVE  /\ LapicOK(k) /\ k.timer = l.timer /\ k.nmi = l.nmi /\ (Shut(l) => Shut(k))
         /\ k.lvt["Timer"].vector = vector
<1>1. "Timer" \in LvtNames
  BY DEF LvtNames
<1>2. l.lvt["Timer"] \in Slot
  BY <1>1 DEF LapicOK
<1>3. PICK o : o = [l.lvt["Timer"] EXCEPT !.vector = vector]
  OBVIOUS
<1>30. o \in Slot /\ o.vector = vector
  BY <1>2, <1>3 DEF Slot
<1>31. PICK B \in SUBSET Bits : B = lapic_flags(t, p)
  BY FlagBits
<1>4. PICK e \in Slot : e = With(o, lapic_flags(t, p)) /\ e.vector = vector
  BY <1>30, <1>31, SlotBits
<1>5. k = [l EXCEPT !.lvt["Timer"] = e]
  BY <1>3, <1>4 DEF lapic_set_route
<1> QED
  BY <1>1, <1>4, <1>5, LvtWrite DEF Shut

LEMMA SetTimer ==
  ASSUME NEW l, LapicOK(l), NEW msec, NEW repeat \in BOOLEAN,
         NEW k, k = lapic_set_timer(l, msec, repeat)
  PROVE  /\ LapicOK(k) /\ k.nmi = l.nmi /\ (Shut(l) => Shut(k))
         /\ k.lvt["Timer"].vector = l.lvt["Timer"].vector
<1>1. "Timer" \in LvtNames
  BY DEF LvtNames
<1>2. l.lvt["Timer"] \in Slot
  BY <1>1 DEF LapicOK
<1>3. PICK o \in Slot : /\ o = Without(l.lvt["Timer"], {16, 17})
                        /\ o.vector = l.lvt["Timer"].vector
  BY <1>2, SlotBits DEF Bits
<1>4. PICK e \in Slot : e = With(o, IF repeat THEN {17} ELSE {}) /\ e.vector = o.vector
  BY <1>3, SlotBits DEF Bits
<1>5. PICK d : d = [l EXCEPT !.lvt["Timer"] = e]
  OBVIOUS
<1>6. PICK mode : mode = IF msec \div 1000 = 0 THEN "stopped" ELSE IF repeat THEN "again" ELSE "once"
  OBVIOUS
<1>7. k = [l EXCEPT !.lvt["Timer"] = e, !.timer = mode]
  BY <1>3, <1>4, <1>6 DEF lapic_set_timer
<1>8. k = [d EXCEPT !.timer = mode]
  BY <1>5, <1>7
<1>9. /\ LapicOK(d) /\ d.lvt["Timer"] = e /\ d.nmi = l.nmi
      /\ \A n \in LvtNames : n # "Timer" => d.lvt[n] = l.lvt[n]
  BY <1>1, <1>5 DEF LapicOK, LapicFields
<1>10. LapicOK(k) /\ k.lvt = d.lvt /\ k.nmi = d.nmi
  BY <1>8, <1>9 DEF LapicOK, LapicFields
<1> QED
  BY <1>3, <1>4, <1>9, <1>10 DEF Shut

LEMMA StopTimer ==
  ASSUME NEW l, LapicOK(l), NEW mode, NEW k, k = [l EXCEPT !.timer = mode]
  PROVE  LapicOK(k) /\ k.lvt = l.lvt /\ k.nmi = l.nmi /\ k.timer = mode
BY DEF LapicOK, LapicFields

-----------------------------------------------------------------------------
(* The steps, as far as the controllers are concerned *)

Dead == {"panic", "fault"}
BeforeRuns == {"start", "parse", "first_run"}
Parsing == BeforeRuns \cup {"second_run", "third_run"}

\* Where interrupts are off.
Off == Parsing \cup {"lapic", "enable", "pit", "route"} \cup Dead

OffInv == on => pc \notin Off

\* A step that leaves the controllers alone, and where it may lead.
Calm ==
  /\ plat' = plat
  /\ \/ pc' = pc /\ (on' => on)
     \/ pc' \in Dead /\ (on' => on /\ pc \in Off)
     \/ pc = "start" /\ pc' = "parse" /\ on' = on
     \/ pc = "pit" /\ pc' \in {"route", "sti"} /\ on' = on
     \/ pc \notin Off /\ pc' \notin Off

LEMMA PlatSteps ==
  ASSUME [Next]_vars
  PROVE  /\ mach' = mach
         /\ \/ parse \/ parse_entry \/ parse_next \/ lapic_init \/ lapic_on \/ pit_route
            \/ calibrated \/ lapic_tick
            \/ \E d \in Drivers, v \in Vectors : driver_route(d, v)
            \/ \E v \in Vectors : kernel_lapic_timer(v)
            \/ Calm
<1>1. CASE UNCHANGED vars
  BY <1>1 DEF vars, bvars, Calm
<1>2. CASE cpu
  <2>1. CASE parse \/ parse_entry \/ parse_next \/ lapic_init \/ lapic_on \/ pit_route \/ calibrated
    BY <2>1 DEF parse, parse_entry, parse_next, lapic_init, lapic_on, pit_route, calibrated
  <2>2. CASE start_idt \/ edit_step
    BY <2>2 DEF start_idt, edit_step, bvars, Go, Calm
  <2>3. CASE lapic_fails \/ pit_refused \/ pit_init
    BY <2>3 DEF lapic_fails, pit_refused, pit_init, Go, Calm, Off, Dead
  <2>4. CASE warm_up
    BY <2>4 DEF warm_up, set_handlers, set_mode, set_count, walk, Go, Calm, Off, Parsing,
                BeforeRuns, Dead
  <2>5. CASE flags
    BY <2>5 DEF flags, set_flag, Go, Calm, Off, Parsing, BeforeRuns, Dead
  <2>6. CASE calibrate
    BY <2>6 DEF calibrate, set_handlers, set_mode, set_count, walk, Go, Calm, Off, Parsing,
                BeforeRuns, Dead
  <2> QED
    BY <1>2, <2>1, <2>2, <2>3, <2>4, <2>5, <2>6 DEF cpu
<1>3. CASE kernel
  <2>1. ASSUME NEW d \in Drivers, driver_register(d) PROVE mach' = mach /\ Calm
    BY <2>1 DEF driver_register, Calm
  <2>2. ASSUME NEW d \in Drivers, NEW v \in Vectors, driver_route(d, v) PROVE mach' = mach
    BY <2>2 DEF driver_route
  <2>3. ASSUME NEW v \in Vectors, driver_release(v) PROVE mach' = mach /\ Calm
    BY <2>3 DEF driver_release, Calm
  <2>4. ASSUME NEW v \in Vectors, driver_release_wild(v) PROVE mach' = mach /\ Calm
    BY <2>4 DEF driver_release_wild, Call, Calm, Off, Parsing, BeforeRuns, Dead
  <2>5. ASSUME NEW d \in Drivers, NEW v \in Vectors, kernel_system_handler(v, d)
        PROVE  mach' = mach /\ Calm
    BY <2>5 DEF kernel_system_handler, Calm
  <2>6. ASSUME kernel_timer PROVE mach' = mach /\ Calm
    BY <2>6 DEF kernel_timer, set_handlers, set_mode, set_count, Go, Calm, Off, Parsing,
                BeforeRuns, Dead
  <2>7. ASSUME NEW target, NEW mode, kernel_ipi(target, mode) PROVE mach' = mach /\ Calm
    BY <2>7 DEF kernel_ipi, Calm
  <2>8. ASSUME NEW v \in Vectors, kernel_lapic_timer(v) PROVE mach' = mach
    BY <2>8 DEF kernel_lapic_timer
  <2> QED
    BY <1>3, <2>1, <2>2, <2>3, <2>4, <2>5, <2>6, <2>7, <2>8 DEF kernel
<1>4. CASE pit_tick \/ \E g \in Lines : device_edge(g)
  BY <1>4 DEF pit_tick, device_edge, Calm
<1>5. CASE lapic_tick
  BY <1>5 DEF lapic_tick
<1>6. ASSUME NEW v \in Vectors, deliver(v) PROVE mach' = mach /\ Calm
  <2>1. mach' = mach /\ plat' = plat /\ (pc' = Resume \/ pc' = "fault") /\ on' = (on /\ pc' # "fault")
    BY <1>6 DEF deliver
  <2>2. CASE pc' = Resume
    BY <2>1, <2>2 DEF Resume, Calm, Off, Parsing, BeforeRuns, Dead
  <2>3. CASE pc' = "fault"
    BY <2>1, <2>3 DEF Calm, Dead
  <2> QED
    BY <2>1, <2>2, <2>3
<1> QED
  BY <1>1, <1>2, <1>3, <1>4, <1>5, <1>6 DEF Next

-----------------------------------------------------------------------------
(* The vectors that were given away stay so, whoever holds them *)

HeldGiven == \A v \in Vectors : Held(v) => gate[v].to = "stub"

LEMMA GivenStays ==
  ASSUME IdtInv, HeldGiven, IdtStep
  PROVE  HeldGiven' /\ \A v : Given(v) => Given(v)'
<1>1. /\ gate \in [Vectors -> [present : BOOLEAN, to : {"none", "system", "stub"}, nr : Nat]]
      /\ owner \in [Vectors -> Who]
  BY DEF IdtInv, IdtTypes
<1>2. ASSUME UNCHANGED <<gate, owner>> PROVE HeldGiven' /\ \A v : Given(v) => Given(v)'
  BY <1>2 DEF HeldGiven, Held, Given
<1>3. CASE set_gate
  <2>1. PICK V : V = VectorOf(edit.at)
    OBVIOUS
  <2>2. PICK g : g = [present |-> TRUE, to |-> "stub", nr |-> edit.at]
    OBVIOUS
  <2>3. gate' = [gate EXCEPT ![V] = g] /\ owner' = [owner EXCEPT ![V] = edit.who]
    BY <1>3, <2>1, <2>2 DEF set_gate
  <2>4. g.to = "stub"
    BY <2>2
  <2>5. \A v \in Vectors : /\ gate'[v] = IF v = V THEN g ELSE gate[v]
                           /\ v # V => owner'[v] = owner[v]
    BY <1>1, <2>3
  <2> QED
    BY <2>4, <2>5 DEF HeldGiven, Held, Given
<1>4. ASSUME NEW w, gate' = [gate EXCEPT ![w] = [@ EXCEPT !.present = FALSE]], owner' = owner
      PROVE  HeldGiven' /\ \A v : Given(v) => Given(v)'
  <2>1. \A v \in Vectors : gate'[v].to = gate[v].to
    BY <1>1, <1>4
  <2> QED
    BY <1>4, <2>1 DEF HeldGiven, Held, Given
<1>5. CASE clear_gate \/ drop_gate
  BY <1>4, <1>5 DEF clear_gate, drop_gate
<1>6. ASSUME NEW v \in Vectors, release_irq_handler(v)
      PROVE  HeldGiven' /\ \A w : Given(w) => Given(w)'
  <2>1. gate' = gate /\ owner' = [owner EXCEPT ![v] = "none"]
    BY <1>6 DEF release_irq_handler
  <2>2. \A w \in Vectors : owner'[w] = owner[w] \/ owner'[w] = "none"
    BY <1>1, <2>1
  <2> QED
    BY <2>1, <2>2 DEF HeldGiven, Held, Given
<1> QED
  BY <1>2, <1>3, <1>5, <1>6 DEF IdtStep, EditStep, register_system_handler, register_irq_handler,
     patch_context, set_pointer, clear_pointer, ivars

-----------------------------------------------------------------------------
(* The descriptor table up to the end of init: two vectors are given away *)

\* Where the processor is before the end of init.
Warming  == {"warm", "warm_mode", "warm_load", "warm_hlt", "warm_wait", "warm_end"}
Measuring == {"cal", "cal_mode", "cal_load", "cal_check", "cal_hlt", "cal_wait"}
Starting == Parsing \cup {"lapic", "enable", "pit", "route", "sti"} \cup Warming \cup Measuring

\* Where the processor is from the end of init on.
Running == {"done", "one_mode", "one_load", "per_mode", "per_load"}

LEMMA KernelSteps ==
  ASSUME kernel
  PROVE  pc \in Running /\ pc' \in Running \cup {"corrupt"} /\ UNCHANGED <<mach, irr, cal>>
<1>1. CASE \/ \E d \in Drivers : driver_register(d)
           \/ \E d \in Drivers, v \in Vectors : driver_route(d, v)
           \/ \E v \in Vectors : driver_release(v) \/ driver_release_wild(v)
  BY <1>1 DEF driver_register, driver_route, driver_release, driver_release_wild, Call, Running
<1>2. CASE \/ \E d \in Drivers, v \in Vectors : kernel_system_handler(v, d)
           \/ \E v \in Vectors : kernel_lapic_timer(v)
  BY <1>2 DEF kernel_system_handler, kernel_lapic_timer, Call, Running
<1>3. CASE kernel_timer
  BY <1>3 DEF kernel_timer, Call, set_handlers, set_mode, set_count, Go, Running
<1>4. CASE (\E target \in Targets : kernel_ipi(target, "none")) \/ kernel_ipi(0, "all")
  BY <1>4 DEF kernel_ipi, Call, Running
<1> QED
  BY <1>1, <1>2, <1>3, <1>4 DEF kernel

SpuriousVector == VectorOf(0)
TimerVector    == VectorOf(1)

\* What a step of init does to the descriptor table.
StartStep ==
  \/ pc = "start" /\ pc' = "parse" /\ idt_init
  \/ pc = "lapic" /\ pc' = "enable" /\ register_irq_handler("spurious")
  \/ pc = "pit" /\ pc' = "route" /\ register_irq_handler("pit")
  \/ pc' = pc /\ EditStep
  \/ pc' = pc /\ UNCHANGED ivars
  \/ /\ UNCHANGED ivars /\ pc' \notin {"start", "enable", "route"}
     /\ pc \in {"enable", "route"} => edit = Idle
     /\ \/ {pc, pc'} \subseteq Parsing \cup {"lapic"}
        \/ pc = "enable" /\ pc' = "pit"
        \/ pc \notin Parsing \cup {"lapic", "enable"} /\ pc' \notin Parsing \cup {"lapic", "pit"}

LEMMA StartSteps ==
  ASSUME [Next]_vars, pc' \in Starting
  PROVE  pc \in Starting /\ StartStep
<1>1. CASE UNCHANGED vars
  BY <1>1 DEF vars, bvars, StartStep
<1>2. CASE cpu
  <2>1. CASE start_idt
    BY <2>1 DEF start_idt, Go, StartStep, Starting, Parsing, BeforeRuns
  <2>2. CASE parse \/ parse_entry \/ parse_next
    BY <2>2 DEF parse, parse_entry, parse_next, Go, StartStep, Starting, Parsing, BeforeRuns,
                Warming, Measuring
  <2>3. CASE lapic_fails
    BY <2>3 DEF lapic_fails, Go, Starting, Parsing, BeforeRuns, Warming, Measuring
  <2>4. CASE lapic_init \/ lapic_on
    BY <2>4 DEF lapic_init, lapic_on, Go, StartStep, Starting, Parsing, BeforeRuns
  <2>5. CASE pit_init
    BY <2>5 DEF pit_init, Go, StartStep, Starting
  <2>6. CASE pit_refused \/ pit_route
    BY <2>6 DEF pit_refused, pit_route, Go, StartStep, Starting, Parsing, BeforeRuns, Warming,
                Measuring
  <2>7. CASE warm_up \/ flags
    BY <2>7 DEF warm_up, flags, set_handlers, set_mode, set_count, walk, set_flag, Go,
                StartStep, Starting, Parsing, BeforeRuns, Warming, Measuring
  <2>8. CASE calibrate \/ calibrated
    BY <2>8 DEF calibrate, calibrated, set_handlers, set_mode, set_count, walk, Go,
                StartStep, Starting, Parsing, BeforeRuns, Warming, Measuring
  <2>9. CASE edit_step
    BY <2>9 DEF edit_step, bvars, StartStep
  <2> QED
    BY <1>2, <2>1, <2>2, <2>3, <2>4, <2>5, <2>6, <2>7, <2>8, <2>9 DEF cpu
<1>3. CASE kernel
  <2>1. pc' \notin Starting
    BY <1>3, KernelSteps DEF Running, Starting, Parsing, BeforeRuns, Warming, Measuring
  <2> QED
    BY <2>1
<1>4. CASE pit_tick \/ lapic_tick \/ \E g \in Lines : device_edge(g)
  BY <1>4 DEF pit_tick, lapic_tick, device_edge, StartStep
<1>5. ASSUME NEW v \in Vectors, deliver(v) PROVE pc \in Starting /\ StartStep
  <2>1. UNCHANGED ivars /\ (pc' = Resume \/ pc' = "fault")
    BY <1>5 DEF deliver
  <2>2. pc' = Resume
    BY <2>1 DEF Starting, Parsing, BeforeRuns, Warming, Measuring
  <2> QED
    BY <2>1, <2>2 DEF Resume, StartStep, Starting, Parsing, BeforeRuns, Warming, Measuring
<1> QED
  BY <1>1, <1>2, <1>3, <1>4, <1>5 DEF Next

\* Whom a registrant's name stands for: in the table of handlers and in owner.
TwoNames(f) ==
  \A v \in Vectors : f[v] \in Registrants => \/ v = SpuriousVector /\ f[v] = "spurious"
                                             \/ v = TimerVector /\ f[v] = "pit"
TwoStubs ==
  /\ \A i \in Stubs : stub[i].nr = Magic \/ (i \in {0, 1} /\ stub[i].nr = VectorOf(i))
  /\ IF pc \in Parsing \cup {"lapic"} THEN \A i \in Stubs : stub[i].nr = Magic
     ELSE stub[0].nr # Magic
  /\ pc \in {"enable", "pit"} => \A i \in Stubs \ {0} : stub[i].nr = Magic
OwnGates ==
  \A v \in Vectors : gate[v].present /\ gate[v].to # "system" =>
                     StubOf(v) \in Stubs /\ gate[v].nr = StubOf(v)
EditFor(who, at) == edit.op \in RegisterOps /\ edit.who = who /\ edit.at = at
TwoEdits ==
  /\ edit # Idle => \/ pc = "enable" /\ EditFor("spurious", 0)
                    \/ pc = "route" /\ EditFor("pit", 1)
  /\ pc = "route" /\ edit = Idle => TimerVector \in Vectors /\ owner[TimerVector] = "pit"

TwoVectors ==
  pc \in Starting => TwoNames(table) /\ TwoNames(owner) /\ TwoStubs /\ OwnGates /\ TwoEdits

\* The stub that a registration during init gets.
LEMMA NextStub ==
  ASSUME TwoStubs, FreeStubs # {},
         NEW k \in {0, 1}, IF k = 0 THEN pc = "lapic" ELSE pc = "pit"
  PROVE  Lowest(FreeStubs) = k /\ k \in Stubs /\ VectorOf(k) \in Vectors
<1>1. FreeStubs \in SUBSET Nat
  BY Places DEF FreeStubs
<1>2. PICK i : i = Lowest(FreeStubs)
  OBVIOUS
<1>3. i \in FreeStubs /\ \A j \in FreeStubs : i <= j
  BY <1>1, <1>2, LowestIn
<1>4. i \in Nat /\ i < Descriptors - Reserved - 1 /\ i \in Stubs /\ stub[i].nr = Magic
  BY <1>1, <1>3 DEF FreeStubs
<1>5. k <= i
  <2>1. k = 1 => stub[0].nr # Magic
    BY DEF TwoStubs, Parsing, BeforeRuns
  <2>2. k = 1 => i # 0
    BY <1>4, <2>1
  <2> QED
    BY <1>4, <2>2
<1>6. k \in Stubs /\ k < Descriptors - Reserved - 1 /\ VectorOf(k) \in Vectors
  <2>1. /\ Reserved \in Nat /\ Descriptors \in Nat
        /\ Stubs = 0 .. Descriptors - Reserved - 1 /\ Vectors = 0 .. Descriptors - 1
    BY Places
  <2>2. VectorOf(k) = Reserved + 1 + k
    BY DEF VectorOf
  <2>3. k < Descriptors - Reserved - 1
    BY <1>4, <1>5, <2>1
  <2> QED
    BY <2>1, <2>2, <2>3
<1>7. stub[k].nr = Magic
  <2>1. CASE k = 0
    BY <1>6, <2>1 DEF TwoStubs
  <2>2. CASE k = 1
    <3>1. pc \in {"enable", "pit"} /\ k \in Stubs \ {0}
      BY <1>6, <2>2
    <3> QED
      BY <3>1 DEF TwoStubs
  <2> QED
    BY <2>1, <2>2
<1>8. k \in FreeStubs
  BY <1>6, <1>7 DEF FreeStubs
<1> QED
  BY <1>2, <1>3, <1>4, <1>5, <1>6, <1>8

LEMMA TwoRegister ==
  ASSUME IdtInv, TwoVectors, pc \in Starting, NEW k \in {0, 1},
         IF k = 0 THEN pc = "lapic" /\ pc' = "enable" ELSE pc = "pit" /\ pc' = "route",
         NEW who, who = (IF k = 0 THEN "spurious" ELSE "pit"), register_irq_handler(who)
  PROVE  TwoVectors'
<1>1. TwoNames(table) /\ TwoNames(owner) /\ TwoStubs /\ OwnGates
  BY DEF TwoVectors
<1>2. FreeStubs # {}
  BY DEF register_irq_handler
<1>3. Lowest(FreeStubs) = k /\ k \in Stubs /\ VectorOf(k) \in Vectors
  BY <1>1, <1>2, NextStub
<1>4. /\ stub' = [stub EXCEPT ![k] = [@ EXCEPT !.nr = VectorOf(k)]]
      /\ edit' = [op |-> "context", who |-> who, at |-> k]
      /\ UNCHANGED <<table, gate, owner>>
  BY <1>3 DEF register_irq_handler
<1>5. stub \in [Stubs -> [nr : Int \cup {Magic}, ctx : Who]]
  BY DEF IdtInv, IdtTypes
<1>6. stub'[k].nr = VectorOf(k) /\ \A i \in Stubs : i # k => stub'[i] = stub[i]
  BY <1>3, <1>4, <1>5
<1>7. VectorOf(k) # Magic
  BY <1>3, Places, IdtAssumption
<1>8. TwoNames(table)' /\ TwoNames(owner)' /\ OwnGates'
  BY <1>1, <1>4 DEF TwoNames, OwnGates
<1>9. TwoStubs'
  <2>1. \A i \in Stubs : stub'[i].nr = Magic \/ (i \in {0, 1} /\ stub'[i].nr = VectorOf(i))
    BY <1>1, <1>6 DEF TwoStubs
  <2>2. CASE k = 0
    <3>1. \A i \in Stubs : stub[i].nr = Magic
      BY <1>1, <2>2 DEF TwoStubs
    <3>2. pc' = "enable" /\ stub'[0].nr # Magic
      BY <1>6, <1>7, <2>2
    <3> QED
      BY <1>6, <2>1, <2>2, <3>1, <3>2 DEF TwoStubs, Parsing, BeforeRuns
  <2>3. CASE k = 1
    <3>1. stub[0].nr # Magic /\ 0 \in Stubs /\ pc' = "route"
      BY <1>1, <2>3, Places DEF TwoStubs, Parsing, BeforeRuns
    <3>2. stub'[0].nr # Magic
      BY <1>6, <2>3, <3>1
    <3> QED
      BY <2>1, <3>1, <3>2 DEF TwoStubs, Parsing, BeforeRuns
  <2> QED
    BY <2>2, <2>3
<1>10. TwoEdits'
  <2>1. edit'.op \in RegisterOps /\ edit'.who = who /\ edit'.at = k
    BY <1>4 DEF RegisterOps
  <2>2. edit' \in [op : {"context", "pointer", "clear", "gate", "unpoint", "absent"},
                    who : Registrants, at : Nat]
    BY <1>4, BootAssumption
  <2>3. edit' # Idle
    BY <2>2, IdtAssumption
  <2> QED
    BY <2>1, <2>3 DEF TwoEdits, EditFor
<1> QED
  BY <1>8, <1>9, <1>10 DEF TwoVectors

LEMMA TwoEditStep ==
  ASSUME IdtInv, TwoVectors, pc \in Starting, pc' = pc, EditStep
  PROVE  TwoVectors'
<1>1. TwoNames(table) /\ TwoNames(owner) /\ TwoStubs /\ OwnGates /\ TwoEdits
  BY DEF TwoVectors
<1>2. edit # Idle
  BY DEF EditStep, patch_context, set_pointer, clear_gate, set_gate, clear_pointer, drop_gate
<1>3. PICK e : e = edit
  OBVIOUS
<1>4. PICK V : V = VectorOf(e.at)
  OBVIOUS
<1>5. /\ e.op \in RegisterOps
      /\ \/ pc = "enable" /\ e.who = "spurious" /\ e.at = 0
         \/ pc = "route" /\ e.who = "pit" /\ e.at = 1
  BY <1>1, <1>2, <1>3 DEF TwoEdits, EditFor
<1>6. /\ e.at \in Stubs /\ V \in Vectors /\ StubOf(V) = e.at
      /\ stub[e.at].nr = V
  BY <1>2, <1>3, <1>4, <1>5, Places DEF IdtInv, Registering
<1>7. e \in [op : RegisterOps \cup ReleaseOps, who : Who, at : Nat]
  BY <1>2, <1>3 DEF IdtInv, IdtTypes
<1>8. IdtTypes
  BY DEF IdtInv
<1>9. ASSUME NEW o \in RegisterOps, edit' = [e EXCEPT !.op = o], owner' = owner
      PROVE  TwoEdits' /\ TwoNames(owner)'
  <2>1. edit'.op = o /\ edit'.who = e.who /\ edit'.at = e.at
    BY <1>7, <1>9, EditFields
  <2>2. edit' \in [op : {"context", "pointer", "clear", "gate", "unpoint", "absent"},
                    who : Registrants, at : Nat]
    BY <1>5, <1>7, <1>9, BootAssumption DEF RegisterOps
  <2>3. edit' # Idle
    BY <2>2, IdtAssumption
  <2> QED
    BY <1>1, <1>5, <1>9, <2>1, <2>3 DEF TwoEdits, EditFor, TwoNames
<1>10. CASE patch_context
  <2>1. /\ stub' = [stub EXCEPT ![e.at] = [@ EXCEPT !.ctx = e.who]]
        /\ edit' = [e EXCEPT !.op = "pointer"] /\ UNCHANGED <<table, gate, owner>>
    BY <1>3, <1>10 DEF patch_context
  <2>2. \A i \in Stubs : stub'[i].nr = stub[i].nr
    BY <1>8, <2>1 DEF IdtTypes
  <2>3. 0 \in Stubs
    BY Places
  <2>4. TwoStubs'
    BY <1>1, <2>2, <2>3 DEF TwoStubs
  <2>5. TwoNames(table)' /\ OwnGates'
    BY <1>1, <2>1 DEF TwoNames, OwnGates
  <2> QED
    BY <1>9, <2>1, <2>4, <2>5 DEF TwoVectors, RegisterOps
<1>11. CASE set_pointer
  <2>1. /\ table' = [table EXCEPT ![V] = e.who]
        /\ edit' = [e EXCEPT !.op = "clear"] /\ UNCHANGED <<stub, gate, owner>>
    BY <1>3, <1>4, <1>11 DEF set_pointer
  <2>2. \A v \in Vectors : table'[v] = IF v = V THEN e.who ELSE table[v]
    BY <1>8, <2>1 DEF IdtTypes
  <2>3. TwoNames(table)'
    BY <1>1, <1>4, <1>5, <2>2 DEF TwoNames, SpuriousVector, TimerVector
  <2>4. TwoStubs' /\ OwnGates'
    BY <1>1, <2>1 DEF TwoStubs, OwnGates
  <2> QED
    BY <1>9, <2>1, <2>3, <2>4 DEF TwoVectors, RegisterOps
<1>12. CASE clear_gate
  <2>1. /\ gate' = [gate EXCEPT ![V] = [@ EXCEPT !.present = FALSE]]
        /\ edit' = [e EXCEPT !.op = "gate"] /\ UNCHANGED <<stub, table, owner>>
    BY <1>3, <1>4, <1>12 DEF clear_gate
  <2>2. \A v \in Vectors : gate'[v] = gate[v] \/ gate'[v].present = FALSE
    BY <1>8, <2>1 DEF IdtTypes
  <2>3. OwnGates'
    BY <1>1, <2>2 DEF OwnGates
  <2>4. TwoStubs' /\ TwoNames(table)'
    BY <1>1, <2>1 DEF TwoStubs, TwoNames
  <2> QED
    BY <1>9, <2>1, <2>3, <2>4 DEF TwoVectors, RegisterOps
<1>13. CASE set_gate
  <2>1. /\ gate' = [gate EXCEPT ![V] = [present |-> TRUE, to |-> "stub", nr |-> e.at]]
        /\ owner' = [owner EXCEPT ![V] = e.who] /\ edit' = Idle
        /\ UNCHANGED <<stub, table>>
    BY <1>3, <1>4, <1>13 DEF set_gate
  <2>2. \A v \in Vectors : gate'[v] = gate[v] \/ (v = V /\ gate'[v].nr = e.at)
    BY <1>8, <2>1 DEF IdtTypes
  <2>3. OwnGates'
    BY <1>1, <1>6, <2>2 DEF OwnGates
  <2>4. \A v \in Vectors : owner'[v] = IF v = V THEN e.who ELSE owner[v]
    BY <1>8, <2>1 DEF IdtTypes
  <2>5. TwoNames(owner)'
    BY <1>1, <1>4, <1>5, <2>4 DEF TwoNames, SpuriousVector, TimerVector
  <2>6. TwoEdits'
    BY <1>4, <1>5, <1>6, <2>1, <2>4 DEF TwoEdits, TimerVector
  <2>7. TwoStubs' /\ TwoNames(table)'
    BY <1>1, <2>1 DEF TwoStubs, TwoNames
  <2> QED
    BY <2>3, <2>5, <2>6, <2>7 DEF TwoVectors
<1>14. CASE clear_pointer \/ drop_gate
  BY <1>3, <1>5, <1>14 DEF clear_pointer, drop_gate, RegisterOps
<1> QED
  BY <1>10, <1>11, <1>12, <1>13, <1>14 DEF EditStep

LEMMA TwoVectorsStep ==
  ASSUME IdtInv, TwoVectors, [Next]_vars
  PROVE  TwoVectors'
<1> SUFFICES ASSUME pc' \in Starting PROVE TwoVectors'
  BY DEF TwoVectors
<1>1. pc \in Starting /\ StartStep
  BY StartSteps
<1>2. TwoNames(table) /\ TwoNames(owner) /\ TwoStubs /\ OwnGates /\ TwoEdits
  BY <1>1 DEF TwoVectors
<1>3. CASE pc = "start" /\ pc' = "parse" /\ idt_init
  <2>1. UNCHANGED <<stub, edit, owner>>
    BY <1>3 DEF idt_init
  <2>2. \A v \in Vectors : table'[v] \in {"default", "none"}
    BY <1>3 DEF idt_init
  <2>3. TwoNames(table)'
    BY <2>2, BootAssumption DEF TwoNames
  <2>4. OwnGates'
    BY <1>3 DEF idt_init, OwnGates
  <2>5. TwoNames(owner)' /\ TwoStubs' /\ TwoEdits'
    BY <1>2, <1>3, <2>1 DEF TwoNames, TwoStubs, TwoEdits, Parsing, BeforeRuns
  <2> QED
    BY <2>3, <2>4, <2>5 DEF TwoVectors
<1>4. CASE pc = "lapic" /\ pc' = "enable" /\ register_irq_handler("spurious")
  BY <1>1, <1>4, TwoRegister
<1>5. CASE pc = "pit" /\ pc' = "route" /\ register_irq_handler("pit")
  BY <1>1, <1>5, TwoRegister
<1>6. CASE pc' = pc /\ EditStep
  BY <1>1, <1>6, TwoEditStep
<1>7. CASE pc' = pc /\ UNCHANGED ivars
  <2>1. /\ TwoNames(table)' /\ TwoNames(owner)' /\ TwoStubs' /\ OwnGates' /\ TwoEdits'
    BY <1>2, <1>7 DEF ivars, TwoNames, TwoStubs, OwnGates, TwoEdits, EditFor
  <2> QED
    BY <2>1 DEF TwoVectors
<1>8. CASE /\ UNCHANGED ivars /\ pc' \notin {"start", "enable", "route"}
           /\ pc \in {"enable", "route"} => edit = Idle
           /\ \/ {pc, pc'} \subseteq Parsing \cup {"lapic"}
              \/ pc = "enable" /\ pc' = "pit"
              \/ /\ pc \notin Parsing \cup {"lapic", "enable"}
                 /\ pc' \notin Parsing \cup {"lapic", "pit"}
  <2>1. TwoNames(table)' /\ TwoNames(owner)' /\ OwnGates'
    BY <1>2, <1>8 DEF ivars, TwoNames, OwnGates
  <2>2. edit' = Idle /\ stub' = stub
    BY <1>2, <1>8 DEF TwoEdits, ivars
  <2>3. TwoEdits'
    BY <1>8, <2>2 DEF TwoEdits
  <2>4. TwoStubs'
    BY <1>2, <1>8, <2>2 DEF TwoStubs, Parsing, BeforeRuns
  <2> QED
    BY <2>1, <2>3, <2>4 DEF TwoVectors
<1> QED
  BY <1>1, <1>3, <1>4, <1>5, <1>6, <1>7, <1>8 DEF StartStep

\* So an interrupt that comes before the end of init finds one of two handlers.
LEMMA TwoHandlers ==
  ASSUME IdtInv, TwoVectors, pc \in Starting, NEW v \in Vectors, Dispatch(v).fn \in Registrants
  PROVE  \/ v = SpuriousVector /\ Dispatch(v).fn = "spurious"
         \/ v = TimerVector /\ Dispatch(v).fn = "pit"
<1>1. TwoNames(table) /\ TwoStubs /\ OwnGates
  BY DEF TwoVectors
<1>2. gate[v].present
  BY BootAssumption DEF Dispatch
<1>3. Dispatch(v).fn = table[v]
  <2>1. CASE gate[v].to = "system"
    BY <1>2, <2>1 DEF Dispatch, IdtInv, OwnStubs
  <2>2. CASE gate[v].to # "system"
    <3>1. StubOf(v) \in Stubs /\ gate[v].nr = StubOf(v)
      BY <1>1, <1>2, <2>2 DEF OwnGates
    <3>2. Dispatch(v).fn = IF stub[StubOf(v)].nr = Magic THEN "wild" ELSE table[stub[StubOf(v)].nr]
      BY <1>2, <2>2, <3>1 DEF Dispatch
    <3>3. stub[StubOf(v)].nr # Magic
      BY <3>2, BootAssumption
    <3>4. stub[StubOf(v)].nr = VectorOf(StubOf(v))
      BY <1>1, <3>1, <3>3 DEF TwoStubs
    <3>5. VectorOf(StubOf(v)) = v
      BY Places
    <3> QED
      BY <3>2, <3>3, <3>4, <3>5
  <2> QED
    BY <2>1, <2>2
<1> QED
  BY <1>1, <1>3 DEF TwoNames

-----------------------------------------------------------------------------
(* The platform that parse_madt builds *)

Granted == "IOAPIC" \in mach.regions

PlatFields == {"irqs", "lapics", "lapic_base", "ioapics", "pic", "at"}
Irq == [target : Byte, trigger : Modes, polarity : Levels]

PlatOK ==
  /\ mach \in Machines
  /\ DOMAIN plat = PlatFields /\ plat.at \in Nat \ {0} /\ plat.irqs \in [Sources -> Irq]
  /\ DOMAIN plat.ioapics = Entries(mach.madt, "ioapic")
  /\ \A i \in DOMAIN plat.ioapics : plat.ioapics[i] \in Ioapic(DOMAIN mach.madt[i].pins)
  /\ pc \notin {"start", "parse"} \cup Dead => mach.madt # NoTable
  /\ pc \notin BeforeRuns \cup Dead =>
       /\ Entries(mach.madt, "lapic") # {} /\ Entries(mach.madt, "ioapic") # {}
       /\ DOMAIN plat.lapics = 0 .. core_count(mach.madt) - 1
       /\ \A c \in DOMAIN plat.lapics : plat.lapics[c] = NoLapic \/ LapicOK(plat.lapics[c])
  /\ pc \notin Parsing \cup {"lapic"} \cup Dead => LapicOK(plat.lapics[0])

LEMMA Serving ==
  ASSUME NEW ioapics, DOMAIN ioapics \in SUBSET (Nat \ {0}), NEW g
  PROVE  \/ FirstServing(ioapics, g) = 0
         \/ /\ FirstServing(ioapics, g) \in DOMAIN ioapics
            /\ Serves(ioapics[FirstServing(ioapics, g)], g)
<1>1. PICK I : I = {i \in DOMAIN ioapics : Serves(ioapics[i], g)}
  OBVIOUS
<1>2. CASE I = {}
  BY <1>1, <1>2 DEF FirstServing
<1>3. CASE I # {}
  <2>1. I \in SUBSET Nat
    BY <1>1
  <2>2. Min(I) \in I
    BY <1>3, <2>1, MinIn
  <2>3. FirstServing(ioapics, g) = Min(I)
    BY <1>1, <1>3 DEF FirstServing
  <2> QED
    BY <1>1, <2>2, <2>3
<1> QED
  BY <1>2, <1>3

\* What a run does with the entry it is at.
First(e) ==
  /\ plat'.irqs = IF e.type = "override" THEN Override(plat.irqs, e) ELSE plat.irqs
  /\ plat'.lapics = plat.lapics /\ plat'.ioapics = plat.ioapics

Second(e) ==
  /\ plat'.irqs = plat.irqs
  /\ e.type = "lapic" => Instance(mach.madt, e.processor)
  /\ plat'.lapics = IF e.type = "lapic"
                    THEN [plat.lapics EXCEPT ![e.processor - core_base(mach.madt)] =
                            new_lapic(e.apic, plat.lapic_base, FirmwareLvt)]
                    ELSE plat.lapics
  /\ plat'.ioapics = IF e.type = "ioapic"
                     THEN [plat.ioapics EXCEPT ![plat.at] =
                             ioapic_init(plat.ioapics[plat.at], e.base % 256, Granted)]
                     ELSE plat.ioapics

\* The IO APIC to which core::set_nmi passes an entry.
NmiAt(e) == IF e.global \in Sources THEN FirstServing(plat.ioapics, plat.irqs[e.global].target) ELSE 0

Third(e) ==
  /\ plat'.lapics = IF e.type = "lapicnmi" THEN SetLocalNmi(mach.madt, plat, e).lapics
                    ELSE plat.lapics
  /\ IF e.type = "nmi" /\ NmiAt(e) # 0
     THEN /\ plat'.irqs = [plat.irqs EXCEPT ![e.global] = [@ EXCEPT !.trigger = e.trigger,
                                                                    !.polarity = e.polarity]]
          /\ plat'.ioapics = [plat.ioapics EXCEPT ![NmiAt(e)] =
                                ioapic_set_nmi(plat.ioapics[NmiAt(e)], plat.irqs[e.global].target,
                                               e.trigger, e.polarity)]
     ELSE plat'.irqs = plat.irqs /\ plat'.ioapics = plat.ioapics
  /\ ~third_run_faults(mach.madt, Granted, plat, e)

LEMMA ParseEntry ==
  ASSUME PlatOK, parse_entry, NEW e, e = mach.madt[plat.at]
  PROVE  /\ mach.madt # NoTable /\ plat.at \in DOMAIN mach.madt /\ EntryOK(e)
         /\ mach' = mach /\ on' = on
         /\ \/ pc' = "fault" /\ plat' = plat
            \/ /\ pc' = pc /\ DOMAIN plat' = PlatFields /\ plat'.at = plat.at + 1
               /\ \/ pc = "first_run" /\ First(e)
                  \/ pc = "second_run" /\ Second(e)
                  \/ pc = "third_run" /\ Third(e)
<1>1. /\ pc \in {"first_run", "second_run", "third_run"} /\ plat.at \in DOMAIN mach.madt
      /\ mach' = mach /\ on' = on /\ pc' \in {"fault", pc}
  BY DEF parse_entry
<1>2. mach.madt # NoTable /\ EntryOK(e)
  BY <1>1, TableFacts DEF PlatOK, Dead
<1>3. CASE pc' = "fault"
  <2>1. plat' = plat
    BY <1>3 DEF parse_entry
  <2> QED
    BY <1>1, <1>2, <1>3, <2>1
<1>4. CASE pc' # "fault"
  <2>1. pc' = pc
    BY <1>1, <1>4
  <2>2. PICK q : q = CASE pc = "first_run"  -> first_run(plat, e)
                       [] pc = "second_run" ->
                            second_run(mach.madt, FirmwareLvt, Granted, plat, plat.at)
                       [] pc = "third_run"  -> third_run(mach.madt, plat, e)
    OBVIOUS
  <2>3. plat' = [q EXCEPT !.at = @ + 1]
    BY <1>4, <2>2 DEF parse_entry, Granted
  <2>4. ASSUME DOMAIN q = PlatFields, q.at = plat.at
        PROVE  /\ DOMAIN plat' = PlatFields /\ plat'.at = plat.at + 1
               /\ plat'.irqs = q.irqs /\ plat'.lapics = q.lapics /\ plat'.ioapics = q.ioapics
    BY <2>3, <2>4 DEF PlatFields
  <2>5. DOMAIN plat = PlatFields
    BY DEF PlatOK
  <2>6. CASE pc = "first_run"
    <3>1. q = first_run(plat, e)
      BY <2>2, <2>6
    <3>2. /\ DOMAIN q = PlatFields /\ q.at = plat.at
          /\ q.irqs = IF e.type = "override" THEN Override(plat.irqs, e) ELSE plat.irqs
          /\ q.lapics = plat.lapics /\ q.ioapics = plat.ioapics
      BY <2>5, <3>1 DEF first_run, PlatFields
    <3>3. First(e)
      BY <2>4, <3>2 DEF First
    <3> QED
      BY <1>1, <1>2, <2>1, <2>4, <2>6, <3>2, <3>3
  <2>7. CASE pc = "second_run"
    <3>1. q = second_run(mach.madt, FirmwareLvt, Granted, plat, plat.at)
      BY <2>2, <2>7
    <3>2. ~second_run_faults(mach.madt, e)
      BY <1>4, <2>7 DEF parse_entry
    <3>3. /\ DOMAIN q = PlatFields /\ q.at = plat.at /\ q.irqs = plat.irqs
          /\ q.lapics = IF e.type = "lapic"
                        THEN [plat.lapics EXCEPT ![e.processor - core_base(mach.madt)] =
                                new_lapic(e.apic, plat.lapic_base, FirmwareLvt)]
                        ELSE plat.lapics
          /\ q.ioapics = IF e.type = "ioapic"
                         THEN [plat.ioapics EXCEPT ![plat.at] =
                                 ioapic_init(plat.ioapics[plat.at], e.base % 256, Granted)]
                         ELSE plat.ioapics
      BY <2>5, <3>1 DEF second_run, PlatFields
    <3>4. Second(e)
      BY <2>4, <3>2, <3>3 DEF Second, second_run_faults
    <3> QED
      BY <1>1, <1>2, <2>1, <2>4, <2>7, <3>3, <3>4
  <2>8. CASE pc = "third_run"
    <3>1. q = third_run(mach.madt, plat, e)
      BY <2>2, <2>8
    <3>2. ~third_run_faults(mach.madt, Granted, plat, e)
      BY <1>4, <2>8 DEF parse_entry, Granted
    <3>3. CASE e.type = "lapicnmi"
      <4>1. q = SetLocalNmi(mach.madt, plat, e)
        BY <3>1, <3>3 DEF third_run
      <4>2. /\ DOMAIN q = PlatFields /\ q.at = plat.at /\ q.irqs = plat.irqs
            /\ q.ioapics = plat.ioapics
        BY <2>5, <4>1 DEF SetLocalNmi, PlatFields
      <4>3. Third(e)
        BY <2>4, <3>2, <3>3, <4>1, <4>2 DEF Third
      <4> QED
        BY <1>1, <1>2, <2>1, <2>4, <2>8, <4>2, <4>3
    <3>4. CASE e.type = "nmi"
      <4>1. q = set_nmi(plat, e)
        BY <3>1, <3>4 DEF third_run
      <4>2. CASE NmiAt(e) = 0
        <5>1. q = plat
          BY <4>1, <4>2 DEF set_nmi, NmiAt
        <5>2. Third(e)
          BY <2>4, <2>5, <3>2, <3>4, <4>2, <5>1 DEF Third
        <5> QED
          BY <1>1, <1>2, <2>1, <2>4, <2>5, <2>8, <5>1, <5>2
      <4>3. CASE NmiAt(e) # 0
        <5>1. PICK i : i = NmiAt(e)
          OBVIOUS
        <5>2. PICK a : a = ioapic_set_nmi(plat.ioapics[i], plat.irqs[e.global].target,
                                          e.trigger, e.polarity)
          OBVIOUS
        <5>3. q = [plat EXCEPT !.irqs[e.global] = [@ EXCEPT !.trigger = e.trigger,
                                                           !.polarity = e.polarity],
                               !.ioapics[i] = a]
          BY <4>1, <4>3, <5>1, <5>2 DEF set_nmi, NmiAt
        <5>4. /\ DOMAIN q = PlatFields /\ q.at = plat.at /\ q.lapics = plat.lapics
              /\ q.irqs = [plat.irqs EXCEPT ![e.global] = [@ EXCEPT !.trigger = e.trigger,
                                                                    !.polarity = e.polarity]]
              /\ q.ioapics = [plat.ioapics EXCEPT ![i] = a]
          BY <2>5, <5>3 DEF PlatFields
        <5>5. Third(e)
          BY <2>4, <3>2, <3>4, <4>3, <5>1, <5>2, <5>4 DEF Third
        <5> QED
          BY <1>1, <1>2, <2>1, <2>4, <2>8, <5>4, <5>5
      <4> QED
        BY <4>2, <4>3
    <3>5. CASE e.type \notin {"nmi", "lapicnmi"}
      <4>1. q = plat
        BY <3>1, <3>5 DEF third_run
      <4>2. Third(e)
        BY <2>4, <2>5, <3>2, <3>5, <4>1 DEF Third
      <4> QED
        BY <1>1, <1>2, <2>1, <2>4, <2>5, <2>8, <4>1, <4>2
    <3> QED
      BY <3>3, <3>4, <3>5
  <2> QED
    BY <1>1, <2>6, <2>7, <2>8
<1> QED
  BY <1>3, <1>4

\* The pins of an entry of the table.
LEMMA PinsOf ==
  ASSUME NEW m \in Machines, NEW i \in Entries(m.madt, "ioapic")
  PROVE  /\ i \in Nat \ {0} /\ m.madt[i].base \in Nat
         /\ \E n \in Nat \ {0} : DOMAIN m.madt[i].pins = 0 .. n - 1
         /\ m.madt[i].pins \in [DOMAIN m.madt[i].pins -> Slot]
<1>1. i \in Nat \ {0} /\ EntryOK(m.madt[i]) /\ m.madt[i].type = "ioapic"
  BY EntriesIn
<1>2. PICK e : e = m.madt[i]
  OBVIOUS
<1>3. EntryOK(e) /\ e.type = "ioapic"
  BY <1>1, <1>2
<1>4. e.base \in Nat /\ \E n \in 1 .. 256 : e.pins \in [0 .. n - 1 -> Entry]
  BY <1>3, EntryFields
<1>5. PICK n \in 1 .. 256 : e.pins \in [0 .. n - 1 -> Entry]
  BY <1>4
<1>6. n \in Nat \ {0} /\ DOMAIN e.pins = 0 .. n - 1 /\ e.pins \in [0 .. n - 1 -> Slot]
  BY <1>5, EntryIsSlot
<1>7. DOMAIN e.pins = 0 .. n - 1 /\ e.pins \in [DOMAIN e.pins -> Slot]
  BY <1>6
<1>8. \E k \in Nat \ {0} : DOMAIN e.pins = 0 .. k - 1
  BY <1>6
<1> QED
  BY <1>1, <1>2, <1>4, <1>7, <1>8

\* The IO APICs in the second run: the entry's is set up, the others stay.
LEMMA SecondIoapics ==
  ASSUME PlatOK, NEW e, e = mach.madt[plat.at], plat.at \in DOMAIN mach.madt, mach.madt # NoTable,
         Second(e)
  PROVE  /\ DOMAIN plat'.ioapics = DOMAIN plat.ioapics
         /\ \A i \in DOMAIN plat.ioapics :
              /\ plat'.ioapics[i] \in Ioapic(DOMAIN mach.madt[i].pins)
              /\ i # plat.at => plat'.ioapics[i] = plat.ioapics[i]
              /\ i = plat.at =>
                   plat'.ioapics[i] = ioapic_init(plat.ioapics[i], mach.madt[i].base % 256, Granted)
<1>1. CASE e.type = "ioapic"
  <2>1. plat.at \in Entries(mach.madt, "ioapic") /\ plat.at \in DOMAIN plat.ioapics
    BY <1>1 DEF Entries, PlatOK
  <2>2. PICK j : j = plat.at
    OBVIOUS
  <2>3. PICK b : b = ioapic_init(plat.ioapics[j], mach.madt[j].base % 256, Granted)
    OBVIOUS
  <2>4. plat'.ioapics = [plat.ioapics EXCEPT ![j] = b]
    BY <1>1, <2>2, <2>3 DEF Second
  <2>5. b \in Ioapic(DOMAIN mach.madt[j].pins)
    <3>1. mach \in Machines /\ j \in Entries(mach.madt, "ioapic")
      BY <2>1, <2>2 DEF PlatOK
    <3>2. mach.madt[j].base \in Nat /\ \E n \in Nat \ {0} : DOMAIN mach.madt[j].pins = 0 .. n - 1
      BY <3>1, PinsOf
    <3>3. PICK n \in Nat \ {0} : DOMAIN mach.madt[j].pins = 0 .. n - 1
      BY <3>2
    <3>4. plat.ioapics[j] \in Ioapic(0 .. n - 1)
      BY <2>1, <2>2, <3>3 DEF PlatOK
    <3>5. mach.madt[j].base % 256 \in Nat /\ Granted \in BOOLEAN
      BY <3>2 DEF Granted
    <3>6. PICK a \in Ioapic(0 .. n - 1), w \in Nat, G \in BOOLEAN :
            a = plat.ioapics[j] /\ w = mach.madt[j].base % 256 /\ G = Granted
      BY <3>4, <3>5
    <3>7. b = ioapic_init(a, w, G)
      BY <2>3, <3>6
    <3>8. b \in Ioapic(0 .. n - 1)
      BY <3>7, InitIoapic
    <3> QED
      BY <3>3, <3>8
  <2>6. /\ DOMAIN plat'.ioapics = DOMAIN plat.ioapics /\ plat'.ioapics[j] = b
        /\ \A i \in DOMAIN plat.ioapics : i # j => plat'.ioapics[i] = plat.ioapics[i]
    BY <2>1, <2>2, <2>4
  <2>7. \A i \in DOMAIN plat.ioapics : plat.ioapics[i] \in Ioapic(DOMAIN mach.madt[i].pins)
    BY DEF PlatOK
  <2> QED
    BY <2>2, <2>3, <2>5, <2>6, <2>7
<1>2. CASE e.type # "ioapic"
  <2>1. plat'.ioapics = plat.ioapics
    BY <1>2 DEF Second
  <2>2. plat.at \notin DOMAIN plat.ioapics
    BY <1>2 DEF PlatOK, Entries
  <2> QED
    BY <2>1, <2>2 DEF PlatOK
<1> QED
  BY <1>1, <1>2

LEMMA SecondLapics ==
  ASSUME PlatOK, pc = "second_run", NEW e, EntryOK(e), Second(e), 
         NEW k, k = new_lapic(e.apic, plat.lapic_base, FirmwareLvt)
  PROVE  /\ DOMAIN plat'.lapics = DOMAIN plat.lapics
         /\ LapicOK(k) /\ k.nmi = 255 /\ ~k.init_done /\ k.timer = "stopped"
         /\ \A c \in DOMAIN plat.lapics : plat'.lapics[c] \in {plat.lapics[c], k}
<1>1. LapicOK(k) /\ k.nmi = 255 /\ ~k.init_done /\ k.timer = "stopped"
  BY NewLapic
<1>2. CASE e.type = "lapic"
  <2>1. PICK c : c = e.processor - core_base(mach.madt)
    OBVIOUS
  <2>2. plat'.lapics = [plat.lapics EXCEPT ![c] = k]
    BY <1>2, <2>1 DEF Second
  <2> QED
    BY <1>1, <2>2
<1>3. CASE e.type # "lapic"
  BY <1>1, <1>3 DEF Second
<1> QED
  BY <1>2, <1>3

\* The IO APICs in the third run: no pin's vector or mask changes.
Kept(i) ==
  /\ plat'.ioapics[i] \in Ioapic(DOMAIN mach.madt[i].pins)
  /\ plat'.ioapics[i].base = plat.ioapics[i].base /\ plat'.ioapics[i].size = plat.ioapics[i].size
  /\ \A r \in DOMAIN mach.madt[i].pins :
       /\ plat'.ioapics[i].pins[r].vector = plat.ioapics[i].pins[r].vector
       /\ Masked(plat'.ioapics[i].pins[r]) <=> Masked(plat.ioapics[i].pins[r])
       /\ NMI \subseteq plat.ioapics[i].pins[r].bits => NMI \subseteq plat'.ioapics[i].pins[r].bits

LEMMA ThirdIoapics ==
  ASSUME PlatOK, NEW e, EntryOK(e), Third(e)
  PROVE  /\ DOMAIN plat'.ioapics = DOMAIN plat.ioapics
         /\ \A i \in DOMAIN plat.ioapics : Kept(i)
         /\ plat'.irqs \in [Sources -> Irq]
         /\ \A s \in Sources : plat'.irqs[s].target = plat.irqs[s].target
         /\ e.type = "nmi" /\ NmiAt(e) # 0 =>
              /\ NmiAt(e) \in DOMAIN plat.ioapics
              /\ plat.irqs[e.global].target \in DOMAIN mach.madt[NmiAt(e)].pins =>
                   NMI \subseteq plat'.ioapics[NmiAt(e)].pins[plat.irqs[e.global].target].bits
<1>1. \A i \in DOMAIN plat.ioapics : plat.ioapics[i] \in Ioapic(DOMAIN mach.madt[i].pins)
  BY DEF PlatOK
<1>2. plat.irqs \in [Sources -> Irq]
  BY DEF PlatOK
<1>3. CASE ~(e.type = "nmi" /\ NmiAt(e) # 0)
  <2>1. plat'.irqs = plat.irqs /\ plat'.ioapics = plat.ioapics
    BY <1>3 DEF Third
  <2> QED
    BY <1>1, <1>2, <1>3, <2>1 DEF Kept
<1>4. CASE e.type = "nmi" /\ NmiAt(e) # 0
  <2>1. PICK i : i = NmiAt(e)
    OBVIOUS
  <2>2. PICK g : g = plat.irqs[e.global].target
    OBVIOUS
  <2>3. e.global \in Sources /\ i = FirstServing(plat.ioapics, g)
    BY <1>4, <2>1, <2>2 DEF NmiAt
  <2>4. DOMAIN plat.ioapics \in SUBSET (Nat \ {0})
    BY EntriesIn DEF PlatOK
  <2>5. i \in DOMAIN plat.ioapics /\ Serves(plat.ioapics[i], g)
    BY <1>4, <2>1, <2>3, <2>4, Serving
  <2>6. PICK D : D = DOMAIN mach.madt[i].pins
    OBVIOUS
  <2>7. PICK a \in Ioapic(D) : a = plat.ioapics[i]
    BY <1>1, <2>5, <2>6
  <2>8. PICK b : b = ioapic_set_nmi(a, g, e.trigger, e.polarity)
    OBVIOUS
  <2>9. /\ b \in Ioapic(D) /\ b.base = a.base /\ b.size = a.size
        /\ \A r \in D :
             /\ b.pins[r].vector = a.pins[r].vector
             /\ Masked(b.pins[r]) <=> Masked(a.pins[r])
             /\ NMI \subseteq a.pins[r].bits => NMI \subseteq b.pins[r].bits
        /\ g \in D => NMI \subseteq b.pins[g].bits
    BY <2>5, <2>7, <2>8, NmiIoapic
  <2>10. plat'.ioapics = [plat.ioapics EXCEPT ![i] = b]
    BY <1>4, <2>1, <2>2, <2>7, <2>8 DEF Third
  <2>11. /\ DOMAIN plat'.ioapics = DOMAIN plat.ioapics /\ plat'.ioapics[i] = b
         /\ \A k \in DOMAIN plat.ioapics : k # i => plat'.ioapics[k] = plat.ioapics[k]
    BY <2>5, <2>10
  <2>12. Kept(i)
    BY <2>6, <2>7, <2>9, <2>11 DEF Kept
  <2>13. ASSUME NEW k \in DOMAIN plat.ioapics, k # i PROVE Kept(k)
    BY <1>1, <2>11, <2>13 DEF Kept
  <2>14. e.trigger \in Modes /\ e.polarity \in Levels
    BY <1>4, EntryFields
  <2>15. plat'.irqs = [plat.irqs EXCEPT ![e.global] = [@ EXCEPT !.trigger = e.trigger,
                                                               !.polarity = e.polarity]]
    BY <1>4 DEF Third
  <2>16. ASSUME NEW s \in Sources
         PROVE  plat'.irqs[s] \in Irq /\ plat'.irqs[s].target = plat.irqs[s].target
    <3>1. PICK q \in Irq : q = plat.irqs[s]
      BY <1>2
    <3>2. CASE s # e.global
      <4>1. plat'.irqs[s] = q
        BY <1>2, <2>15, <3>1, <3>2
      <4> QED
        BY <3>1, <4>1
    <3>3. CASE s = e.global
      <4>1. plat'.irqs[s] = [q EXCEPT !.trigger = e.trigger, !.polarity = e.polarity]
        BY <1>2, <2>15, <3>1, <3>3
      <4> QED
        BY <2>14, <3>1, <4>1 DEF Irq
    <3> QED
      BY <3>2, <3>3
  <2>17. plat'.irqs \in [Sources -> Irq]
    BY <1>2, <2>15, <2>16
  <2> QED
    BY <2>1, <2>2, <2>5, <2>6, <2>9, <2>11, <2>12, <2>13, <2>16, <2>17
<1> QED
  BY <1>3, <1>4

LEMMA ThirdLapics ==
  ASSUME PlatOK, pc = "third_run", NEW e, EntryOK(e), Third(e)
  PROVE  /\ DOMAIN plat'.lapics = DOMAIN plat.lapics
         /\ \A c \in DOMAIN plat.lapics :
              plat'.lapics[c] = IF /\ e.type = "lapicnmi" /\ c \in Named(mach.madt, e)
                                   /\ plat.lapics[c] # NoLapic
                                THEN lapic_set_nmi(plat.lapics[c], e.lint, e.trigger, e.polarity)
                                ELSE plat.lapics[c]
<1>1. CASE e.type = "lapicnmi"
  <2>1. "lapics" \in DOMAIN plat
    BY DEF PlatOK, PlatFields
  <2>2. plat'.lapics = [c \in DOMAIN plat.lapics |->
                          IF c \in Named(mach.madt, e) /\ plat.lapics[c] # NoLapic
                          THEN lapic_set_nmi(plat.lapics[c], e.lint, e.trigger, e.polarity)
                          ELSE plat.lapics[c]]
    BY <1>1, <2>1 DEF Third, SetLocalNmi
  <2> QED
    BY <1>1, <2>2
<1>2. CASE e.type # "lapicnmi"
  BY <1>2 DEF Third
<1> QED
  BY <1>1, <1>2

LEMMA ZeroThere ==
  ASSUME PlatOK, pc \notin BeforeRuns \cup Dead
  PROVE  0 \in DOMAIN plat.lapics
<1>1. core_count(mach.madt) \in Nat /\ core_count(mach.madt) # 0
  BY Cores DEF PlatOK
<1> QED
  BY <1>1 DEF PlatOK

\* A step that writes to the registers of the first local APIC.
LEMMA LapicStep ==
  ASSUME PlatOK, pc \notin Parsing \cup Dead, NEW k, LapicOK(k),
         plat' = [plat EXCEPT !.lapics[0] = k], mach' = mach
  PROVE  /\ PlatOK'
         /\ plat'.lapics[0] = k /\ DOMAIN plat'.lapics = DOMAIN plat.lapics
         /\ \A c \in DOMAIN plat.lapics : c # 0 => plat'.lapics[c] = plat.lapics[c]
         /\ plat'.irqs = plat.irqs /\ plat'.ioapics = plat.ioapics /\ plat'.at = plat.at
<1>1. pc \notin BeforeRuns \cup Dead
  BY DEF Parsing
<1>2. 0 \in DOMAIN plat.lapics
  BY <1>1, ZeroThere
<1>3. /\ DOMAIN plat' = PlatFields /\ plat'.lapics = [plat.lapics EXCEPT ![0] = k]
      /\ plat'.irqs = plat.irqs /\ plat'.ioapics = plat.ioapics /\ plat'.at = plat.at
  BY DEF PlatOK, PlatFields
<1>4. /\ DOMAIN plat'.lapics = DOMAIN plat.lapics /\ plat'.lapics[0] = k
      /\ \A c \in DOMAIN plat.lapics : c # 0 => plat'.lapics[c] = plat.lapics[c]
  BY <1>2, <1>3
<1>5. mach.madt # NoTable /\ Entries(mach.madt, "lapic") # {} /\ Entries(mach.madt, "ioapic") # {}
      /\ DOMAIN plat.lapics = 0 .. core_count(mach.madt) - 1
      /\ \A c \in DOMAIN plat.lapics : plat.lapics[c] = NoLapic \/ LapicOK(plat.lapics[c])
  BY <1>1 DEF PlatOK, BeforeRuns
<1>6. \A c \in DOMAIN plat'.lapics : plat'.lapics[c] = NoLapic \/ LapicOK(plat'.lapics[c])
  BY <1>4, <1>5
<1>7. PlatOK'
  BY <1>3, <1>4, <1>5, <1>6 DEF PlatOK
<1> QED
  BY <1>3, <1>4, <1>7

\* core::route_isa_irq: one pin changes, and gets the vector.
RoutedTo(s, v) ==
  /\ plat'.irqs = plat.irqs /\ plat'.lapics = plat.lapics /\ plat'.at = plat.at
  /\ DOMAIN plat'.ioapics = DOMAIN plat.ioapics
  /\ \A i \in DOMAIN plat.ioapics :
       /\ plat'.ioapics[i].base = plat.ioapics[i].base
       /\ plat'.ioapics[i].size = plat.ioapics[i].size
       /\ \A r \in DOMAIN mach.madt[i].pins :
            \/ plat'.ioapics[i].pins[r] = plat.ioapics[i].pins[r]
            \/ r = plat.irqs[s].target /\ plat'.ioapics[i].pins[r].vector = v

LEMMA RouteStep ==
  ASSUME PlatOK, pc \notin Parsing \cup {"lapic"} \cup Dead, NEW s \in Sources, NEW v \in Nat, Routable(plat, s),
         plat' = route_isa_irq(plat, s, v), mach' = mach
  PROVE  PlatOK' /\ RoutedTo(s, v)
<1>1. PICK g : g = plat.irqs[s].target
  OBVIOUS
<1>2. PICK i : i = FirstServing(plat.ioapics, g)
  OBVIOUS
<1>3. DOMAIN plat.ioapics \in SUBSET (Nat \ {0})
  BY EntriesIn DEF PlatOK
<1>4. i \in DOMAIN plat.ioapics
  BY <1>1, <1>2, <1>3, Serving DEF Routable
<1>5. PICK D : D = DOMAIN mach.madt[i].pins
  OBVIOUS
<1>6. PICK a \in Ioapic(D) : a = plat.ioapics[i]
  BY <1>4, <1>5 DEF PlatOK
<1>7. PICK t, p : t = plat.irqs[s].trigger /\ p = plat.irqs[s].polarity
  OBVIOUS
<1>8. PICK b : b = Routed(a, g, v, t, p)
  OBVIOUS
<1>9. /\ b \in Ioapic(D) /\ b.base = a.base /\ b.size = a.size
      /\ \A r \in D : b.pins[r] = a.pins[r] \/ (r = g /\ b.pins[r].vector = v)
  BY <1>8, RouteIoapic
<1>10. plat' = [plat EXCEPT !.ioapics[i] = b]
  BY <1>1, <1>2, <1>6, <1>7, <1>8 DEF route_isa_irq, Routed
<1>11. /\ DOMAIN plat' = PlatFields /\ plat'.ioapics = [plat.ioapics EXCEPT ![i] = b]
       /\ plat'.irqs = plat.irqs /\ plat'.lapics = plat.lapics /\ plat'.at = plat.at
  BY <1>10 DEF PlatOK, PlatFields
<1>12. /\ DOMAIN plat'.ioapics = DOMAIN plat.ioapics /\ plat'.ioapics[i] = b
       /\ \A k \in DOMAIN plat.ioapics : k # i => plat'.ioapics[k] = plat.ioapics[k]
  BY <1>4, <1>11
<1>13. RoutedTo(s, v)
  BY <1>1, <1>5, <1>6, <1>9, <1>11, <1>12 DEF RoutedTo
<1>14. \A k \in DOMAIN plat.ioapics : plat'.ioapics[k] \in Ioapic(DOMAIN mach.madt[k].pins)
  BY <1>5, <1>9, <1>12 DEF PlatOK
<1>15. /\ mach.madt # NoTable /\ Entries(mach.madt, "lapic") # {}
       /\ Entries(mach.madt, "ioapic") # {}
       /\ DOMAIN plat.lapics = 0 .. core_count(mach.madt) - 1
       /\ \A c \in DOMAIN plat.lapics : plat.lapics[c] = NoLapic \/ LapicOK(plat.lapics[c])
       /\ LapicOK(plat.lapics[0])
  BY DEF PlatOK, Parsing, BeforeRuns
<1>16. PlatOK'
  BY <1>11, <1>12, <1>14, <1>15 DEF PlatOK
<1> QED
  BY <1>13, <1>16

LEMMA RunsKeepPlat ==
  ASSUME PlatOK, parse_entry
  PROVE  PlatOK'
<1>1. PICK e : e = mach.madt[plat.at]
  OBVIOUS
<1>2. /\ mach.madt # NoTable /\ plat.at \in DOMAIN mach.madt /\ EntryOK(e)
      /\ mach' = mach /\ on' = on
      /\ \/ pc' = "fault" /\ plat' = plat
         \/ /\ pc' = pc /\ DOMAIN plat' = PlatFields /\ plat'.at = plat.at + 1
            /\ \/ pc = "first_run" /\ First(e)
               \/ pc = "second_run" /\ Second(e)
               \/ pc = "third_run" /\ Third(e)
  BY <1>1, ParseEntry
<1>3. CASE pc' = "fault" /\ plat' = plat
  BY <1>2, <1>3 DEF PlatOK, Dead
<1>4. plat.at + 1 \in Nat \ {0}
  BY DEF PlatOK
<1>5. CASE /\ pc' = pc /\ DOMAIN plat' = PlatFields /\ plat'.at = plat.at + 1
           /\ pc = "first_run" /\ First(e)
  <2>1. plat'.lapics = plat.lapics /\ plat'.ioapics = plat.ioapics
    BY <1>5 DEF First
  <2>2. plat'.irqs \in [Sources -> Irq]
    <3>1. CASE e.type = "override" /\ e.source \in Sources
      <4>1. PICK q : q = [target |-> e.global, trigger |-> e.trigger, polarity |-> e.polarity]
        OBVIOUS
      <4>2. q \in Irq
        BY <1>2, <3>1, <4>1, EntryFields DEF Irq
      <4>3. plat'.irqs = [plat.irqs EXCEPT ![e.source] = q]
        BY <1>5, <3>1, <4>1 DEF First, Override
      <4> QED
        BY <4>2, <4>3 DEF PlatOK
    <3>2. CASE ~(e.type = "override" /\ e.source \in Sources)
      BY <1>5, <3>2 DEF First, Override, PlatOK
    <3> QED
      BY <3>1, <3>2
  <2> QED
    BY <1>2, <1>4, <1>5, <2>1, <2>2 DEF PlatOK, BeforeRuns, Parsing
<1>6. CASE /\ pc' = pc /\ DOMAIN plat' = PlatFields /\ plat'.at = plat.at + 1
           /\ pc = "second_run" /\ Second(e)
  <2>1. /\ DOMAIN plat'.ioapics = DOMAIN plat.ioapics
        /\ \A i \in DOMAIN plat.ioapics : plat'.ioapics[i] \in Ioapic(DOMAIN mach.madt[i].pins)
    BY <1>1, <1>2, <1>6, SecondIoapics
  <2>2. PICK k : k = new_lapic(e.apic, plat.lapic_base, FirmwareLvt)
    OBVIOUS
  <2>3. /\ DOMAIN plat'.lapics = DOMAIN plat.lapics /\ LapicOK(k)
        /\ \A c \in DOMAIN plat.lapics : plat'.lapics[c] \in {plat.lapics[c], k}
    BY <1>2, <1>6, <2>2, SecondLapics
  <2>4. plat'.irqs = plat.irqs
    BY <1>6 DEF Second
  <2>5. pc \notin BeforeRuns \cup Dead /\ pc \in Parsing
    BY <1>6 DEF BeforeRuns, Dead, Parsing
  <2>6. /\ DOMAIN plat.lapics = 0 .. core_count(mach.madt) - 1
        /\ \A c \in DOMAIN plat.lapics : plat.lapics[c] = NoLapic \/ LapicOK(plat.lapics[c])
    BY <2>5 DEF PlatOK
  <2>7. \A c \in DOMAIN plat'.lapics : plat'.lapics[c] = NoLapic \/ LapicOK(plat'.lapics[c])
    BY <2>3, <2>6
  <2> QED
    BY <1>2, <1>4, <1>6, <2>1, <2>3, <2>4, <2>5, <2>7 DEF PlatOK
<1>7. CASE /\ pc' = pc /\ DOMAIN plat' = PlatFields /\ plat'.at = plat.at + 1
           /\ pc = "third_run" /\ Third(e)
  <2>1. /\ DOMAIN plat'.ioapics = DOMAIN plat.ioapics
        /\ \A i \in DOMAIN plat.ioapics : Kept(i)
        /\ plat'.irqs \in [Sources -> Irq]
    BY <1>2, <1>7, ThirdIoapics
  <2>2. \A i \in DOMAIN plat.ioapics : plat'.ioapics[i] \in Ioapic(DOMAIN mach.madt[i].pins)
    BY <2>1 DEF Kept
  <2>3. pc \notin BeforeRuns \cup Dead /\ pc \in Parsing
    BY <1>7 DEF BeforeRuns, Dead, Parsing
  <2>4. /\ DOMAIN plat.lapics = 0 .. core_count(mach.madt) - 1
        /\ \A c \in DOMAIN plat.lapics : plat.lapics[c] = NoLapic \/ LapicOK(plat.lapics[c])
    BY <2>3 DEF PlatOK
  <2>5. ASSUME NEW c \in DOMAIN plat'.lapics
        PROVE  plat'.lapics[c] = NoLapic \/ LapicOK(plat'.lapics[c])
    <3>1. /\ DOMAIN plat'.lapics = DOMAIN plat.lapics
          /\ \/ plat'.lapics[c] = plat.lapics[c]
             \/ /\ plat.lapics[c] # NoLapic
                /\ plat'.lapics[c] = lapic_set_nmi(plat.lapics[c], e.lint, e.trigger, e.polarity)
      BY <1>2, <1>7, ThirdLapics
    <3> QED
      BY <2>4, <3>1, NmiLapic
  <2>6. DOMAIN plat'.lapics = DOMAIN plat.lapics
    BY <1>2, <1>7, ThirdLapics
  <2> QED
    BY <1>2, <1>4, <1>7, <2>1, <2>2, <2>3, <2>5, <2>6 DEF PlatOK
<1> QED
  BY <1>2, <1>3, <1>5, <1>6, <1>7

\* The timer is routed to the vector that pit::init got.
LEMMA TimerRouted ==
  ASSUME IdtInv, TwoVectors, pc = "route", edit = Idle
  PROVE  VectorHeldBy("pit") = TimerVector /\ TimerVector \in Vectors /\ TimerVector \in Nat
         /\ owner[TimerVector] = "pit"
<1>1. PICK S : S = {v \in Vectors : owner[v] = "pit"}
  OBVIOUS
<1>2. TimerVector \in Vectors /\ owner[TimerVector] = "pit" /\ TwoNames(owner)
  BY DEF TwoVectors, TwoEdits, Starting
<1>3. Vectors \in SUBSET Nat
  BY Places
<1>4. S \in SUBSET Nat /\ S # {}
  BY <1>1, <1>2, <1>3
<1>5. Lowest(S) \in S
  BY <1>4, LowestIn
<1>6. \A v \in S : v = TimerVector
  BY <1>1, <1>2, BootAssumption DEF TwoNames
<1> QED
  BY <1>1, <1>2, <1>3, <1>5, <1>6 DEF VectorHeldBy

LEMMA OffStep == ASSUME OffInv, [Next]_vars PROVE OffInv'
<1>1. CASE Calm
  BY <1>1 DEF Calm, OffInv, Off, Parsing, BeforeRuns, Dead
<1>2. CASE parse \/ parse_entry \/ parse_next
  BY <1>2 DEF parse, parse_entry, parse_next, Go, OffInv, Off, Parsing, BeforeRuns, Dead
<1>3. CASE lapic_init \/ lapic_on \/ pit_route \/ calibrated
  BY <1>3 DEF lapic_init, lapic_on, pit_route, calibrated, Go, OffInv, Off, Parsing, BeforeRuns, Dead
<1>4. CASE \/ lapic_tick
           \/ \E d \in Drivers, v \in Vectors : driver_route(d, v)
           \/ \E v \in Vectors : kernel_lapic_timer(v)
  <2>1. UNCHANGED <<pc, on>>
    BY <1>4 DEF lapic_tick, driver_route, kernel_lapic_timer
  <2> QED
    BY <2>1 DEF OffInv
<1> QED
  BY <1>1, <1>2, <1>3, <1>4, PlatSteps

LEMMA ParseKeepsPlat ==
  ASSUME PlatOK, parse \/ parse_next
  PROVE  PlatOK'
<1>1. CASE parse
  <2>1. PICK x : plat' = [plat EXCEPT !.pic = x]
    BY <1>1 DEF parse
  <2>2. /\ DOMAIN plat' = PlatFields /\ plat'.at = plat.at /\ plat'.irqs = plat.irqs
        /\ plat'.ioapics = plat.ioapics
    BY <2>1 DEF PlatOK, PlatFields
  <2>3. mach' = mach /\ pc' = IF mach.madt = NoTable THEN "panic" ELSE "first_run"
    BY <1>1 DEF parse, Go
  <2> QED
    BY <2>2, <2>3 DEF PlatOK, BeforeRuns, Parsing, Dead
<1>2. CASE parse_next
  <2>1. PICK L : L = IF pc = "first_run" THEN NewLapics(mach.madt) ELSE plat.lapics
    OBVIOUS
  <2>2. plat' = [plat EXCEPT !.at = 1, !.lapics = L]
    BY <1>2, <2>1 DEF parse_next
  <2>3. /\ DOMAIN plat' = PlatFields /\ plat'.at = 1 /\ plat'.irqs = plat.irqs
        /\ plat'.ioapics = plat.ioapics /\ plat'.lapics = L
    BY <2>2 DEF PlatOK, PlatFields
  <2>4. mach' = mach
    BY <1>2 DEF parse_next
  <2>5. CASE pc' = "panic"
    BY <2>3, <2>4, <2>5 DEF PlatOK, Dead
  <2>6. CASE pc = "first_run" /\ pc' # "panic"
    <3>1. /\ pc' = "second_run" /\ Entries(mach.madt, "lapic") # {}
          /\ Entries(mach.madt, "ioapic") # {}
      BY <1>2, <2>6 DEF parse_next, Go
    <3>2. /\ DOMAIN L = 0 .. core_count(mach.madt) - 1
          /\ \A c \in DOMAIN L : L[c] = NoLapic
      BY <2>1, <2>6 DEF NewLapics
    <3> QED
      BY <2>3, <2>4, <2>6, <3>1, <3>2 DEF PlatOK, Parsing, Dead
  <2>7. CASE pc \in {"second_run", "third_run"}
    <3>1. pc' \in {"third_run", "lapic"} /\ L = plat.lapics
      BY <1>2, <2>1, <2>7 DEF parse_next, Go
    <3>2. pc \notin BeforeRuns \cup Dead
      BY <2>7 DEF BeforeRuns, Dead
    <3> QED
      BY <2>3, <2>4, <3>1, <3>2 DEF PlatOK, Parsing, BeforeRuns
  <2> QED
    BY <1>2, <2>5, <2>6, <2>7 DEF parse_next
<1> QED
  BY <1>1, <1>2

\* The steps that write to the first local APIC.
OnLapic(k) == plat' = [plat EXCEPT !.lapics[0] = k]
Ticked(l) == [l EXCEPT !.timer = IF @ = "once" THEN "stopped" ELSE @]
TimerCall(l, v) ==
  \/ OnLapic(lapic_clr_timer(l))
  \/ \E msec \in {10, 10000}, repeat \in BOOLEAN :
       OnLapic(lapic_set_timer(lapic_set_route(l, "Timer", v, "conform", "conform"), msec, repeat))

LEMMA LapicSteps ==
  ASSUME PlatOK, NEW l, l = plat.lapics[0]
  PROVE  /\ lapic_init =>
              LapicOK(l) /\ pc = "lapic" /\ pc' = "enable" /\ OnLapic(lapic_map(l))
         /\ lapic_on => /\ LapicOK(l) /\ pc = "enable" /\ pc' = "pit"
                        /\ OnLapic(lapic_enable(l, VectorHeldBy("spurious")))
         /\ calibrated => /\ LapicOK(l) /\ pc = "cal_check" /\ pc' = "done"
                          /\ OnLapic(lapic_set_mask(l, "Timer", FALSE))
         /\ lapic_tick => LapicOK(l) /\ pc = "done" /\ pc' = "done" /\ OnLapic(Ticked(l))
         /\ \A v \in Vectors : kernel_lapic_timer(v) =>
              /\ LapicOK(l) /\ pc = "done" /\ pc' = "done" /\ owner[v] \in Drivers
              /\ TimerCall(l, v)
<1>1. \A x \in {"enable", "cal_check", "done"} : x \notin Parsing \cup {"lapic"} \cup Dead
  BY DEF Parsing, BeforeRuns, Dead
<1>2. ASSUME pc \in {"enable", "cal_check", "done"} PROVE LapicOK(l)
  BY <1>1, <1>2 DEF PlatOK
<1>3. ASSUME lapic_init
      PROVE  LapicOK(l) /\ pc = "lapic" /\ pc' = "enable" /\ OnLapic(lapic_map(l))
  <2>1. pc = "lapic" /\ pc' = "enable" /\ l # NoLapic /\ OnLapic(lapic_map(l))
    BY <1>3 DEF lapic_init, Go, OnLapic
  <2>2. pc \notin BeforeRuns \cup Dead
    BY <2>1 DEF BeforeRuns, Dead
  <2>3. LapicOK(l)
    BY <2>1, <2>2, ZeroThere DEF PlatOK
  <2> QED
    BY <2>1, <2>3
<1>4. ASSUME lapic_on
      PROVE  /\ LapicOK(l) /\ pc = "enable" /\ pc' = "pit"
             /\ OnLapic(lapic_enable(l, VectorHeldBy("spurious")))
  BY <1>2, <1>4 DEF lapic_on, Go, OnLapic
<1>5. ASSUME calibrated
      PROVE  /\ LapicOK(l) /\ pc = "cal_check" /\ pc' = "done"
             /\ OnLapic(lapic_set_mask(l, "Timer", FALSE))
  BY <1>2, <1>5 DEF calibrated, Go, OnLapic
<1>6. ASSUME lapic_tick
      PROVE  LapicOK(l) /\ pc = "done" /\ pc' = "done" /\ OnLapic(Ticked(l))
  <2>1. /\ pc = "done" /\ pc' = pc
        /\ plat' = [plat EXCEPT !.lapics[0].timer = IF @ = "once" THEN "stopped" ELSE @]
    BY <1>6 DEF lapic_tick
  <2> QED
    BY <1>2, <2>1 DEF OnLapic, Ticked
<1>7. ASSUME NEW v \in Vectors, kernel_lapic_timer(v)
      PROVE  /\ LapicOK(l) /\ pc = "done" /\ pc' = "done" /\ owner[v] \in Drivers
             /\ TimerCall(l, v)
  <2>1. pc = "done" /\ pc' = pc /\ owner[v] \in Drivers /\ TimerCall(l, v)
    BY <1>7 DEF kernel_lapic_timer, Call, OnLapic, TimerCall
  <2> QED
    BY <1>2, <2>1
<1> QED
  BY <1>3, <1>4, <1>5, <1>6, <1>7

\* What these steps leave alone.
LEMMA TimerKept ==
  ASSUME NEW l, LapicOK(l)
  PROVE  /\ LapicOK(Ticked(l)) /\ Ticked(l).nmi = l.nmi /\ Ticked(l).lvt = l.lvt
         /\ Ticked(l).timer = "stopped" \/ Ticked(l).timer = l.timer
BY DEF Ticked, LapicOK, LapicFields

LEMMA TimerCalls ==
  ASSUME NEW l, LapicOK(l), NEW v \in Vectors, TimerCall(l, v)
  PROVE  \E k : /\ OnLapic(k) /\ LapicOK(k) /\ (Shut(l) => Shut(k))
                /\ k.timer = "stopped" \/ k.lvt["Timer"].vector = v
<1>1. CASE OnLapic(lapic_clr_timer(l))
  <2>1. PICK k : k = lapic_clr_timer(l)
    OBVIOUS
  <2>2. PICK j : j = lapic_set_mask(l, "Timer", TRUE)
    OBVIOUS
  <2>3. LapicOK(j) /\ (Shut(l) => Shut(j))
    BY <2>2, MaskTimer
  <2>4. k = [j EXCEPT !.timer = "stopped"]
    BY <2>1, <2>2 DEF lapic_clr_timer
  <2>5. LapicOK(k) /\ k.lvt = j.lvt /\ k.timer = "stopped"
    BY <2>3, <2>4, StopTimer
  <2>6. Shut(l) => Shut(k)
    BY <2>3, <2>5 DEF Shut
  <2> QED
    BY <1>1, <2>1, <2>5, <2>6
<1>2. CASE \E msec \in {10, 10000}, repeat \in BOOLEAN :
       OnLapic(lapic_set_timer(lapic_set_route(l, "Timer", v, "conform", "conform"), msec, repeat))
  <2>1. PICK msec \in {10, 10000}, repeat \in BOOLEAN :
        OnLapic(lapic_set_timer(lapic_set_route(l, "Timer", v, "conform", "conform"), msec, repeat))
    BY <1>2
  <2>2. PICK j : j = lapic_set_route(l, "Timer", v, "conform", "conform")
    OBVIOUS
  <2>3. v \in Nat
    BY Places
  <2>4. LapicOK(j) /\ (Shut(l) => Shut(j)) /\ j.lvt["Timer"].vector = v
    BY <2>2, <2>3, RouteTimer
  <2>5. PICK k : k = lapic_set_timer(j, msec, repeat)
    OBVIOUS
  <2>6. LapicOK(k) /\ (Shut(j) => Shut(k)) /\ k.lvt["Timer"].vector = j.lvt["Timer"].vector
    BY <2>4, <2>5, SetTimer
  <2>7. OnLapic(k)
    BY <2>1, <2>2, <2>5
  <2> QED
    BY <2>4, <2>6, <2>7
<1> QED
  BY <1>1, <1>2 DEF TimerCall

LEMMA PlatStep ==
  ASSUME IdtInv, TwoVectors, PlatOK, [Next]_vars
  PROVE  PlatOK'
<1>1. mach' = mach
  BY PlatSteps
<1>2. CASE Calm
  <2>1. plat' = plat
    BY <1>2 DEF Calm
  <2>2. CASE pc' = pc \/ pc' \in Dead \/ (pc = "start" /\ pc' = "parse")
    BY <1>1, <2>1, <2>2 DEF PlatOK, Dead, BeforeRuns, Parsing
  <2>3. CASE \/ pc = "pit" /\ pc' \in {"route", "sti"}
             \/ pc \notin Off /\ pc' \notin Off
    <3>1. pc \notin Parsing \cup {"lapic"} \cup Dead
      BY <2>3 DEF Off, Parsing, BeforeRuns, Dead
    <3>2. pc \notin {"start", "parse"} \cup BeforeRuns
      BY <3>1 DEF Parsing, BeforeRuns
    <3> QED
      BY <1>1, <2>1, <3>1, <3>2 DEF PlatOK
  <2> QED
    BY <1>2, <2>2, <2>3 DEF Calm
<1>3. CASE parse \/ parse_next
  BY <1>3, ParseKeepsPlat
<1>4. CASE parse_entry
  BY <1>4, RunsKeepPlat
<1>5. ASSUME NEW k, LapicOK(k), OnLapic(k), pc \notin Parsing \cup Dead
      PROVE  PlatOK'
  BY <1>1, <1>5, LapicStep DEF OnLapic
<1>6. PICK l : l = plat.lapics[0]
  OBVIOUS
<1>7. \A x \in {"lapic", "enable", "cal_check", "done"} : x \notin Parsing \cup Dead
  BY DEF Parsing, BeforeRuns, Dead
<1>8. CASE lapic_init
  BY <1>5, <1>6, <1>7, <1>8, LapicSteps, MapLapic
<1>9. CASE lapic_on
  BY <1>5, <1>6, <1>7, <1>9, LapicSteps, EnableLapic
<1>10. CASE calibrated
  BY <1>5, <1>6, <1>7, <1>10, LapicSteps, MaskTimer
<1>11. CASE lapic_tick
  BY <1>5, <1>6, <1>7, <1>11, LapicSteps, TimerKept
<1>12. ASSUME NEW v \in Vectors, kernel_lapic_timer(v) PROVE PlatOK'
  <2>1. LapicOK(l) /\ pc = "done" /\ TimerCall(l, v)
    BY <1>6, <1>12, LapicSteps
  <2> QED
    BY <1>5, <1>7, <2>1, TimerCalls
<1>13. CASE pit_route
  <2>1. pc = "route" /\ edit = Idle
    BY <1>13 DEF pit_route, Go
  <2>2. VectorHeldBy("pit") = TimerVector /\ TimerVector \in Nat
    BY <2>1, TimerRouted
  <2>3. pc \notin Parsing \cup {"lapic"} \cup Dead
    BY <2>1 DEF Parsing, BeforeRuns, Dead
  <2>4. CASE plat' = plat
    <3>1. pc \notin {"start", "parse"} \cup BeforeRuns
      BY <2>1 DEF BeforeRuns
    <3> QED
      BY <1>1, <2>3, <2>4, <3>1 DEF PlatOK
  <2>5. CASE Routable(plat, 0) /\ plat' = route_isa_irq(plat, 0, TimerVector)
    <3>1. 0 \in Sources
      BY <2>5 DEF Routable
    <3> QED
      BY <1>1, <2>2, <2>3, <2>5, <3>1, RouteStep
  <2> QED
    BY <1>13, <2>2, <2>4, <2>5 DEF pit_route
<1>14. ASSUME NEW d \in Drivers, NEW v \in Vectors, driver_route(d, v) PROVE PlatOK'
  <2>1. pc = "done" /\ Routable(plat, Line[d]) /\ plat' = route_isa_irq(plat, Line[d], v)
    BY <1>14 DEF driver_route, Call
  <2>2. Line[d] \in Sources /\ v \in Nat
    BY BootAssumption, Places
  <2>3. pc \notin Parsing \cup {"lapic"} \cup Dead
    BY <2>1 DEF Parsing, BeforeRuns, Dead
  <2>4. PICK s : s = Line[d]
    OBVIOUS
  <2> QED
    BY <1>1, <2>1, <2>2, <2>3, <2>4, RouteStep
<1> QED
  BY <1>2, <1>3, <1>4, <1>8, <1>9, <1>10, <1>11, <1>12, <1>13, <1>14, PlatSteps

-----------------------------------------------------------------------------
(* The pins of the IO APICs *)

LEMMA GivenStep ==
  ASSUME TableInv, HeldGiven, [Next]_vars
  PROVE  HeldGiven' /\ (pc # "start" => \A v : Given(v) => Given(v)')
<1>1. IdtInv /\ BeforeInit
  BY DEF TableInv
<1>2. IdtStep \/ (pc = "start" /\ idt_init)
  BY <1>1, NextOnTable
<1>3. CASE IdtStep
  BY <1>1, <1>3, GivenStays
<1>4. CASE pc = "start" /\ idt_init
  <2>1. owner' = owner
    BY <1>4 DEF idt_init
  <2>2. \A v \in Vectors : ~Held(v)
    BY <1>1, <1>4 DEF BeforeInit
  <2> QED
    BY <1>4, <2>1, <2>2 DEF HeldGiven, Held
<1> QED
  BY <1>2, <1>3, <1>4

\* ioapic::init has not come to an IO APIC.
Pending(i) == pc \in BeforeRuns \/ (pc = "second_run" /\ plat.at <= i)

\* A pin with the firmware's vector: masked, if it is not the last.
RawPin(i, r) ==
  LET pin == plat.ioapics[i].pins[r]  firmware == mach.madt[i].pins[r]
  IN  /\ pin.vector = firmware.vector /\ (Masked(firmware) => Masked(pin))
      /\ Granted /\ r + 1 \in DOMAIN mach.madt[i].pins => Masked(pin)

\* A pin with a vector of the kernel's; up to the end of init that of the timer.
OpenPin(i, r) ==
  LET pin == plat.ioapics[i].pins[r]
  IN  /\ Given(pin.vector)
      /\ pc \notin Parsing \cup {"lapic", "enable", "pit", "route"}
      /\ pc \in Starting => /\ pin.vector = TimerVector /\ r = plat.irqs[0].target
                            /\ Granted /\ "PIT" \in mach.regions /\ 0 \in Sources

PinsInv ==
  /\ pc \notin Dead => \A i \in DOMAIN plat.ioapics :
       IF Pending(i) THEN plat.ioapics[i].pins = mach.madt[i].pins
       ELSE \A r \in DOMAIN mach.madt[i].pins : RawPin(i, r) \/ OpenPin(i, r)
  /\ ~Granted => \A i \in DOMAIN plat.ioapics :
       plat.ioapics[i].base = 0 /\ plat.ioapics[i].size = 0

\* What the resource registry grants.
RegionInv ==
  /\ pc \notin Parsing \cup {"lapic"} \cup Dead => "LAPIC" \in mach.regions
  /\ pc = "route" => "PIT" \in mach.regions

LEMMA RegionStep == ASSUME RegionInv, [Next]_vars PROVE RegionInv'
<1>1. CASE UNCHANGED vars
  BY <1>1 DEF vars, bvars, RegionInv
<1>2. CASE cpu
  <2>1. CASE start_idt \/ parse \/ parse_entry \/ parse_next
    BY <2>1 DEF start_idt, parse, parse_entry, parse_next, Go, RegionInv, Parsing, BeforeRuns, Dead
  <2>2. CASE lapic_fails \/ lapic_init \/ lapic_on
    BY <2>2 DEF lapic_fails, lapic_init, lapic_on, Go, RegionInv, Parsing, BeforeRuns, Dead
  <2>3. CASE pit_refused \/ pit_init \/ pit_route
    BY <2>3 DEF pit_refused, pit_init, pit_route, Go, RegionInv, Parsing, BeforeRuns, Dead
  <2>4. CASE warm_up
    BY <2>4 DEF warm_up, set_handlers, set_mode, set_count, walk, Go, RegionInv, Parsing,
                BeforeRuns, Dead
  <2>5. CASE flags \/ calibrated \/ edit_step
    BY <2>5 DEF flags, set_flag, calibrated, edit_step, bvars, Go, RegionInv, Parsing,
                BeforeRuns, Dead
  <2>6. CASE calibrate
    BY <2>6 DEF calibrate, set_handlers, set_mode, set_count, walk, Go, RegionInv, Parsing,
                BeforeRuns, Dead
  <2> QED
    BY <1>2, <2>1, <2>2, <2>3, <2>4, <2>5, <2>6 DEF cpu
<1>3. CASE kernel
  <2>1. /\ mach' = mach /\ pc \notin Parsing \cup {"lapic"} \cup Dead
        /\ pc' \notin {"route"}
    BY <1>3, KernelSteps DEF Running, Parsing, BeforeRuns, Dead
  <2> QED
    BY <2>1 DEF RegionInv
<1>4. CASE pit_tick \/ lapic_tick \/ \E g \in Lines : device_edge(g)
  BY <1>4 DEF pit_tick, lapic_tick, device_edge, RegionInv
<1>5. ASSUME NEW v \in Vectors, deliver(v) PROVE RegionInv'
  <2>1. mach' = mach /\ pc' \in {Resume, "fault"}
    BY <1>5 DEF deliver
  <2> QED
    BY <2>1 DEF Resume, RegionInv, Parsing, BeforeRuns, Dead
<1> QED
  BY <1>1, <1>2, <1>3, <1>4, <1>5 DEF Next

\* A step that leaves the IO APICs as they are, and where it may lead.
LEMMA PinsStay ==
  ASSUME PinsInv, HeldGiven, TableInv, [Next]_vars, mach' = mach, plat'.ioapics = plat.ioapics,
         plat'.irqs = plat.irqs, pc' \in Starting => pc \in Starting,
         \/ pc' \in Dead
         \/ pc' = pc /\ plat'.at = plat.at
         \/ pc \in BeforeRuns /\ pc' \in BeforeRuns
         \/ /\ pc \notin BeforeRuns \cup {"second_run"} \cup Dead
            /\ pc' \notin BeforeRuns \cup {"second_run"}
            /\ pc' \in {"lapic", "enable", "pit", "route", "third_run"} =>
                 pc \in {"third_run", "lapic", "enable", "pit"}
  PROVE  PinsInv'
<1>1. Granted' = Granted
  BY DEF Granted
<1>2. ASSUME pc' \notin Dead, NEW i \in DOMAIN plat.ioapics
      PROVE  IF Pending(i)' THEN plat'.ioapics[i].pins = mach'.madt[i].pins
             ELSE \A r \in DOMAIN mach'.madt[i].pins : RawPin(i, r)' \/ OpenPin(i, r)'
  <2>1. pc \notin Dead /\ Pending(i)' = Pending(i)
    BY <1>2 DEF Pending, BeforeRuns, Dead
  <2>2. CASE Pending(i)
    BY <1>2, <2>1, <2>2 DEF PinsInv
  <2>3. ASSUME ~Pending(i), NEW r \in DOMAIN mach.madt[i].pins
        PROVE  RawPin(i, r)' \/ OpenPin(i, r)'
    <3>1. CASE RawPin(i, r)
      BY <1>1, <3>1 DEF RawPin
    <3>2. CASE OpenPin(i, r)
      <4>1. pc # "start"
        BY <3>2 DEF OpenPin, Parsing, BeforeRuns
      <4>2. Given(plat.ioapics[i].pins[r].vector)'
        BY <3>2, <4>1, GivenStep DEF OpenPin
      <4>3. pc' \notin Parsing \cup {"lapic", "enable", "pit", "route"}
        BY <1>2, <2>1, <3>2 DEF OpenPin, Parsing, BeforeRuns
      <4> QED
        BY <1>1, <3>2, <4>2, <4>3 DEF OpenPin, Given
    <3> QED
      BY <1>2, <2>1, <2>3, <3>1, <3>2 DEF PinsInv
  <2> QED
    BY <2>1, <2>2, <2>3
<1> QED
  BY <1>1, <1>2 DEF PinsInv

\* The second run sets up an IO APIC.
LEMMA PinsSecond ==
  ASSUME PinsInv, PlatOK, pc = "second_run", pc' = pc, mach' = mach, mach.madt # NoTable,
         NEW e, e = mach.madt[plat.at], plat.at \in DOMAIN mach.madt,
         plat'.at = plat.at + 1, Second(e)
  PROVE  PinsInv'
<1>1. Granted' = Granted /\ Granted \in BOOLEAN
  BY DEF Granted
<1>2. PICK J : J = DOMAIN plat.ioapics
  OBVIOUS
<1>3. J = Entries(mach.madt, "ioapic") /\ J \in SUBSET Nat /\ plat.at \in Nat
  BY <1>2, EntriesIn DEF PlatOK
<1>4. /\ DOMAIN plat'.ioapics = J
      /\ \A i \in J :
              /\ i # plat.at => plat'.ioapics[i] = plat.ioapics[i]
              /\ i = plat.at =>
                   plat'.ioapics[i] = ioapic_init(plat.ioapics[i], mach.madt[i].base % 256, Granted)
  BY <1>2, SecondIoapics
<1>5. ASSUME NEW i \in J, i = plat.at
      PROVE  /\ \A r \in DOMAIN mach.madt[i].pins : RawPin(i, r)'
             /\ ~Granted => plat'.ioapics[i] = plat.ioapics[i]
  <2>1. mach \in Machines /\ i \in Entries(mach.madt, "ioapic")
    BY <1>3, <1>5 DEF PlatOK
  <2>2. /\ mach.madt[i].base \in Nat
        /\ \E n \in Nat \ {0} : DOMAIN mach.madt[i].pins = 0 .. n - 1
    BY <2>1, PinsOf
  <2>3. PICK n \in Nat \ {0} : DOMAIN mach.madt[i].pins = 0 .. n - 1
    BY <2>2
  <2>4. plat.ioapics[i] \in Ioapic(0 .. n - 1) /\ mach.madt[i].base % 256 \in Nat
    BY <1>2, <2>2, <2>3 DEF PlatOK
  <2>5. PICK a \in Ioapic(0 .. n - 1), w \in Nat, G \in BOOLEAN :
          a = plat.ioapics[i] /\ w = mach.madt[i].base % 256 /\ G = Granted
    BY <1>1, <2>4
  <2>6. PICK b : b = ioapic_init(a, w, G)
    OBVIOUS
  <2>7. /\ ~G => b = a
        /\ \A r \in 0 .. n - 1 :
              /\ b.pins[r].vector = a.pins[r].vector
              /\ Masked(a.pins[r]) => Masked(b.pins[r])
              /\ G /\ r + 1 \in 0 .. n - 1 => Masked(b.pins[r])
    BY <2>6, InitIoapic
  <2>8. plat'.ioapics[i] = b
    BY <1>4, <1>5, <2>5, <2>6
  <2>9. plat.ioapics[i].pins = mach.madt[i].pins
    <3>1. Pending(i) /\ pc \notin Dead
      BY <1>3, <1>5 DEF Pending, Dead
    <3> QED
      BY <1>2, <3>1 DEF PinsInv
  <2>10. ASSUME NEW r \in DOMAIN mach.madt[i].pins PROVE RawPin(i, r)'
    BY <1>1, <2>3, <2>5, <2>7, <2>8, <2>9 DEF RawPin
  <2> QED
    BY <2>5, <2>7, <2>8, <2>10
<1>6. ASSUME NEW i \in J
      PROVE  IF Pending(i)' THEN plat'.ioapics[i].pins = mach'.madt[i].pins
             ELSE \A r \in DOMAIN mach'.madt[i].pins : RawPin(i, r)' \/ OpenPin(i, r)'
  <2>1. /\ Pending(i) <=> plat.at <= i
        /\ Pending(i)' <=> plat.at + 1 <= i
        /\ pc \notin Dead
    BY DEF Pending, BeforeRuns, Dead
  <2>2. i \in Nat
    BY <1>3
  <2>3. CASE i = plat.at
    <3>1. ~Pending(i)'
      BY <1>3, <2>1, <2>2, <2>3
    <3> QED
      BY <1>5, <2>3, <3>1
  <2>4. CASE i # plat.at
    <3>1. plat'.ioapics[i] = plat.ioapics[i] /\ (Pending(i)' <=> Pending(i))
      BY <1>3, <1>4, <2>1, <2>2, <2>4
    <3>2. CASE Pending(i)
      BY <1>2, <2>1, <3>1, <3>2 DEF PinsInv
    <3>3. ASSUME ~Pending(i), NEW r \in DOMAIN mach.madt[i].pins PROVE RawPin(i, r)'
      <4>1. RawPin(i, r) \/ OpenPin(i, r)
        BY <1>2, <2>1, <3>3 DEF PinsInv
      <4>2. ~OpenPin(i, r)
        BY DEF OpenPin, Parsing
      <4> QED
        BY <1>1, <3>1, <4>1, <4>2 DEF RawPin
    <3> QED
      BY <3>1, <3>2, <3>3
  <2> QED
    BY <2>3, <2>4
<1>7. ~Granted => \A i \in J : plat'.ioapics[i] = plat.ioapics[i]
  BY <1>4, <1>5
<1> QED
  BY <1>1, <1>2, <1>4, <1>6, <1>7 DEF PinsInv

LEMMA PinsThird ==
  ASSUME PinsInv, PlatOK, pc = "third_run", pc' = pc, mach' = mach,
         NEW e, EntryOK(e), Third(e)
  PROVE  PinsInv'
<1>1. Granted' = Granted
  BY DEF Granted
<1>2. /\ DOMAIN plat'.ioapics = DOMAIN plat.ioapics
      /\ \A i \in DOMAIN plat.ioapics : Kept(i)
  BY ThirdIoapics
<1>3. ASSUME NEW i \in DOMAIN plat.ioapics, NEW r \in DOMAIN mach.madt[i].pins
      PROVE  ~Pending(i)' /\ RawPin(i, r)'
  <2>1. ~Pending(i) /\ ~Pending(i)' /\ ~OpenPin(i, r) /\ pc \notin Dead
    BY DEF Pending, OpenPin, Parsing, BeforeRuns, Dead
  <2>2. RawPin(i, r)
    BY <2>1 DEF PinsInv
  <2> QED
    BY <1>1, <1>2, <2>1, <2>2 DEF RawPin, Kept
<1>4. ~Granted => \A i \in DOMAIN plat.ioapics :
                    plat'.ioapics[i].base = 0 /\ plat'.ioapics[i].size = 0
  BY <1>2 DEF PinsInv, Kept
<1>5. \A i \in DOMAIN plat.ioapics : ~Pending(i)'
  BY DEF Pending, BeforeRuns
<1> QED
  BY <1>1, <1>2, <1>3, <1>4, <1>5 DEF PinsInv

LEMMA PinsRouted ==
  ASSUME PinsInv, HeldGiven, TableInv, PlatOK, [Next]_vars, mach' = mach, pc \notin Parsing \cup Dead,
         NEW s \in Sources, NEW v \in Vectors, owner[v] # "none", RoutedTo(s, v),
         pc' \notin Parsing \cup {"lapic", "enable", "pit", "route"} \cup Dead,
         \/ pc = "route" /\ s = 0 /\ v = TimerVector /\ Granted /\ "PIT" \in mach.regions
         \/ pc' \notin Starting
  PROVE  PinsInv'
<1>1. Granted' = Granted
  BY DEF Granted
<1>2. Given(v)' /\ \A w : Given(w) => Given(w)'
  <2>1. Given(v)
    BY DEF HeldGiven, Held, Given
  <2>2. pc # "start"
    BY DEF Parsing, BeforeRuns
  <2> QED
    BY <2>1, <2>2, GivenStep
<1>3. ASSUME NEW i \in DOMAIN plat.ioapics, NEW r \in DOMAIN mach.madt[i].pins
      PROVE  RawPin(i, r)' \/ OpenPin(i, r)'
  <2>1. RawPin(i, r) \/ OpenPin(i, r)
    BY DEF PinsInv, Pending, Parsing
  <2>2. CASE r = plat.irqs[s].target /\ plat'.ioapics[i].pins[r].vector = v
    <3>1. plat'.irqs = plat.irqs
      BY DEF RoutedTo
    <3> QED
      BY <1>1, <1>2, <2>2, <3>1 DEF OpenPin, Given
  <2>3. CASE plat'.ioapics[i].pins[r] = plat.ioapics[i].pins[r]
    <3>1. CASE RawPin(i, r)
      BY <1>1, <2>3, <3>1 DEF RawPin
    <3>2. CASE OpenPin(i, r)
      <4>1. pc' \notin Starting
        BY <3>2 DEF OpenPin
      <4>2. PICK w : w = plat.ioapics[i].pins[r].vector
        OBVIOUS
      <4>3. Given(w)' /\ plat'.ioapics[i].pins[r].vector = w
        BY <1>2, <2>3, <3>2, <4>2 DEF OpenPin
      <4> QED
        BY <4>1, <4>3 DEF OpenPin, Given
    <3> QED
      BY <2>1, <3>1, <3>2
  <2> QED
    BY <2>2, <2>3 DEF RoutedTo
<1>4. DOMAIN plat'.ioapics = DOMAIN plat.ioapics /\ \A i \in DOMAIN plat.ioapics : ~Pending(i)'
  BY DEF RoutedTo, Pending, Parsing
<1>5. ~Granted => \A i \in DOMAIN plat.ioapics :
                    plat'.ioapics[i].base = 0 /\ plat'.ioapics[i].size = 0
  BY DEF PinsInv, RoutedTo
<1> QED
  BY <1>1, <1>3, <1>4, <1>5 DEF PinsInv

LEMMA PinsStep ==
  ASSUME TableInv, TwoVectors, PlatOK, PinsInv, HeldGiven, RegionInv, [Next]_vars
  PROVE  PinsInv'
<1>1. mach' = mach /\ IdtInv
  BY PlatSteps DEF TableInv
<1>2. pc' \in Starting => pc \in Starting
  BY StartSteps
<1>3. CASE Calm
  <2>1. plat' = plat
    BY <1>3 DEF Calm
  <2>2. \/ pc' \in Dead \/ pc' = pc \/ (pc \in BeforeRuns /\ pc' \in BeforeRuns)
        \/ /\ pc \notin BeforeRuns \cup {"second_run"} \cup Dead
           /\ pc' \notin BeforeRuns \cup {"second_run"}
           /\ (pc' \in {"lapic", "enable", "pit", "route", "third_run"} =>
                 pc \in {"third_run", "lapic", "enable", "pit"})
    BY <1>3 DEF Calm, BeforeRuns, Off, Parsing, Dead
  <2> QED
    BY <1>1, <1>2, <2>1, <2>2, PinsStay
<1>4. CASE parse
  <2>1. PICK x : plat' = [plat EXCEPT !.pic = x]
    BY <1>4 DEF parse
  <2>2. plat'.ioapics = plat.ioapics /\ plat'.irqs = plat.irqs
    BY <2>1 DEF PlatOK, PlatFields
  <2>3. pc \in BeforeRuns /\ (pc' \in BeforeRuns \/ pc' \in Dead)
    BY <1>4 DEF parse, Go, BeforeRuns, Dead
  <2> QED
    BY <1>1, <1>2, <2>2, <2>3, PinsStay
<1>5. CASE parse_next
  <2>1. PICK L : plat' = [plat EXCEPT !.at = 1, !.lapics = L]
    BY <1>5 DEF parse_next
  <2>2. plat'.ioapics = plat.ioapics /\ plat'.irqs = plat.irqs /\ plat'.at = 1
    BY <2>1 DEF PlatOK, PlatFields
  <2>3. CASE pc' \in Dead \/ pc = "third_run"
    <3>1. pc' \in Dead \/ pc' = "lapic"
      BY <1>5, <2>3 DEF parse_next, Go
    <3> QED
      BY <1>1, <1>2, <2>2, <2>3, <3>1, PinsStay DEF BeforeRuns, Dead
  <2>4. CASE pc' \notin Dead /\ pc = "first_run"
    <3>1. pc' = "second_run"
      BY <1>5, <2>4 DEF parse_next, Go, Dead
    <3>2. \A i \in DOMAIN plat.ioapics : i \in Nat /\ i >= 1
      BY EntriesIn DEF PlatOK
    <3>3. \A i \in DOMAIN plat.ioapics : Pending(i) /\ Pending(i)'
      BY <2>2, <2>4, <3>1, <3>2 DEF Pending, BeforeRuns
    <3>4. pc \notin Dead /\ (Granted' = Granted)
      BY <1>1, <2>4 DEF Dead, Granted
    <3> QED
      BY <1>1, <2>2, <3>3, <3>4 DEF PinsInv
  <2>5. CASE pc = "second_run"
    <3>1. pc' = "third_run" /\ plat.at \notin DOMAIN mach.madt
      BY <1>5, <2>5 DEF parse_next, Go
    <3>2. mach \in Machines /\ mach.madt # NoTable /\ plat.at \in Nat \ {0}
      BY <2>5 DEF PlatOK, Dead
    <3>3. plat.at > Len(mach.madt) /\ Len(mach.madt) \in Nat
      BY <3>1, <3>2, TableFacts
    <3>40. \A i \in DOMAIN plat.ioapics : i \in 1 .. Len(mach.madt)
      BY <3>2, EntriesIn DEF PlatOK
    <3>4. \A i \in DOMAIN plat.ioapics : i \in Nat /\ i <= Len(mach.madt)
      BY <3>3, <3>40
    <3>5. \A i \in DOMAIN plat.ioapics : ~Pending(i) /\ ~Pending(i)'
      BY <2>5, <3>1, <3>2, <3>3, <3>4 DEF Pending, BeforeRuns
    <3>6. pc \notin Dead /\ (Granted' = Granted)
      BY <1>1, <2>5 DEF Dead, Granted
    <3>7. ASSUME NEW i \in DOMAIN plat.ioapics, NEW r \in DOMAIN mach.madt[i].pins
          PROVE  RawPin(i, r)'
      <4>1. RawPin(i, r) \/ OpenPin(i, r)
        BY <3>5, <3>6 DEF PinsInv
      <4>2. ~OpenPin(i, r)
        BY <2>5 DEF OpenPin, Parsing
      <4> QED
        BY <1>1, <2>2, <3>6, <4>1, <4>2 DEF RawPin
    <3> QED
      BY <1>1, <2>2, <3>5, <3>6, <3>7 DEF PinsInv
  <2> QED
    BY <1>5, <2>3, <2>4, <2>5 DEF parse_next
<1>6. CASE parse_entry
  <2>1. PICK e : e = mach.madt[plat.at]
    OBVIOUS
  <2>2. /\ mach.madt # NoTable /\ plat.at \in DOMAIN mach.madt /\ EntryOK(e)
        /\ \/ pc' = "fault" /\ plat' = plat
           \/ /\ pc' = pc /\ plat'.at = plat.at + 1
              /\ \/ pc = "first_run" /\ First(e)
                 \/ pc = "second_run" /\ Second(e)
                 \/ pc = "third_run" /\ Third(e)
    BY <1>6, <2>1, ParseEntry
  <2>3. CASE pc' = "fault" /\ plat' = plat
    BY <1>1, <1>2, <2>3, PinsStay DEF Dead
  <2>4. CASE pc' = pc /\ pc = "first_run" /\ First(e)
    <3>1. plat'.ioapics = plat.ioapics
      BY <2>4 DEF First
    <3>2. \A i \in DOMAIN plat.ioapics : Pending(i) /\ Pending(i)'
      BY <2>4 DEF Pending, BeforeRuns
    <3>3. pc \notin Dead /\ (Granted' = Granted)
      BY <1>1, <2>4 DEF Dead, Granted
    <3> QED
      BY <1>1, <3>1, <3>2, <3>3 DEF PinsInv
  <2> QED
    BY <1>1, <2>1, <2>2, <2>3, <2>4, PinsSecond, PinsThird
<1>7. PICK l : l = plat.lapics[0]
  OBVIOUS
<1>8. ASSUME NEW k, LapicOK(k), OnLapic(k),
             \/ pc = "lapic" /\ pc' = "enable"
             \/ pc = "enable" /\ pc' = "pit"
             \/ pc \in {"cal_check", "done"} /\ pc' = "done"
      PROVE  PinsInv'
  <2>1. /\ pc \notin Parsing \cup Dead /\ pc \notin BeforeRuns \cup {"second_run"} \cup Dead
        /\ pc' \notin BeforeRuns \cup {"second_run"}
        /\ (pc' \in {"lapic", "enable", "pit", "route", "third_run"} =>
              pc \in {"third_run", "lapic", "enable", "pit"})
    BY <1>8 DEF BeforeRuns, Parsing, Dead
  <2>2. plat'.ioapics = plat.ioapics /\ plat'.irqs = plat.irqs
    BY <1>1, <1>8, <2>1, LapicStep DEF OnLapic
  <2> QED
    BY <1>1, <1>2, <2>1, <2>2, PinsStay
<1>9. CASE lapic_init
  <2>1. PICK k : k = lapic_map(l)
    OBVIOUS
  <2>2. LapicOK(l) /\ OnLapic(k) /\ pc = "lapic" /\ pc' = "enable"
    BY <1>7, <1>9, <2>1, LapicSteps
  <2>3. LapicOK(k)
    BY <2>1, <2>2, MapLapic
  <2> QED
    BY <1>8, <2>2, <2>3
<1>10. CASE lapic_on
  <2>1. PICK k : k = lapic_enable(l, VectorHeldBy("spurious"))
    OBVIOUS
  <2>2. LapicOK(l) /\ OnLapic(k) /\ pc = "enable" /\ pc' = "pit"
    BY <1>7, <1>10, <2>1, LapicSteps
  <2>3. LapicOK(k)
    BY <2>1, <2>2, EnableLapic
  <2> QED
    BY <1>8, <2>2, <2>3
<1>11. CASE calibrated
  <2>1. PICK k : k = lapic_set_mask(l, "Timer", FALSE)
    OBVIOUS
  <2>2. LapicOK(l) /\ OnLapic(k) /\ pc = "cal_check" /\ pc' = "done"
    BY <1>7, <1>11, <2>1, LapicSteps
  <2>3. LapicOK(k)
    BY <2>1, <2>2, MaskTimer
  <2> QED
    BY <1>8, <2>2, <2>3
<1>12. CASE lapic_tick
  <2>1. PICK k : k = Ticked(l)
    OBVIOUS
  <2>2. LapicOK(l) /\ OnLapic(k) /\ pc = "done" /\ pc' = "done"
    BY <1>7, <1>12, <2>1, LapicSteps
  <2>3. LapicOK(k)
    BY <2>1, <2>2, TimerKept
  <2> QED
    BY <1>8, <2>2, <2>3
<1>13. ASSUME NEW v \in Vectors, kernel_lapic_timer(v) PROVE PinsInv'
  <2>1. LapicOK(l) /\ pc = "done" /\ pc' = "done" /\ TimerCall(l, v)
    BY <1>7, <1>13, LapicSteps
  <2> QED
    BY <1>8, <2>1, TimerCalls
<1>14. CASE pit_route
  <2>1. pc = "route" /\ edit = Idle /\ pc' \in {"warm", "fault"}
    BY <1>14 DEF pit_route, Go
  <2>2. /\ VectorHeldBy("pit") = TimerVector /\ TimerVector \in Nat /\ TimerVector \in Vectors
        /\ owner[TimerVector] = "pit"
    BY <1>1, <2>1, TimerRouted
  <2>3. CASE plat' = plat
    BY <1>1, <1>2, <2>1, <2>3, PinsStay DEF BeforeRuns, Dead
  <2>4. CASE Routable(plat, 0) /\ pc' = "warm" /\ plat' = route_isa_irq(plat, 0, TimerVector)
    <3>1. 0 \in Sources /\ Granted /\ "PIT" \in mach.regions
      BY <1>14, <2>1, <2>4 DEF Routable, pit_route, Go, Granted, RegionInv
    <3>2. pc \notin Parsing \cup {"lapic"} \cup Dead
      BY <2>1 DEF Parsing, BeforeRuns, Dead
    <3>3. RoutedTo(0, TimerVector)
      BY <1>1, <2>2, <2>4, <3>1, <3>2, RouteStep
    <3>4. pc' \notin Parsing \cup {"lapic", "enable", "pit", "route"} \cup Dead
      BY <2>4 DEF Parsing, BeforeRuns, Dead
    <3>5. PICK t \in Vectors, s \in Sources : t = TimerVector /\ s = 0
      BY <2>2, <3>1
    <3> QED
      BY <1>1, <2>1, <2>2, <3>1, <3>2, <3>3, <3>4, <3>5, PinsRouted
  <2> QED
    BY <1>14, <2>2, <2>3, <2>4 DEF pit_route
<1>15. ASSUME NEW d \in Drivers, NEW v \in Vectors, driver_route(d, v) PROVE PinsInv'
  <2>1. /\ pc = "done" /\ pc' = pc /\ owner[v] = d /\ Routable(plat, Line[d])
        /\ plat' = route_isa_irq(plat, Line[d], v)
    BY <1>15 DEF driver_route, Call
  <2>2. Line[d] \in Sources /\ v \in Nat /\ d # "none"
    BY BootAssumption, Places
  <2>3. pc \notin Parsing \cup {"lapic"} \cup Dead
    BY <2>1 DEF Parsing, BeforeRuns, Dead
  <2>4. PICK s \in Sources : s = Line[d]
    BY <2>2
  <2>5. RoutedTo(s, v)
    BY <1>1, <2>1, <2>2, <2>3, <2>4, RouteStep
  <2>6. pc' \notin Parsing \cup {"lapic", "enable", "pit", "route"} \cup Dead /\ pc' \notin Starting
    BY <2>1 DEF Parsing, BeforeRuns, Dead, Starting, Warming, Measuring
  <2> QED
    BY <1>1, <2>1, <2>2, <2>3, <2>5, <2>6, PinsRouted
<1> QED
  BY <1>3, <1>4, <1>5, <1>6, <1>9, <1>10, <1>11, <1>12, <1>13, <1>14, <1>15, PlatSteps

-----------------------------------------------------------------------------
(* The local APICs *)

\* As parse_madt leaves them.
Untouched(l) == l.timer = "stopped" /\ ~l.init_done
EarlyLapics ==
  pc \in {"second_run", "third_run", "lapic"} =>
    \A c \in DOMAIN plat.lapics : plat.lapics[c] = NoLapic \/ Untouched(plat.lapics[c])

\* As lapic::init and the timer calls leave the first one.
TimerOK(l) == l.timer = "stopped" \/ Given(l.lvt["Timer"].vector)
LateLapic ==
  pc \notin Parsing \cup {"lapic"} \cup Dead => Shut(plat.lapics[0]) /\ TimerOK(plat.lapics[0])

LEMMA EarlyStep ==
  ASSUME PlatOK, EarlyLapics, [Next]_vars
  PROVE  EarlyLapics'
<1> SUFFICES ASSUME pc' \in {"second_run", "third_run", "lapic"} PROVE EarlyLapics'
  BY DEF EarlyLapics
<1>1. CASE Calm
  <2>1. plat' = plat /\ pc' = pc
    BY <1>1 DEF Calm, Dead, Off, Parsing, BeforeRuns
  <2> QED
    BY <2>1 DEF EarlyLapics
<1>2. CASE parse
  BY <1>2 DEF parse, Go
<1>3. CASE parse_next
  <2>1. PICK L : L = IF pc = "first_run" THEN NewLapics(mach.madt) ELSE plat.lapics
    OBVIOUS
  <2>2. plat' = [plat EXCEPT !.at = 1, !.lapics = L]
    BY <1>3, <2>1 DEF parse_next
  <2>3. plat'.lapics = L
    BY <2>2 DEF PlatOK, PlatFields
  <2>4. CASE pc = "first_run"
    <3>1. \A c \in DOMAIN L : L[c] = NoLapic
      BY <2>1, <2>4 DEF NewLapics
    <3> QED
      BY <2>3, <3>1 DEF EarlyLapics
  <2>5. CASE pc \in {"second_run", "third_run"}
    BY <2>1, <2>3, <2>5 DEF EarlyLapics
  <2> QED
    BY <1>3, <2>4, <2>5 DEF parse_next
<1>4. CASE parse_entry
  <2>1. PICK e : e = mach.madt[plat.at]
    OBVIOUS
  <2>2. /\ EntryOK(e) /\ pc' = pc
        /\ \/ pc = "second_run" /\ Second(e)
           \/ pc = "third_run" /\ Third(e)
    BY <1>4, <2>1, ParseEntry
  <2>3. CASE pc = "second_run" /\ Second(e)
    <3>1. PICK k : k = new_lapic(e.apic, plat.lapic_base, FirmwareLvt)
      OBVIOUS
    <3>2. /\ DOMAIN plat'.lapics = DOMAIN plat.lapics
          /\ ~k.init_done /\ k.timer = "stopped"
          /\ \A c \in DOMAIN plat.lapics : plat'.lapics[c] \in {plat.lapics[c], k}
      BY <2>2, <2>3, <3>1, SecondLapics
    <3> QED
      BY <2>3, <3>2 DEF EarlyLapics, Untouched
  <2>4. CASE pc = "third_run" /\ Third(e)
    <3>1. DOMAIN plat'.lapics = DOMAIN plat.lapics
      BY <2>2, <2>4, ThirdLapics
    <3>2. ASSUME NEW c \in DOMAIN plat.lapics
          PROVE  plat'.lapics[c] = NoLapic \/ Untouched(plat'.lapics[c])
      <4>1. \/ plat'.lapics[c] = plat.lapics[c]
            \/ /\ plat.lapics[c] # NoLapic
               /\ plat'.lapics[c] = lapic_set_nmi(plat.lapics[c], e.lint, e.trigger, e.polarity)
        BY <2>2, <2>4, ThirdLapics
      <4>2. pc \notin BeforeRuns \cup Dead
        BY <2>4 DEF BeforeRuns, Dead
      <4>3. plat.lapics[c] # NoLapic => LapicOK(plat.lapics[c]) /\ Untouched(plat.lapics[c])
        BY <2>4, <4>2 DEF PlatOK, EarlyLapics
      <4> QED
        BY <2>4, <4>1, <4>3, NmiLapic DEF Untouched, EarlyLapics
    <3> QED
      BY <3>1, <3>2 DEF EarlyLapics
  <2> QED
    BY <2>2, <2>3, <2>4
<1>5. CASE lapic_init \/ lapic_on \/ pit_route \/ calibrated \/ lapic_tick
  BY <1>5 DEF lapic_init, lapic_on, pit_route, calibrated, lapic_tick, Go
<1>6. CASE \/ \E d \in Drivers, v \in Vectors : driver_route(d, v)
           \/ \E v \in Vectors : kernel_lapic_timer(v)
  BY <1>6 DEF driver_route, kernel_lapic_timer, Call
<1> QED
  BY <1>1, <1>2, <1>3, <1>4, <1>5, <1>6, PlatSteps

LEMMA LateStep ==
  ASSUME TableInv, HeldGiven, PlatOK, EarlyLapics, LateLapic, TwoVectors, [Next]_vars
  PROVE  LateLapic'
<1> SUFFICES ASSUME pc' \notin Parsing \cup {"lapic"} \cup Dead PROVE LateLapic'
  BY DEF LateLapic
<1>1. mach' = mach /\ IdtInv
  BY PlatSteps DEF TableInv
<1>2. PICK l : l = plat.lapics[0]
  OBVIOUS
<1>3. ASSUME pc \notin Parsing \cup {"lapic"} \cup Dead, plat'.lapics[0] = l PROVE LateLapic'
  <2>1. Shut(l) /\ TimerOK(l) /\ pc # "start"
    BY <1>2, <1>3 DEF LateLapic, Parsing, BeforeRuns
  <2>2. l.timer = "stopped" \/ Given(l.lvt["Timer"].vector)'
    BY <2>1, GivenStep DEF TimerOK
  <2> QED
    BY <1>3, <2>1, <2>2 DEF LateLapic, TimerOK, Given
<1>4. CASE Calm
  <2>1. plat' = plat /\ pc \notin Parsing \cup {"lapic"} \cup Dead
    BY <1>4 DEF Calm, Dead, Off, Parsing, BeforeRuns
  <2> QED
    BY <1>2, <1>3, <2>1
<1>5. CASE parse \/ parse_next
  BY <1>5 DEF parse, parse_next, Go, Parsing, BeforeRuns, Dead
<1>6. CASE parse_entry
  BY <1>6 DEF parse_entry, Parsing, BeforeRuns, Dead
<1>7. \A x \in {"enable", "cal_check", "done", "route"} : x \notin Parsing \cup {"lapic"} \cup Dead
  BY DEF Parsing, BeforeRuns, Dead
<1>70. "lapic" \notin Parsing \cup Dead /\ "lapic" \notin BeforeRuns \cup Dead
  BY DEF Parsing, BeforeRuns, Dead
<1>8. ASSUME NEW k, LapicOK(k), OnLapic(k), pc \notin Parsing \cup Dead, Shut(k), TimerOK(k)'
      PROVE  LateLapic'
  <2>1. plat'.lapics[0] = k
    BY <1>1, <1>8, LapicStep DEF OnLapic
  <2> QED
    BY <1>8, <2>1 DEF LateLapic, TimerOK, Given
<1>9. CASE lapic_init
  <2>1. PICK k : k = lapic_map(l)
    OBVIOUS
  <2>2. LapicOK(l) /\ OnLapic(k) /\ pc = "lapic" /\ l # NoLapic
    BY <1>2, <1>9, <2>1, LapicSteps DEF lapic_init
  <2>3. LapicOK(k) /\ Shut(k) /\ k.timer = l.timer
    BY <2>1, <2>2, MapLapic
  <2>4. l.timer = "stopped"
    BY <1>2, <1>70, <2>2, ZeroThere DEF EarlyLapics, Untouched
  <2> QED
    BY <1>8, <1>70, <2>2, <2>3, <2>4 DEF TimerOK
<1>10. ASSUME NEW k, OnLapic(k), LapicOK(k), pc \in {"enable", "cal_check", "done"},
              Shut(l) => Shut(k),
              \/ k.timer = "stopped"
              \/ k.timer = l.timer /\ k.lvt["Timer"].vector = l.lvt["Timer"].vector
       PROVE  LateLapic'
  <2>1. Shut(l) /\ TimerOK(l) /\ pc # "start" /\ pc \notin Parsing \cup Dead
    BY <1>2, <1>7, <1>10 DEF LateLapic
  <2>2. l.timer = "stopped" \/ Given(l.lvt["Timer"].vector)'
    BY <2>1, GivenStep DEF TimerOK
  <2>3. TimerOK(k)'
    BY <1>10, <2>2 DEF TimerOK, Given
  <2> QED
    BY <1>8, <1>10, <2>1, <2>3
<1>11. CASE lapic_on
  <2>1. PICK k : k = lapic_enable(l, VectorHeldBy("spurious"))
    OBVIOUS
  <2>2. LapicOK(l) /\ OnLapic(k) /\ pc = "enable"
    BY <1>2, <1>11, <2>1, LapicSteps
  <2>3. LapicOK(k) /\ k.lvt = l.lvt /\ k.timer = l.timer
    BY <2>1, <2>2, EnableLapic
  <2>4. Shut(l) => Shut(k)
    BY <2>3 DEF Shut
  <2> QED
    BY <1>10, <2>2, <2>3, <2>4
<1>12. CASE calibrated
  <2>1. PICK k : k = lapic_set_mask(l, "Timer", FALSE)
    OBVIOUS
  <2>2. LapicOK(l) /\ OnLapic(k) /\ pc = "cal_check"
    BY <1>2, <1>12, <2>1, LapicSteps
  <2>3. /\ LapicOK(k) /\ k.timer = l.timer /\ (Shut(l) => Shut(k))
        /\ k.lvt["Timer"].vector = l.lvt["Timer"].vector
    BY <2>1, <2>2, MaskTimer
  <2> QED
    BY <1>10, <2>2, <2>3
<1>13. CASE lapic_tick
  <2>1. PICK k : k = Ticked(l)
    OBVIOUS
  <2>2. LapicOK(l) /\ OnLapic(k) /\ pc = "done"
    BY <1>2, <1>13, <2>1, LapicSteps
  <2>3. /\ LapicOK(k) /\ k.lvt = l.lvt /\ (k.timer = "stopped" \/ k.timer = l.timer)
    BY <2>1, <2>2, TimerKept
  <2>4. Shut(l) => Shut(k)
    BY <2>3 DEF Shut
  <2> QED
    BY <1>10, <2>2, <2>3, <2>4
<1>14. ASSUME NEW v \in Vectors, kernel_lapic_timer(v) PROVE LateLapic'
  <2>1. LapicOK(l) /\ pc = "done" /\ owner[v] \in Drivers /\ TimerCall(l, v)
    BY <1>2, <1>14, LapicSteps
  <2>2. PICK k : /\ OnLapic(k) /\ LapicOK(k) /\ (Shut(l) => Shut(k))
                 /\ k.timer = "stopped" \/ k.lvt["Timer"].vector = v
    BY <2>1, TimerCalls
  <2>3. Given(v)
    BY <2>1, BootAssumption DEF HeldGiven, Held, Given
  <2>4. Given(v)' /\ Shut(l) /\ pc \notin Parsing \cup Dead
    BY <1>2, <1>7, <2>1, <2>3, GivenStep DEF LateLapic
  <2>5. TimerOK(k)'
    BY <2>2, <2>4 DEF TimerOK, Given
  <2> QED
    BY <1>8, <2>2, <2>4, <2>5
<1>15. CASE pit_route
  <2>1. pc = "route" /\ edit = Idle /\ pc \notin Parsing \cup {"lapic"} \cup Dead
    BY <1>7, <1>15 DEF pit_route, Go
  <2>2. VectorHeldBy("pit") = TimerVector /\ TimerVector \in Nat
    BY <1>1, <2>1, TimerRouted
  <2>3. CASE plat' = plat
    BY <1>2, <1>3, <2>1, <2>3
  <2>4. CASE Routable(plat, 0) /\ plat' = route_isa_irq(plat, 0, TimerVector)
    <3>1. 0 \in Sources
      BY <2>4 DEF Routable
    <3>2. plat'.lapics = plat.lapics
      BY <1>1, <2>1, <2>2, <2>4, <3>1, RouteStep DEF RoutedTo
    <3> QED
      BY <1>2, <1>3, <2>1, <3>2
  <2> QED
    BY <1>15, <2>2, <2>3, <2>4 DEF pit_route
<1>16. ASSUME NEW d \in Drivers, NEW v \in Vectors, driver_route(d, v) PROVE LateLapic'
  <2>1. /\ pc = "done" /\ Routable(plat, Line[d]) /\ plat' = route_isa_irq(plat, Line[d], v)
        /\ pc \notin Parsing \cup {"lapic"} \cup Dead
    BY <1>7, <1>16 DEF driver_route, Call
  <2>2. PICK s \in Sources : s = Line[d]
    BY BootAssumption
  <2>3. v \in Nat
    BY Places
  <2>4. plat'.lapics = plat.lapics
    BY <1>1, <2>1, <2>2, <2>3, RouteStep DEF RoutedTo
  <2> QED
    BY <1>2, <1>3, <2>1, <2>4
<1> QED
  BY <1>4, <1>5, <1>6, <1>9, <1>11, <1>12, <1>13, <1>14, <1>15, <1>16, PlatSteps

-----------------------------------------------------------------------------
(* SourcesHandled *)

SourceInv ==
  /\ TableInv /\ HeldGiven /\ TwoVectors /\ OffInv /\ PlatOK
  /\ PinsInv /\ RegionInv /\ EarlyLapics /\ LateLapic

LEMMA SourceInit == ASSUME Init PROVE SourceInv
<1>1. TableInv
  BY TableInvInit
<1>2. pc = "start" /\ ~on /\ IdtInit /\ mach \in Machines
  BY DEF Init
<1>3. HeldGiven /\ OffInv
  BY <1>2 DEF IdtInit, HeldGiven, Held, OffInv
<1>4. TwoVectors
  <2>1. TwoNames(table) /\ TwoNames(owner)
    BY <1>2, BootAssumption DEF IdtInit, TwoNames
  <2>2. TwoStubs /\ OwnGates /\ TwoEdits
    BY <1>2 DEF IdtInit, FreeStub, TwoStubs, OwnGates, TwoEdits, Parsing, BeforeRuns
  <2> QED
    BY <2>1, <2>2 DEF TwoVectors
<1>5. /\ plat.irqs = [s \in Sources |-> Fresh(s)] /\ plat.ioapics = NewIoapics(mach.madt)
      /\ DOMAIN plat = PlatFields /\ plat.at = 1
  BY DEF Init, PlatFields
<1>6. plat.irqs \in [Sources -> Irq]
  <2>1. ASSUME NEW s \in Sources PROVE Fresh(s) \in Irq
    <3>1. s \in Byte
      BY MadtAssumption DEF Sources, Byte
    <3> QED
      BY <3>1 DEF Fresh, Irq, Modes, Levels
  <2> QED
    BY <1>5, <2>1
<1>7. /\ DOMAIN plat.ioapics = Entries(mach.madt, "ioapic")
      /\ \A i \in DOMAIN plat.ioapics :
           plat.ioapics[i] = [base |-> 0, size |-> 0, pins |-> mach.madt[i].pins]
  BY <1>5 DEF NewIoapics
<1>8. ASSUME NEW i \in DOMAIN plat.ioapics
      PROVE  /\ plat.ioapics[i] \in Ioapic(DOMAIN mach.madt[i].pins)
             /\ plat.ioapics[i].pins = mach.madt[i].pins
             /\ plat.ioapics[i].base = 0 /\ plat.ioapics[i].size = 0
  <2>1. mach.madt[i].pins \in [DOMAIN mach.madt[i].pins -> Slot]
    BY <1>2, <1>7, PinsOf
  <2>2. PICK a, D, p : a = plat.ioapics[i] /\ p = mach.madt[i].pins /\ D = DOMAIN p
    OBVIOUS
  <2>3. a = [base |-> 0, size |-> 0, pins |-> p] /\ p \in [D -> Slot]
    BY <1>7, <2>1, <2>2
  <2>4. a \in Ioapic(D) /\ a.pins = p /\ a.base = 0 /\ a.size = 0
    BY <2>3 DEF Ioapic
  <2> QED
    BY <2>2, <2>4
<1>9. PlatOK
  BY <1>2, <1>5, <1>6, <1>7, <1>8 DEF PlatOK, BeforeRuns, Parsing
<1>10. PinsInv
  BY <1>2, <1>8 DEF PinsInv, Pending, BeforeRuns
<1>11. RegionInv /\ EarlyLapics /\ LateLapic
  BY <1>2 DEF RegionInv, EarlyLapics, LateLapic, Parsing, BeforeRuns
<1> QED
  BY <1>1, <1>3, <1>4, <1>9, <1>10, <1>11 DEF SourceInv

LEMMA SourceStep == ASSUME SourceInv, [Next]_vars PROVE SourceInv'
<1>1. TableInv' /\ IdtInv
  BY TableInvNext DEF SourceInv, TableInv
<1>2. HeldGiven' /\ TwoVectors' /\ OffInv'
  BY <1>1, GivenStep, TwoVectorsStep, OffStep DEF SourceInv
<1>3. PlatOK' /\ PinsInv' /\ RegionInv'
  BY <1>1, PlatStep, PinsStep, RegionStep DEF SourceInv
<1>4. EarlyLapics' /\ LateLapic'
  BY <1>1, EarlyStep, LateStep DEF SourceInv
<1> QED
  BY <1>1, <1>2, <1>3, <1>4 DEF SourceInv

LEMMA SourcesAreHandled == ASSUME SourceInv PROVE SourcesHandled
<1> SUFFICES ASSUME on PROVE SourcesHandled
  BY DEF SourcesHandled
<1>1. pc \notin Parsing \cup {"lapic"} \cup Dead
  BY DEF SourceInv, OffInv, Off
<1>2. ASSUME NEW i \in DOMAIN plat.ioapics, NEW r \in DOMAIN plat.ioapics[i].pins
      PROVE  LET pin == plat.ioapics[i].pins[r]  firmware == mach.madt[i].pins[r]
             IN  \/ Masked(pin)
                 \/ Given(pin.vector)
                 \/ /\ pin.vector = firmware.vector /\ ~Masked(firmware)
                    /\ r + 1 \notin DOMAIN plat.ioapics[i].pins \/ "IOAPIC" \notin mach.regions
  <2>1. plat.ioapics[i] \in Ioapic(DOMAIN mach.madt[i].pins)
    BY DEF SourceInv, PlatOK
  <2>2. DOMAIN plat.ioapics[i].pins = DOMAIN mach.madt[i].pins
    BY <2>1 DEF Ioapic
  <2>3. RawPin(i, r) \/ OpenPin(i, r)
    BY <1>1, <2>2 DEF SourceInv, PinsInv, Pending, Parsing
  <2> QED
    BY <2>2, <2>3 DEF RawPin, OpenPin, Granted
<1>3. Shut(plat.lapics[0]) /\ TimerOK(plat.lapics[0])
  BY <1>1 DEF SourceInv, LateLapic
<1> QED
  BY <1>2, <1>3 DEF SourcesHandled, Shut, TimerOK

\* What is known at every moment of the descriptor table, the pins and the local APICs.
THEOREM SourceInvariant == Spec => []SourceInv
<1>1. Init => SourceInv
  BY SourceInit
<1>2. SourceInv /\ [Next]_vars => SourceInv'
  BY SourceStep
<1> QED
  BY <1>1, <1>2, PTL DEF Spec

\* Whatever the firmware left and lists, when interrupts are on every pin that lets
\* interrupts through, and the local timer, leads to a vector that the kernel gave
\* to a handler before; but for a last pin, and an IO APIC that was not mapped.
THEOREM SourcesAlwaysHandled == Spec => []SourcesHandled
<1>1. SourceInv => SourcesHandled
  BY SourcesAreHandled
<1> QED
  BY <1>1, SourceInvariant, PTL

-----------------------------------------------------------------------------
(* The platform is as the tables list it *)

Listed == {"lapic", "enable", "pit", "route"}

\* A processor with a local APIC; lapic::init stops without one for the first.
Known(c) == plat.lapics[c] # NoLapic \/ (c = 0 /\ pc \in {"enable", "pit", "route"})

\* What the steps other than those of the parser leave alone.
LEMMA ParsedStays ==
  ASSUME SourceInv, [Next]_vars, ~parse_entry, ~parse_next
  PROVE  /\ plat'.irqs = plat.irqs /\ plat'.at = plat.at /\ mach' = mach
         /\ pc' \in {"second_run", "third_run"} => pc' = pc /\ plat' = plat
         /\ pc' \in BeforeRuns => pc \in BeforeRuns
         /\ pc' \in {"start", "parse"} => pc \in {"start", "parse"}
         /\ pc' \notin Dead => pc \notin Dead
         /\ pc' \notin BeforeRuns \cup Dead => pc \notin BeforeRuns
         /\ pc' \in Listed =>
              /\ pc \in Listed /\ plat'.ioapics = plat.ioapics
              /\ DOMAIN plat'.lapics = DOMAIN plat.lapics
              /\ \A c \in DOMAIN plat.lapics :
                   Known(c)' => Known(c) /\ plat'.lapics[c].nmi = plat.lapics[c].nmi
<1> USE DEF Listed, Known
<1>1. mach' = mach /\ PlatOK /\ IdtInv /\ TwoVectors
  BY PlatSteps DEF SourceInv, TableInv
<1>2. CASE Calm
  <2>1. plat' = plat
    BY <1>2 DEF Calm
  <2>2. /\ pc' \in {"second_run", "third_run"} => pc' = pc
        /\ pc' \in BeforeRuns => pc \in BeforeRuns
        /\ pc' \in {"start", "parse"} => pc \in {"start", "parse"}
        /\ pc' \notin Dead => pc \notin Dead
        /\ pc' \notin BeforeRuns \cup Dead => pc \notin BeforeRuns
        /\ pc' \in Listed => pc \in Listed /\ (pc' = pc \/ (pc = "pit" /\ pc' = "route"))
    BY <1>2 DEF Calm, BeforeRuns, Off, Parsing, Dead
  <2> QED
    BY <1>1, <2>1, <2>2
<1>3. CASE parse
  <2>1. PICK x : plat' = [plat EXCEPT !.pic = x]
    BY <1>3 DEF parse
  <2>2. plat'.irqs = plat.irqs /\ plat'.at = plat.at
    BY <1>1, <2>1 DEF PlatOK, PlatFields
  <2>3. pc = "parse" /\ pc' \in {"panic", "first_run"}
    BY <1>3 DEF parse, Go
  <2> QED
    BY <1>1, <2>2, <2>3 DEF BeforeRuns, Dead
<1>4. PICK l : l = plat.lapics[0]
  OBVIOUS
<1>5. ASSUME NEW k, LapicOK(k), OnLapic(k), k.nmi = l.nmi \/ pc' = "done",
             \/ pc = "lapic" /\ pc' = "enable" /\ l # NoLapic
             \/ pc = "enable" /\ pc' = "pit"
             \/ pc \in {"cal_check", "done"} /\ pc' = "done"
      PROVE  /\ plat'.irqs = plat.irqs /\ plat'.at = plat.at
             /\ plat'.ioapics = plat.ioapics /\ DOMAIN plat'.lapics = DOMAIN plat.lapics
             /\ plat'.lapics[0] = k
             /\ \A c \in DOMAIN plat.lapics : c # 0 => plat'.lapics[c] = plat.lapics[c]
  <2>1. pc \notin Parsing \cup Dead
    BY <1>5 DEF Parsing, BeforeRuns, Dead
  <2> QED
    BY <1>1, <1>5, <2>1, LapicStep DEF OnLapic
<1>6. CASE lapic_init
  <2>1. PICK k : k = lapic_map(l)
    OBVIOUS
  <2>2. LapicOK(l) /\ OnLapic(k) /\ pc = "lapic" /\ pc' = "enable" /\ l # NoLapic
    BY <1>1, <1>4, <1>6, <2>1, LapicSteps DEF lapic_init
  <2>3. LapicOK(k) /\ k.nmi = l.nmi
    BY <2>1, <2>2, MapLapic
  <2> QED
    BY <1>1, <1>4, <1>5, <2>2, <2>3 DEF BeforeRuns, Dead
<1>7. CASE lapic_on
  <2>1. PICK k : k = lapic_enable(l, VectorHeldBy("spurious"))
    OBVIOUS
  <2>2. LapicOK(l) /\ OnLapic(k) /\ pc = "enable" /\ pc' = "pit"
    BY <1>1, <1>4, <1>7, <2>1, LapicSteps
  <2>3. LapicOK(k) /\ k.nmi = l.nmi
    BY <2>1, <2>2, EnableLapic
  <2> QED
    BY <1>1, <1>4, <1>5, <2>2, <2>3 DEF BeforeRuns, Dead
<1>8. ASSUME NEW k, LapicOK(k), OnLapic(k), pc \in {"cal_check", "done"}, pc' = "done"
      PROVE  plat'.irqs = plat.irqs /\ plat'.at = plat.at
  BY <1>5, <1>8
<1>9. CASE calibrated
  <2>1. LapicOK(l) /\ OnLapic(lapic_set_mask(l, "Timer", FALSE)) /\ pc = "cal_check" /\ pc' = "done"
    BY <1>1, <1>4, <1>9, LapicSteps
  <2>2. LapicOK(lapic_set_mask(l, "Timer", FALSE))
    BY <2>1, MaskTimer
  <2> QED
    BY <1>1, <1>8, <2>1, <2>2 DEF BeforeRuns, Dead
<1>10. CASE lapic_tick
  <2>1. LapicOK(l) /\ OnLapic(Ticked(l)) /\ pc = "done" /\ pc' = "done"
    BY <1>1, <1>4, <1>10, LapicSteps
  <2> QED
    BY <1>1, <1>8, <2>1, TimerKept DEF BeforeRuns, Dead
<1>11. CASE \E v \in Vectors : kernel_lapic_timer(v)
  <2>1. PICK v \in Vectors : kernel_lapic_timer(v)
    BY <1>11
  <2>2. LapicOK(l) /\ pc = "done" /\ pc' = "done" /\ TimerCall(l, v)
    BY <1>1, <1>4, <2>1, LapicSteps
  <2>3. PICK k : OnLapic(k) /\ LapicOK(k)
    BY <2>2, TimerCalls
  <2> QED
    BY <1>1, <1>8, <2>2, <2>3 DEF BeforeRuns, Dead
<1>12. CASE pit_route
  <2>1. pc = "route" /\ edit = Idle /\ pc' \in {"warm", "fault"}
    BY <1>12 DEF pit_route, Go
  <2>2. VectorHeldBy("pit") = TimerVector /\ TimerVector \in Nat
    BY <1>1, <2>1, TimerRouted
  <2>3. plat'.irqs = plat.irqs /\ plat'.at = plat.at
    <3>1. CASE plat' = plat
      BY <3>1
    <3>2. CASE Routable(plat, 0) /\ plat' = route_isa_irq(plat, 0, TimerVector)
      <4>1. 0 \in Sources /\ pc \notin Parsing \cup {"lapic"} \cup Dead
        BY <2>1, <3>2 DEF Routable, Parsing, BeforeRuns, Dead
      <4> QED
        BY <1>1, <2>2, <3>2, <4>1, RouteStep DEF RoutedTo
    <3> QED
      BY <1>12, <2>2, <3>1, <3>2 DEF pit_route
  <2> QED
    BY <1>1, <2>1, <2>3 DEF BeforeRuns, Dead
<1>13. CASE \E d \in Drivers, v \in Vectors : driver_route(d, v)
  <2>1. PICK d \in Drivers, v \in Vectors : driver_route(d, v)
    BY <1>13
  <2>2. /\ pc = "done" /\ pc' = pc /\ Routable(plat, Line[d])
        /\ plat' = route_isa_irq(plat, Line[d], v)
    BY <2>1 DEF driver_route, Call
  <2>3. PICK s \in Sources : s = Line[d]
    BY BootAssumption
  <2>4. v \in Nat /\ pc \notin Parsing \cup {"lapic"} \cup Dead
    BY <2>2, Places DEF Parsing, BeforeRuns, Dead
  <2>5. plat'.irqs = plat.irqs /\ plat'.at = plat.at
    BY <1>1, <2>2, <2>3, <2>4, RouteStep DEF RoutedTo
  <2> QED
    BY <1>1, <2>2, <2>5 DEF BeforeRuns, Dead
<1> QED
  BY <1>2, <1>3, <1>6, <1>7, <1>9, <1>10, <1>11, <1>12, <1>13, PlatSteps

\* What the last of some entries says: of a source, and of the NMI of a processor.
TargetBy(s, J) == IF LastOf(J) = 0 THEN s ELSE mach.madt[LastOf(J)].global
LintBy(J) == IF LastOf(J) = 0 THEN 255 ELSE mach.madt[LastOf(J)].lint

OverridesOf(s) == {j \in Entries(mach.madt, "override") : mach.madt[j].source = s}
Naming(c) == {j \in Entries(mach.madt, "lapicnmi") :
                mach.madt[j].processor \in {255, c + core_base(mach.madt)}}

TargetInv ==
  /\ pc \in {"start", "parse"} => plat.at = 1
  /\ pc \notin Dead => \A s \in Sources :
       plat.irqs[s].target = TargetBy(s, IF pc \in BeforeRuns THEN Below(OverridesOf(s), plat.at)
                                         ELSE OverridesOf(s))

LEMMA AllBelow ==
  ASSUME NEW m \in Machines, NEW J, J \subseteq DOMAIN m.madt, m.madt # NoTable,
         NEW k \in Nat \ {0}, k \notin DOMAIN m.madt
  PROVE  Below(J, k) = J
<1>1. Len(m.madt) \in Nat /\ DOMAIN m.madt = 1 .. Len(m.madt)
  BY TableFacts
<1>2. \A j \in J : j < k
  BY <1>1
<1> QED
  BY <1>2 DEF Below

LEMMA TargetStep ==
  ASSUME SourceInv, TargetInv, [Next]_vars
  PROVE  TargetInv'
<1>1. mach' = mach /\ PlatOK /\ mach \in Machines /\ plat.at \in Nat \ {0}
  BY PlatSteps DEF SourceInv, PlatOK
<1>2. \A s : /\ OverridesOf(s)' = OverridesOf(s) /\ \A J : TargetBy(s, J)' = TargetBy(s, J)
  BY <1>1 DEF OverridesOf, TargetBy
<1>3. CASE ~parse_entry /\ ~parse_next
  <2>1. /\ plat'.irqs = plat.irqs /\ plat'.at = plat.at
        /\ pc' \in BeforeRuns => pc \in BeforeRuns
        /\ pc' \in {"start", "parse"} => pc \in {"start", "parse"}
        /\ pc' \notin Dead => pc \notin Dead
        /\ pc' \notin BeforeRuns \cup Dead => pc \notin BeforeRuns
    BY <1>3, ParsedStays
  <2> QED
    BY <1>2, <2>1 DEF TargetInv
<1>4. CASE parse_next
  <2>1. pc \in {"first_run", "second_run", "third_run"} /\ plat.at \notin DOMAIN mach.madt
        /\ pc' \in {"second_run", "third_run", "lapic"} \cup Dead
    BY <1>4 DEF parse_next, Go, Dead
  <2>2. PICK L : plat' = [plat EXCEPT !.at = 1, !.lapics = L]
    BY <1>4 DEF parse_next
  <2>3. plat'.irqs = plat.irqs
    BY <1>1, <2>2 DEF PlatOK, PlatFields
  <2>4. mach.madt # NoTable
    BY <1>1, <2>1 DEF PlatOK, Dead
  <2>5. \A s \in Sources : OverridesOf(s) \subseteq DOMAIN mach.madt
    BY <1>1, EntriesIn DEF OverridesOf
  <2>6. \A s \in Sources : Below(OverridesOf(s), plat.at) = OverridesOf(s)
    BY <1>1, <2>1, <2>4, <2>5, AllBelow
  <2>7. pc \notin Dead
    BY <2>1 DEF Dead
  <2>8. pc' \notin BeforeRuns \cup {"start", "parse"}
    BY <2>1 DEF BeforeRuns, Dead
  <2> QED
    BY <1>2, <2>3, <2>6, <2>7, <2>8 DEF TargetInv
<1>5. CASE parse_entry
  <2>1. PICK e : e = mach.madt[plat.at]
    OBVIOUS
  <2>2. /\ mach.madt # NoTable /\ plat.at \in DOMAIN mach.madt /\ EntryOK(e)
        /\ \/ pc' = "fault" /\ plat' = plat
           \/ /\ pc' = pc /\ plat'.at = plat.at + 1
              /\ \/ pc = "first_run" /\ First(e)
                 \/ pc = "second_run" /\ Second(e)
                 \/ pc = "third_run" /\ Third(e)
    BY <1>1, <1>5, <2>1, ParseEntry
  <2>3. CASE pc' = "fault"
    BY <2>3 DEF TargetInv, Dead
  <2>4. CASE \/ pc' = pc /\ pc = "second_run" /\ Second(e)
             \/ pc' = pc /\ pc = "third_run" /\ Third(e)
    <3>1. \A s \in Sources : plat'.irqs[s].target = plat.irqs[s].target
      BY <1>1, <2>2, <2>4, ThirdIoapics DEF Second
    <3>2. pc \notin Dead /\ pc \notin BeforeRuns \cup {"start", "parse"}
      BY <2>4 DEF Dead, BeforeRuns
    <3> QED
      BY <1>2, <2>4, <3>1, <3>2 DEF TargetInv
  <2>5. CASE pc' = pc /\ plat'.at = plat.at + 1 /\ pc = "first_run" /\ First(e)
    <3>1. ASSUME NEW s \in Sources
          PROVE  plat'.irqs[s].target = TargetBy(s, Below(OverridesOf(s), plat.at + 1))
      <4>1. PICK J : J = OverridesOf(s)
        OBVIOUS
      <4>2. J \in SUBSET (Nat \ {0})
        BY <1>1, <4>1, EntriesIn DEF OverridesOf
      <4>3. plat.at \in J <=> e.type = "override" /\ e.source = s
        BY <2>1, <2>2, <4>1 DEF OverridesOf, Entries
      <4>4. plat.irqs[s].target = TargetBy(s, Below(J, plat.at))
        BY <2>5, <4>1 DEF TargetInv, BeforeRuns, Dead
      <4>5. CASE plat.at \in J
        <5>1. LastOf(Below(J, plat.at + 1)) = plat.at
          BY <1>1, <4>2, <4>5, LastBelow
        <5>2. TargetBy(s, Below(J, plat.at + 1)) = e.global
          BY <1>1, <2>1, <5>1 DEF TargetBy
        <5>3. plat'.irqs = [plat.irqs EXCEPT ![s] = [target |-> e.global, trigger |-> e.trigger,
                                                     polarity |-> e.polarity]]
          BY <2>5, <4>3, <4>5 DEF First, Override
        <5>4. plat'.irqs[s].target = e.global
          BY <1>1, <5>3 DEF PlatOK
        <5> QED
          BY <4>1, <5>2, <5>4
      <4>6. CASE plat.at \notin J
        <5>1. Below(J, plat.at + 1) = Below(J, plat.at)
          BY <1>1, <4>2, <4>6, LastBelow
        <5>2. plat'.irqs[s] = plat.irqs[s]
          BY <1>1, <2>5, <4>3, <4>6 DEF First, Override, PlatOK
        <5> QED
          BY <4>1, <4>4, <5>1, <5>2
      <4> QED
        BY <4>5, <4>6
    <3>2. pc' \in BeforeRuns /\ pc' \notin {"start", "parse"}
      BY <2>5 DEF BeforeRuns
    <3> QED
      BY <1>2, <2>5, <3>1, <3>2 DEF TargetInv
  <2> QED
    BY <2>2, <2>3, <2>4, <2>5
<1> QED
  BY <1>3, <1>4, <1>5

LintInv ==
  \A c \in DOMAIN plat.lapics : Known(c) =>
    /\ pc = "second_run" => plat.lapics[c].nmi = 255
    /\ pc = "third_run" => plat.lapics[c].nmi = LintBy(Below(Naming(c), plat.at))
    /\ pc \in Listed => plat.lapics[c].nmi = LintBy(Naming(c))

LEMMA LintStep ==
  ASSUME SourceInv, LintInv, [Next]_vars
  PROVE  LintInv'
<1>1. /\ mach' = mach /\ PlatOK /\ mach \in Machines /\ plat.at \in Nat \ {0}
      /\ EarlyLapics
  BY PlatSteps DEF SourceInv, PlatOK
<1>2. \A c : Naming(c)' = Naming(c) /\ \A J : LintBy(J)' = LintBy(J)
  BY <1>1 DEF Naming, LintBy
<1>3. \A c : Naming(c) \in SUBSET (Nat \ {0}) /\ Naming(c) \subseteq DOMAIN mach.madt
  BY <1>1, EntriesIn DEF Naming
<1>4. CASE ~parse_entry /\ ~parse_next
  <2>1. /\ pc' \in {"second_run", "third_run"} => pc' = pc /\ plat' = plat
        /\ pc' \in Listed =>
              /\ pc \in Listed /\ DOMAIN plat'.lapics = DOMAIN plat.lapics
              /\ \A c \in DOMAIN plat.lapics :
                   Known(c)' => Known(c) /\ plat'.lapics[c].nmi = plat.lapics[c].nmi
    BY <1>4, ParsedStays
  <2>2. CASE pc' \in {"second_run", "third_run"}
    BY <1>2, <2>1, <2>2 DEF LintInv, Known, Listed
  <2>3. CASE pc' \in Listed
    BY <1>2, <2>1, <2>3 DEF LintInv, Listed
  <2> QED
    BY <2>2, <2>3 DEF LintInv
<1>5. CASE parse_next
  <2>1. PICK L : L = IF pc = "first_run" THEN NewLapics(mach.madt) ELSE plat.lapics
    OBVIOUS
  <2>2. plat' = [plat EXCEPT !.at = 1, !.lapics = L]
    BY <1>5, <2>1 DEF parse_next
  <2>3. plat'.lapics = L /\ plat'.at = 1
    BY <1>1, <2>2 DEF PlatOK, PlatFields
  <2>4. CASE pc = "first_run"
    <3>1. pc' \in {"second_run", "panic"} /\ \A c \in DOMAIN L : L[c] = NoLapic
      BY <1>5, <2>1, <2>4 DEF parse_next, Go, NewLapics
    <3>2. \A c \in DOMAIN plat'.lapics : ~Known(c)'
      BY <2>3, <3>1 DEF Known
    <3> QED
      BY <3>2 DEF LintInv
  <2>5. CASE pc = "second_run"
    <3>1. pc' = "third_run" /\ L = plat.lapics
      BY <1>5, <2>1, <2>5 DEF parse_next, Go
    <3>2. \A c : LastOf(Below(Naming(c), 1)) = 0
      BY <1>3, LastBelow
    <3>3. \A c \in DOMAIN plat'.lapics : Known(c)' => plat'.lapics[c].nmi = 255
      BY <2>3, <2>5, <3>1 DEF LintInv, Known
    <3> QED
      BY <1>2, <2>3, <3>1, <3>2, <3>3 DEF LintInv, LintBy, Listed
  <2>6. CASE pc = "third_run"
    <3>1. pc' = "lapic" /\ L = plat.lapics /\ plat.at \notin DOMAIN mach.madt
      BY <1>5, <2>1, <2>6 DEF parse_next, Go
    <3>2. mach.madt # NoTable
      BY <1>1, <2>6 DEF PlatOK, Dead
    <3>3. \A c : Below(Naming(c), plat.at) = Naming(c)
      BY <1>1, <1>3, <3>1, <3>2, AllBelow
    <3>4. \A c \in DOMAIN plat'.lapics : Known(c)' => plat'.lapics[c].nmi = LintBy(Naming(c))
      BY <2>3, <2>6, <3>1, <3>3 DEF LintInv, Known
    <3> QED
      BY <1>2, <3>1, <3>4 DEF LintInv
  <2> QED
    BY <1>5, <2>4, <2>5, <2>6 DEF parse_next
<1>6. CASE parse_entry
  <2>1. PICK e : e = mach.madt[plat.at]
    OBVIOUS
  <2>2. /\ mach.madt # NoTable /\ plat.at \in DOMAIN mach.madt /\ EntryOK(e)
        /\ \/ pc' = "fault" /\ plat' = plat
           \/ /\ pc' = pc /\ plat'.at = plat.at + 1
              /\ \/ pc = "first_run" /\ First(e)
                 \/ pc = "second_run" /\ Second(e)
                 \/ pc = "third_run" /\ Third(e)
    BY <1>1, <1>6, <2>1, ParseEntry
  <2>3. CASE pc' \in {"fault", "first_run"}
    BY <2>3 DEF LintInv, Listed
  <2>4. CASE pc' = pc /\ pc = "second_run" /\ Second(e)
    <3>1. PICK k : k = new_lapic(e.apic, plat.lapic_base, FirmwareLvt)
      OBVIOUS
    <3>2. /\ DOMAIN plat'.lapics = DOMAIN plat.lapics /\ k.nmi = 255
          /\ \A c \in DOMAIN plat.lapics : plat'.lapics[c] \in {plat.lapics[c], k}
      BY <1>1, <2>2, <2>4, <3>1, SecondLapics
    <3>3. \A c \in DOMAIN plat.lapics : Known(c)' => plat'.lapics[c].nmi = 255
      BY <2>4, <3>2 DEF LintInv, Known
    <3> QED
      BY <2>4, <3>2, <3>3 DEF LintInv, Listed
  <2>5. CASE pc' = pc /\ plat'.at = plat.at + 1 /\ pc = "third_run" /\ Third(e)
    <3>1. DOMAIN plat'.lapics = DOMAIN plat.lapics
      BY <1>1, <2>2, <2>5, ThirdLapics
    <3>2. pc \notin BeforeRuns \cup Dead
      BY <2>5 DEF BeforeRuns, Dead
    <3>3. ASSUME NEW c \in DOMAIN plat.lapics, Known(c)'
          PROVE  plat'.lapics[c].nmi = LintBy(Below(Naming(c), plat.at + 1))
      <4>1. plat'.lapics[c] = IF /\ e.type = "lapicnmi" /\ c \in Named(mach.madt, e)
                                 /\ plat.lapics[c] # NoLapic
                              THEN lapic_set_nmi(plat.lapics[c], e.lint, e.trigger, e.polarity)
                              ELSE plat.lapics[c]
        BY <1>1, <2>2, <2>5, ThirdLapics
      <4>2. plat.lapics[c] # NoLapic
        BY <2>5, <3>3, <4>1 DEF Known
      <4>3. LapicOK(plat.lapics[c]) /\ ~plat.lapics[c].init_done
        BY <1>1, <2>5, <3>2, <4>2 DEF PlatOK, EarlyLapics, Untouched
      <4>4. plat.lapics[c].nmi = LintBy(Below(Naming(c), plat.at))
        BY <2>5, <4>2 DEF LintInv, Known
      <4>5. (e.type = "lapicnmi" /\ c \in Named(mach.madt, e)) <=> plat.at \in Naming(c)
        <5>1. plat.at \in Naming(c) <=>
                e.type = "lapicnmi" /\ e.processor \in {255, c + core_base(mach.madt)}
          BY <2>1, <2>2 DEF Naming, Entries
        <5>20. /\ DOMAIN plat.lapics = 0 .. core_count(mach.madt) - 1
               /\ core_base(mach.madt) \in Byte /\ core_count(mach.madt) \in Nat
          BY <1>1, <3>2, Cores DEF PlatOK
        <5>30. e.type = "lapicnmi" => e.processor \in Byte
          BY <2>2, EntryFields
        <5>21. \A x \in Byte : x \in Nat
          BY DEF Byte
        <5>2. core_base(mach.madt) \in Nat
          BY <5>20, <5>21
        <5>3. e.type = "lapicnmi" => e.processor \in Nat
          BY <5>30 DEF Byte
        <5>4. PICK n \in Nat, b \in Nat : n = core_count(mach.madt) /\ b = core_base(mach.madt)
          BY <5>2, <5>20
        <5>5. c \in Nat /\ c \in 0 .. n - 1
          BY <5>4, <5>20
        <5>6. ASSUME e.type = "lapicnmi"
              PROVE  c \in Named(mach.madt, e) <=> e.processor \in {255, c + b}
          <6>1. PICK p \in Nat : p = e.processor
            BY <5>3, <5>6
          <6>2. Named(mach.madt, e) = IF p = 255 THEN 0 .. n - 1 ELSE {p - b} \cap 0 .. n - 1
            BY <5>4, <6>1 DEF Named
          <6>3. c \in Named(mach.madt, e) <=> (p = 255 \/ c = p - b)
            BY <5>5, <6>2
          <6> QED
            BY <5>5, <6>1, <6>3
        <5> QED
          BY <5>1, <5>4, <5>6
      <4>6. CASE plat.at \in Naming(c)
        <5>1. LastOf(Below(Naming(c), plat.at + 1)) = plat.at
          BY <1>1, <1>3, <4>6, LastBelow
        <5>2. LintBy(Below(Naming(c), plat.at + 1)) = e.lint
          BY <1>1, <2>1, <5>1 DEF LintBy
        <5>3. plat'.lapics[c] = lapic_set_nmi(plat.lapics[c], e.lint, e.trigger, e.polarity)
          BY <4>1, <4>2, <4>5, <4>6
        <5>4. plat'.lapics[c].nmi = e.lint
          BY <4>3, <5>3, NmiLapic
        <5> QED
          BY <5>2, <5>4
      <4>7. CASE plat.at \notin Naming(c)
        <5>1. Below(Naming(c), plat.at + 1) = Below(Naming(c), plat.at)
          BY <1>1, <1>3, <4>7, LastBelow
        <5> QED
          BY <4>1, <4>4, <4>5, <4>7, <5>1
      <4> QED
        BY <4>6, <4>7
    <3> QED
      BY <1>2, <2>5, <3>1, <3>3 DEF LintInv, Listed
  <2> QED
    BY <2>2, <2>3, <2>4, <2>5
<1> QED
  BY <1>4, <1>5, <1>6

\* The IO APIC that serves an interrupt depends on the bases and sizes only.
LEMMA SameServing ==
  ASSUME NEW f, NEW h, DOMAIN f = DOMAIN h, NEW g,
         \A i \in DOMAIN f : f[i].base = h[i].base /\ f[i].size = h[i].size
  PROVE  FirstServing(f, g) = FirstServing(h, g)
<1>1. \A i \in DOMAIN f : Serves(f[i], g) <=> Serves(h[i], g)
  BY DEF Serves, start, range
<1>2. {i \in DOMAIN f : Serves(f[i], g)} = {i \in DOMAIN h : Serves(h[i], g)}
  BY <1>1
<1> QED
  BY <1>2 DEF FirstServing

\* An entry for an NMI that core::set_nmi has dealt with.
NmiSet(j) ==
  LET t == plat.irqs[mach.madt[j].global].target
      i == FirstServing(plat.ioapics, t)
  IN  /\ i # 0 /\ t \in DOMAIN mach.madt[i].pins => NMI \subseteq plat.ioapics[i].pins[t].bits
      /\ ~Granted => t # 0

NmiInv ==
  \A j \in Entries(mach.madt, "nmi") : mach.madt[j].global \in Sources =>
    /\ pc = "third_run" /\ j < plat.at => NmiSet(j)
    /\ pc \in Listed => NmiSet(j)

LEMMA NmiStep ==
  ASSUME SourceInv, NmiInv, [Next]_vars
  PROVE  NmiInv'
<1>1. /\ mach' = mach /\ PlatOK /\ mach \in Machines /\ plat.at \in Nat \ {0}
      /\ Granted' = Granted
  BY PlatSteps DEF SourceInv, PlatOK, Granted
<1>2. CASE ~parse_entry /\ ~parse_next
  <2>1. /\ plat'.irqs = plat.irqs /\ plat'.at = plat.at
        /\ pc' \in {"second_run", "third_run"} => pc' = pc /\ plat' = plat
        /\ pc' \in Listed => pc \in Listed /\ plat'.ioapics = plat.ioapics
    BY <1>2, ParsedStays
  <2>2. CASE pc' \in {"third_run"} \cup Listed
    <3>1. \A j : NmiSet(j)' = NmiSet(j)
      BY <1>1, <2>1, <2>2 DEF NmiSet
    <3> QED
      BY <1>1, <2>1, <2>2, <3>1 DEF NmiInv, Listed
  <2> QED
    BY <2>2 DEF NmiInv
<1>3. CASE parse_next
  <2>1. PICK L : plat' = [plat EXCEPT !.at = 1, !.lapics = L]
    BY <1>3 DEF parse_next
  <2>2. plat'.ioapics = plat.ioapics /\ plat'.irqs = plat.irqs /\ plat'.at = 1
    BY <1>1, <2>1 DEF PlatOK, PlatFields
  <2>3. CASE pc = "third_run"
    <3>1. pc' = "lapic" /\ plat.at \notin DOMAIN mach.madt
      BY <1>3, <2>3 DEF parse_next, Go
    <3>2. mach.madt # NoTable
      BY <1>1, <2>3 DEF PlatOK, Dead
    <3>3. Entries(mach.madt, "nmi") \subseteq DOMAIN mach.madt
      BY <1>1, EntriesIn
    <3>4. Below(Entries(mach.madt, "nmi"), plat.at) = Entries(mach.madt, "nmi")
      BY <1>1, <3>1, <3>2, <3>3, AllBelow
    <3>5. \A j \in Entries(mach.madt, "nmi") : j < plat.at
      BY <3>4 DEF Below
    <3>6. \A j : NmiSet(j)' = NmiSet(j)
      BY <1>1, <2>2 DEF NmiSet
    <3> QED
      BY <1>1, <2>3, <3>1, <3>5, <3>6 DEF NmiInv
  <2>4. CASE pc = "second_run"
    <3>1. pc' = "third_run"
      BY <1>3, <2>4 DEF parse_next, Go
    <3>20. Entries(mach.madt, "nmi") \subseteq Nat \ {0}
      BY <1>1, EntriesIn
    <3>2. \A j \in Entries(mach.madt, "nmi") : ~(j < 1)
      BY <3>20
    <3> QED
      BY <1>1, <2>2, <3>1, <3>2 DEF NmiInv, Listed
  <2>5. CASE pc = "first_run"
    <3>1. pc' \in {"panic", "second_run"}
      BY <1>3, <2>5 DEF parse_next, Go
    <3> QED
      BY <3>1 DEF NmiInv, Listed
  <2> QED
    BY <1>3, <2>3, <2>4, <2>5 DEF parse_next
<1>4. CASE parse_entry
  <2>1. PICK e : e = mach.madt[plat.at]
    OBVIOUS
  <2>2. /\ mach.madt # NoTable /\ plat.at \in DOMAIN mach.madt /\ EntryOK(e)
        /\ \/ pc' = "fault" /\ plat' = plat
           \/ /\ pc' = pc /\ plat'.at = plat.at + 1
              /\ \/ pc = "first_run" /\ First(e)
                 \/ pc = "second_run" /\ Second(e)
                 \/ pc = "third_run" /\ Third(e)
    BY <1>1, <1>4, <2>1, ParseEntry
  <2>3. CASE pc' \notin {"third_run"}
    <3>1. pc' \notin {"third_run"} \cup Listed
      BY <2>2, <2>3 DEF Listed
    <3> QED
      BY <3>1 DEF NmiInv
  <2>4. CASE pc' = pc /\ plat'.at = plat.at + 1 /\ pc = "third_run" /\ Third(e)
    <3>1. /\ DOMAIN plat'.ioapics = DOMAIN plat.ioapics
          /\ \A i \in DOMAIN plat.ioapics : Kept(i)
          /\ \A s \in Sources : plat'.irqs[s].target = plat.irqs[s].target
          /\ e.type = "nmi" /\ NmiAt(e) # 0 =>
               /\ NmiAt(e) \in DOMAIN plat.ioapics
               /\ plat.irqs[e.global].target \in DOMAIN mach.madt[NmiAt(e)].pins =>
                    NMI \subseteq plat'.ioapics[NmiAt(e)].pins[plat.irqs[e.global].target].bits
      BY <1>1, <2>2, <2>4, ThirdIoapics
    <3>2. \A g : FirstServing(plat'.ioapics, g) = FirstServing(plat.ioapics, g)
      BY <3>1, SameServing DEF Kept
    <3>3. ASSUME NEW j \in Entries(mach.madt, "nmi"), mach.madt[j].global \in Sources,
                 j < plat.at + 1
          PROVE  NmiSet(j)'
      <4>1. PICK t, i : /\ t = plat.irqs[mach.madt[j].global].target
                        /\ i = FirstServing(plat.ioapics, t)
        OBVIOUS
      <4>2. /\ plat'.irqs[mach.madt[j].global].target = t
            /\ FirstServing(plat'.ioapics, t) = i
        BY <3>1, <3>2, <3>3, <4>1
      <4>3. SUFFICES /\ i # 0 /\ t \in DOMAIN mach.madt[i].pins =>
                          NMI \subseteq plat'.ioapics[i].pins[t].bits
                     /\ ~Granted => t # 0
        BY <1>1, <4>2 DEF NmiSet
      <4>4. CASE j < plat.at
        <5>1. NmiSet(j)
          BY <2>4, <3>3, <4>4 DEF NmiInv
        <5>2. /\ i # 0 /\ t \in DOMAIN mach.madt[i].pins =>
                   NMI \subseteq plat.ioapics[i].pins[t].bits
              /\ ~Granted => t # 0
          BY <4>1, <5>1 DEF NmiSet
        <5>3. DOMAIN plat.ioapics \in SUBSET (Nat \ {0})
          BY <1>1, EntriesIn DEF PlatOK
        <5>4. i = 0 \/ i \in DOMAIN plat.ioapics
          BY <4>1, <5>3, Serving
        <5> QED
          BY <3>1, <5>2, <5>4 DEF Kept
      <4>5. CASE j = plat.at
        <5>1. e.type = "nmi" /\ e = mach.madt[j] /\ e.global \in Sources
          BY <2>1, <3>3, <4>5 DEF Entries
        <5>2. NmiAt(e) = i
          BY <4>1, <5>1 DEF NmiAt
        <5>3. ~Granted => t # 0
          BY <2>4, <4>1, <5>1 DEF Third, third_run_faults
        <5> QED
          BY <3>1, <4>1, <5>1, <5>2, <5>3
      <4>6. j \in Nat
        BY <1>1, EntriesIn
      <4> QED
        BY <1>1, <3>3, <4>4, <4>5, <4>6
    <3> QED
      BY <1>1, <2>4, <3>3 DEF NmiInv, Listed
  <2> QED
    BY <2>2, <2>3, <2>4
<1> QED
  BY <1>2, <1>3, <1>4

ListInv == SourceInv /\ TargetInv /\ LintInv /\ NmiInv

LEMMA ListInit == ASSUME Init PROVE ListInv
<1>1. SourceInv /\ pc = "start" /\ plat.at = 1 /\ plat.irqs = [s \in Sources |-> Fresh(s)]
  BY SourceInit DEF Init
<1>2. LintInv /\ NmiInv
  BY <1>1 DEF LintInv, NmiInv, Listed
<1>3. mach \in Machines
  BY <1>1 DEF SourceInv, PlatOK
<1>4. ASSUME NEW s \in Sources
      PROVE  plat.irqs[s].target = TargetBy(s, Below(OverridesOf(s), 1))
  <2>1. OverridesOf(s) \in SUBSET (Nat \ {0})
    BY <1>3, EntriesIn DEF OverridesOf
  <2>2. LastOf(Below(OverridesOf(s), 1)) = 0
    BY <2>1, LastBelow
  <2> QED
    BY <1>1, <2>2 DEF TargetBy, Fresh
<1>5. TargetInv
  BY <1>1, <1>4 DEF TargetInv, BeforeRuns
<1> QED
  BY <1>1, <1>2, <1>5 DEF ListInv

LEMMA ListStep == ASSUME ListInv, [Next]_vars PROVE ListInv'
<1>1. SourceInv'
  BY SourceStep DEF ListInv
<1>2. TargetInv' /\ LintInv' /\ NmiInv'
  BY TargetStep, LintStep, NmiStep DEF ListInv
<1> QED
  BY <1>1, <1>2 DEF ListInv

LEMMA LastIn ==
  ASSUME NEW m \in Machines, NEW type, NEW J, J \subseteq Entries(m.madt, type), LastOf(J) # 0
  PROVE  LastOf(J) \in J
<1>1. CASE J = {}
  <2>1. LastOf(J) = 0
    BY <1>1 DEF LastOf, Max
  <2> QED
    BY <2>1
<1>2. CASE J # {}
  <2>1. m.madt # NoTable /\ \A i \in J : i \in 1 .. Len(m.madt)
    BY <1>2, EntriesIn
  <2>2. Len(m.madt) \in Nat
    BY <2>1, TableFacts
  <2>3. PICK n \in Nat : n = Len(m.madt)
    BY <2>2
  <2>4. {0} \cup J \in SUBSET (0 .. n)
    BY <2>1, <2>3
  <2>5. Max({0} \cup J) \in {0} \cup J
    BY <2>4, MaxIn
  <2> QED
    BY <2>5 DEF LastOf
<1> QED
  BY <1>1, <1>2

\* An IO APIC that has a pin for an interrupt.
LEMMA WireIn ==
  ASSUME NEW m \in Machines, NEW g \in Lines, Wires[m][g] # 0
  PROVE  /\ Wires[m][g] \in Entries(m.madt, "ioapic")
         /\ g - m.madt[Wires[m][g]].base \in DOMAIN m.madt[Wires[m][g]].pins
<1>1. PICK I : I = {i \in Entries(m.madt, "ioapic") : g - m.madt[i].base \in DOMAIN m.madt[i].pins}
  OBVIOUS
<1>2. Wires[m][g] = LastOf(I)
  BY <1>1 DEF Wires
<1>3. I \subseteq Entries(m.madt, "ioapic")
  BY <1>1
<1>4. LastOf(I) \in I
  BY <1>2, <1>3, LastIn
<1> QED
  BY <1>1, <1>2, <1>4

LEMMA PlatformListed == ASSUME ListInv PROVE PlatformAsListed
<1> SUFFICES ASSUME pc \in Listed PROVE PlatformAsListed
  BY DEF PlatformAsListed, Listed
<1>1. SourceInv /\ TargetInv /\ LintInv /\ NmiInv /\ PlatOK /\ PinsInv /\ mach \in Machines
  BY DEF ListInv, SourceInv, PlatOK
<1>2. pc \notin BeforeRuns \cup Dead /\ pc \notin BeforeRuns \cup {"second_run"}
  BY DEF Listed, BeforeRuns, Dead
<1>3. ASSUME NEW s \in Sources PROVE plat.irqs[s].target = Target(mach.madt, s)
  <2>1. plat.irqs[s].target = TargetBy(s, OverridesOf(s))
    BY <1>1, <1>2 DEF TargetInv
  <2> QED
    BY <2>1 DEF TargetBy, OverridesOf, Target
<1>4. ASSUME NEW c \in DOMAIN plat.lapics, plat.lapics[c] # NoLapic
      PROVE  LET i == LastOf({j \in Entries(mach.madt, "lapicnmi") :
                                mach.madt[j].processor \in {255, c + core_base(mach.madt)}})
             IN  plat.lapics[c].nmi = IF i = 0 THEN 255 ELSE mach.madt[i].lint
  <2>1. plat.lapics[c].nmi = LintBy(Naming(c))
    BY <1>1, <1>4 DEF LintInv, Known
  <2> QED
    BY <2>1 DEF LintBy, Naming
<1>5. ASSUME NEW j \in Entries(mach.madt, "nmi"), NEW g, g = mach.madt[j].global,
             g \in Sources, plat.irqs[g].target = g,
             WiredTo(g) # 0, mach.madt[WiredTo(g)].base = 0,
             FirstServing(plat.ioapics, g) = WiredTo(g)
      PROVE  /\ NMI \subseteq Pin(g).bits
             /\ Masked(Pin(g)) \/ g + 1 \notin DOMAIN mach.madt[WiredTo(g)].pins
  <2>1. g \in Lines /\ g \in Nat
    <3>1. EntryOK(mach.madt[j]) /\ mach.madt[j].type = "nmi"
      BY <1>1, EntriesIn
    <3>2. g \in Byte
      BY <1>5, <3>1, EntryFields
    <3> QED
      BY <3>2 DEF Lines, Byte
  <2>2. PICK i : i = WiredTo(g)
    OBVIOUS
  <2>3. i \in Entries(mach.madt, "ioapic") /\ g - mach.madt[i].base \in DOMAIN mach.madt[i].pins
    BY <1>1, <1>5, <2>1, <2>2, WireIn DEF WiredTo
  <2>4. mach.madt[i].base = 0 /\ g - 0 = g /\ g \in DOMAIN mach.madt[i].pins
    BY <1>5, <2>1, <2>2, <2>3
  <2>5. Pin(g) = plat.ioapics[i].pins[g]
    BY <2>2, <2>4 DEF Pin
  <2>6. NmiSet(j)
    BY <1>1, <1>5 DEF NmiInv
  <2>7. /\ NMI \subseteq plat.ioapics[i].pins[g].bits
        /\ ~Granted => g # 0
    BY <1>5, <2>2, <2>4, <2>6 DEF NmiSet
  <2>8. i \in DOMAIN plat.ioapics
    BY <1>1, <2>3 DEF PlatOK
  <2>9. RawPin(i, g)
    <3>1. ~Pending(i) /\ pc \notin Dead
      BY <1>2 DEF Pending
    <3>2. ~OpenPin(i, g)
      BY DEF OpenPin, Listed
    <3> QED
      BY <1>1, <2>4, <2>8, <3>1, <3>2 DEF PinsInv
  <2>10. CASE Granted
    BY <2>2, <2>4, <2>5, <2>7, <2>9, <2>10 DEF RawPin
  <2>11. CASE ~Granted
    <3>1. plat.ioapics[i].base = 0 /\ plat.ioapics[i].size = 0
      BY <1>1, <2>8, <2>11 DEF PinsInv
    <3>2. DOMAIN plat.ioapics \in SUBSET (Nat \ {0})
      BY <1>1, EntriesIn DEF PlatOK
    <3>3. Serves(plat.ioapics[i], g)
      BY <1>5, <2>2, <3>2, Serving
    <3>4. g <= 0
      BY <3>1, <3>3 DEF Serves, start, range
    <3> QED
      BY <2>1, <2>7, <2>11, <3>4
  <2> QED
    BY <2>10, <2>11
<1> QED
  BY <1>3, <1>4, <1>5 DEF PlatformAsListed

\* And of what the runs of parse_madt have taken from the table so far.
THEOREM ListInvariant == Spec => []ListInv
<1>1. Init => ListInv
  BY ListInit
<1>2. ListInv /\ [Next]_vars => ListInv'
  BY ListStep
<1> QED
  BY <1>1, <1>2, PTL DEF Spec

\* Whatever the table holds and in whatever order, the parser knows the interrupt of
\* every source and the NMI of every processor, and sets up the pins of the NMIs that
\* it can.
THEOREM PlatformAlwaysListed == Spec => []PlatformAsListed
<1>1. ListInv => PlatformAsListed
  BY PlatformListed
<1> QED
  BY <1>1, ListInvariant, PTL

-----------------------------------------------------------------------------
(* Only a bootable machine gets to the end of init *)

\* What the second and the third run did not get over.
Past == core_base(mach.madt) + core_count(mach.madt)
RunInv ==
  /\ \A j \in Entries(mach.madt, "lapic") :
       \/ pc \in BeforeRuns \cup Dead
       \/ pc = "second_run" /\ ~(j < plat.at)
       \/ mach.madt[j].processor < Past
  /\ \A j \in Entries(mach.madt, "lapicnmi") :
       \/ pc \in BeforeRuns \cup {"second_run"} \cup Dead
       \/ pc = "third_run" /\ ~(j < plat.at)
       \/ mach.madt[j].processor \notin {Past} \ {255}

LEMMA RunStep ==
  ASSUME SourceInv, RunInv, [Next]_vars
  PROVE  RunInv'
<1>1. /\ mach' = mach /\ PlatOK /\ mach \in Machines /\ plat.at \in Nat \ {0} /\ Past' = Past
  BY PlatSteps DEF SourceInv, PlatOK, Past
<1>2. CASE ~parse_entry /\ ~parse_next
  <2>1. /\ pc' \in {"second_run", "third_run"} => pc' = pc /\ plat' = plat
        /\ pc' \notin Dead => pc \notin Dead
        /\ pc' \notin BeforeRuns \cup Dead => pc \notin BeforeRuns
    BY <1>2, ParsedStays
  <2>2. pc' = pc \/ pc' \in BeforeRuns \cup Dead \/ pc \notin Parsing
    <3>1. CASE Calm
      BY <3>1 DEF Calm, Off, Parsing, BeforeRuns, Dead
    <3>2. CASE parse \/ lapic_init \/ lapic_on \/ pit_route \/ calibrated
      BY <3>2 DEF parse, lapic_init, lapic_on, pit_route, calibrated, Go, Parsing, BeforeRuns, Dead
    <3>3. CASE \/ lapic_tick
               \/ \E d \in Drivers, v \in Vectors : driver_route(d, v)
               \/ \E v \in Vectors : kernel_lapic_timer(v)
      BY <3>3 DEF lapic_tick, driver_route, kernel_lapic_timer
    <3> QED
      BY <1>2, <3>1, <3>2, <3>3, PlatSteps
  <2>3. CASE pc' \in BeforeRuns \cup Dead
    BY <2>3 DEF RunInv
  <2>4. CASE pc' \notin BeforeRuns \cup Dead
    BY <1>1, <2>1, <2>2, <2>4 DEF RunInv, Parsing
  <2> QED
    BY <2>3, <2>4
<1>3. CASE parse_next
  <2>1. plat.at \notin DOMAIN mach.madt /\ pc \in {"first_run", "second_run", "third_run"}
    BY <1>3 DEF parse_next
  <2>2. mach.madt # NoTable
    BY <1>1, <2>1 DEF PlatOK, Dead
  <2>3. \A type : Entries(mach.madt, type) \subseteq DOMAIN mach.madt
    BY <1>1, EntriesIn
  <2>4. \A type : Below(Entries(mach.madt, type), plat.at) = Entries(mach.madt, type)
    BY <1>1, <2>1, <2>2, <2>3, AllBelow
  <2>5. \A type : \A j \in Entries(mach.madt, type) : j < plat.at
    BY <2>4 DEF Below
  <2>6. CASE pc = "first_run"
    <3>1. PICK L : plat' = [plat EXCEPT !.at = 1, !.lapics = L]
      BY <1>3 DEF parse_next
    <3>2. plat'.at = 1 /\ pc' \in {"second_run", "panic"}
      BY <1>1, <1>3, <2>6, <3>1 DEF PlatOK, PlatFields, parse_next, Go
    <3>3. \A j \in Entries(mach.madt, "lapic") : j \in Nat \ {0}
      BY <1>1, EntriesIn
    <3>4. \A j \in Entries(mach.madt, "lapic") : ~(j < 1)
      BY <3>3
    <3> QED
      BY <1>1, <3>2, <3>4 DEF RunInv, Dead
  <2>7. CASE pc = "second_run"
    <3>1. PICK L : plat' = [plat EXCEPT !.at = 1, !.lapics = L]
      BY <1>3 DEF parse_next
    <3>2. plat'.at = 1 /\ pc' = "third_run"
      BY <1>1, <1>3, <2>7, <3>1 DEF PlatOK, PlatFields, parse_next, Go
    <3>3. \A j \in Entries(mach.madt, "lapicnmi") : j \in Nat \ {0}
      BY <1>1, EntriesIn
    <3>4. \A j \in Entries(mach.madt, "lapicnmi") : ~(j < 1)
      BY <3>3
    <3>5. \A j \in Entries(mach.madt, "lapic") : mach.madt[j].processor < Past
      BY <2>5, <2>7 DEF RunInv, BeforeRuns, Dead
    <3> QED
      BY <1>1, <3>2, <3>4, <3>5 DEF RunInv
  <2>8. CASE pc = "third_run"
    <3>1. /\ \A j \in Entries(mach.madt, "lapic") : mach.madt[j].processor < Past
          /\ \A j \in Entries(mach.madt, "lapicnmi") :
               mach.madt[j].processor \notin {Past} \ {255}
      BY <2>5, <2>8 DEF RunInv, BeforeRuns, Dead
    <3> QED
      BY <1>1, <3>1 DEF RunInv
  <2> QED
    BY <2>1, <2>6, <2>7, <2>8
<1>4. CASE parse_entry
  <2>1. PICK e : e = mach.madt[plat.at]
    OBVIOUS
  <2>2. /\ mach.madt # NoTable /\ plat.at \in DOMAIN mach.madt /\ EntryOK(e)
        /\ \/ pc' = "fault" /\ plat' = plat
           \/ /\ pc' = pc /\ plat'.at = plat.at + 1
              /\ \/ pc = "first_run" /\ First(e)
                 \/ pc = "second_run" /\ Second(e)
                 \/ pc = "third_run" /\ Third(e)
    BY <1>1, <1>4, <2>1, ParseEntry
  <2>3. CASE pc' \in {"fault", "first_run"}
    BY <2>3 DEF RunInv, BeforeRuns, Dead
  <2>4. PICK n \in Nat, b \in Nat : n = core_count(mach.madt) /\ b = core_base(mach.madt)
    <3>1. core_count(mach.madt) \in Nat /\ core_base(mach.madt) \in Byte
      BY <1>1, Cores
    <3>2. \A x \in Byte : x \in Nat
      BY DEF Byte
    <3> QED
      BY <3>1, <3>2
  <2>5. CASE pc' = pc /\ plat'.at = plat.at + 1 /\ pc = "second_run" /\ Second(e)
    <3>1. ASSUME NEW j \in Entries(mach.madt, "lapic"), j < plat.at + 1
          PROVE  mach.madt[j].processor < Past
      <4>1. CASE j < plat.at
        BY <2>5, <4>1 DEF RunInv, BeforeRuns, Dead
      <4>2. CASE j = plat.at
        <5>1. e.type = "lapic" /\ mach.madt[j] = e
          BY <2>1, <4>2 DEF Entries
        <5>2. Instance(mach.madt, e.processor)
          BY <2>5, <5>1 DEF Second
        <5>3. e.processor \in Byte
          BY <2>2, <5>1, EntryFields
        <5>4. PICK p \in Nat : p = e.processor
          BY <5>3 DEF Byte
        <5>5. p = b \/ p - b < n
          BY <2>4, <5>2, <5>4 DEF Instance
        <5>6. n # 0
          <6>1. Entries(mach.madt, "lapic") # {}
            BY <3>1
          <6> QED
            BY <1>1, <2>4, <6>1, Cores
        <5>7. p < b + n
          BY <5>5, <5>6
        <5> QED
          BY <2>4, <5>1, <5>4, <5>7 DEF Past
      <4>3. j \in Nat
        BY <1>1, EntriesIn
      <4> QED
        BY <1>1, <3>1, <4>1, <4>2, <4>3
    <3> QED
      BY <1>1, <2>5, <3>1 DEF RunInv
  <2>6. CASE pc' = pc /\ plat'.at = plat.at + 1 /\ pc = "third_run" /\ Third(e)
    <3>1. ASSUME NEW j \in Entries(mach.madt, "lapicnmi"), j < plat.at + 1
          PROVE  mach.madt[j].processor \notin {Past} \ {255}
      <4>1. CASE j < plat.at
        BY <2>6, <4>1 DEF RunInv, BeforeRuns, Dead
      <4>2. CASE j = plat.at
        <5>1. e.type = "lapicnmi" /\ mach.madt[j] = e
          BY <2>1, <4>2 DEF Entries
        <5>2. ~PastTheLast(mach.madt, e)
          BY <2>6 DEF Third, third_run_faults
        <5>3. e.processor \in Byte
          BY <2>2, <5>1, EntryFields
        <5>4. PICK p \in Nat : p = e.processor
          BY <5>3 DEF Byte
        <5>5. p = 255 \/ p - b # n
          BY <2>4, <5>1, <5>2, <5>4 DEF PastTheLast
        <5>6. p = 255 \/ p # b + n
          BY <5>5
        <5> QED
          BY <2>4, <5>1, <5>4, <5>6 DEF Past
      <4>3. j \in Nat
        BY <1>1, EntriesIn
      <4> QED
        BY <1>1, <3>1, <4>1, <4>2, <4>3
    <3>2. \A j \in Entries(mach.madt, "lapic") : mach.madt[j].processor < Past
      BY <2>6 DEF RunInv, BeforeRuns, Dead
    <3> QED
      BY <1>1, <2>6, <3>1, <3>2 DEF RunInv
  <2> QED
    BY <2>2, <2>3, <2>5, <2>6
<1> QED
  BY <1>2, <1>3, <1>4

LEMMA TimerIn == ASSUME NEW m \in Machines PROVE Timers[m] = Target(m.madt, 0) /\ Timers[m] \in Lines
<1>1. PICK J : J = {j \in Entries(m.madt, "override") : m.madt[j].source = 0}
  OBVIOUS
<1>2. Timers[m] = Target(m.madt, 0)
  BY DEF Timers
<1>3. Target(m.madt, 0) = IF LastOf(J) = 0 THEN 0 ELSE m.madt[LastOf(J)].global
  BY <1>1 DEF Target
<1>4. CASE LastOf(J) = 0
  BY <1>2, <1>3, <1>4 DEF Lines, Byte
<1>5. CASE LastOf(J) # 0
  <2>1. J \subseteq Entries(m.madt, "override")
    BY <1>1
  <2>2. LastOf(J) \in Entries(m.madt, "override")
    BY <1>5, <2>1, LastIn
  <2>3. EntryOK(m.madt[LastOf(J)]) /\ m.madt[LastOf(J)].type = "override"
    BY <2>2, EntriesIn
  <2>4. m.madt[LastOf(J)].global \in Byte
    BY <2>3, EntryFields
  <2> QED
    BY <1>2, <1>3, <1>5, <2>4 DEF Lines
<1> QED
  BY <1>4, <1>5

\* Before the end of init, and undisturbed, an edge of the timer or of a live device
\* is latched with one of the kernel's vectors only if the machine is bootable.
LEMMA EdgeBootable ==
  ASSUME ListInv, RunInv, Undisturbed(mach), pc \in Starting,
         NEW g \in Lines, g = TimerLine \/ g \in mach.live,
         NEW v \in {SpuriousVector, TimerVector}, v \in Latched(g)
  PROVE  /\ Bootable(mach) /\ v = TimerVector /\ g = TimerLine /\ g \notin mach.live
         /\ pc \notin Parsing \cup Listed /\ Latched(g) = {v}
<1>1. /\ PlatOK /\ PinsInv /\ RegionInv /\ TargetInv /\ mach \in Machines
      /\ Latched(g) = {Pin(g).vector} /\ WiredTo(g) # 0 /\ ~Masked(Pin(g))
  BY DEF ListInv, SourceInv, PlatOK, Latched
<1>2. PICK i : i = WiredTo(g)
  OBVIOUS
<1>3. PICK r : r = g - mach.madt[i].base
  OBVIOUS
<1>4. i \in Entries(mach.madt, "ioapic") /\ r \in DOMAIN mach.madt[i].pins
  BY <1>1, <1>2, <1>3, WireIn DEF WiredTo
<1>5. i \in DOMAIN plat.ioapics /\ pc \notin Dead
  BY <1>1, <1>4 DEF PlatOK, Starting, Parsing, BeforeRuns, Warming, Measuring, Dead
<1>6. PICK pin : pin = plat.ioapics[i].pins[r]
  OBVIOUS
<1>7. pin.vector = v /\ ~Masked(pin)
  BY <1>1, <1>2, <1>3, <1>6 DEF Pin
<1>8. Masked(mach.madt[i].pins[r]) \/ mach.madt[i].pins[r].vector # v
  BY <1>4 DEF Undisturbed, SpuriousVector, TimerVector
<1>9. ~Pending(i)
  BY <1>1, <1>5, <1>6, <1>7, <1>8 DEF PinsInv
<1>10. ~RawPin(i, r)
  BY <1>6, <1>7, <1>8 DEF RawPin
<1>11. OpenPin(i, r)
  BY <1>1, <1>4, <1>5, <1>9, <1>10 DEF PinsInv
<1>12. /\ v = TimerVector /\ r = plat.irqs[0].target /\ Granted /\ "PIT" \in mach.regions
       /\ 0 \in Sources /\ pc \notin Parsing \cup {"lapic"} /\ pc \notin Parsing \cup Listed
  BY <1>6, <1>7, <1>11 DEF OpenPin, Listed
<1>13. plat.irqs[0].target = Target(mach.madt, 0)
  <2>1. plat.irqs[0].target = TargetBy(0, OverridesOf(0))
    BY <1>1, <1>5, <1>12 DEF TargetInv, Parsing
  <2> QED
    BY <2>1 DEF TargetBy, OverridesOf, Target
<1>14. TimerLine = Target(mach.madt, 0) /\ TimerLine \in Nat /\ g \in Nat
  <2>1. TimerLine = Target(mach.madt, 0) /\ TimerLine \in Lines
    BY <1>1, TimerIn DEF TimerLine
  <2>2. \A x \in Lines : x \in Nat
    BY DEF Lines, Byte
  <2> QED
    BY <2>1, <2>2
<1>15. mach.madt[i].base \in Nat
  BY <1>1, <1>4, PinsOf
<1>16. g = mach.madt[i].base + TimerLine
  BY <1>3, <1>12, <1>13, <1>14, <1>15
<1>17. g = TimerLine /\ g \notin mach.live
  <2>1. mach.madt[i].base + Target(mach.madt, 0) \notin mach.live
    BY <1>4 DEF Undisturbed
  <2> QED
    BY <1>14, <1>16, <2>1
<1>18. mach.madt[i].base = 0
  BY <1>14, <1>15, <1>16, <1>17
<1>19. Target(mach.madt, 0) \in DOMAIN mach.madt[i].pins
  BY <1>4, <1>12, <1>13
<1>20. mach.regions = {"LAPIC", "IOAPIC", "PIT"}
  <2>1. mach.regions \subseteq {"LAPIC", "IOAPIC", "PIT"}
    BY <1>1, BootAssumption DEF MachineOK
  <2>2. "LAPIC" \in mach.regions
    BY <1>1, <1>5, <1>12 DEF RegionInv
  <2> QED
    BY <1>12, <2>1, <2>2 DEF Granted
<1>21. Entries(mach.madt, "lapic") # {} /\ Entries(mach.madt, "ioapic") # {}
  BY <1>1, <1>5, <1>12 DEF PlatOK, Parsing
<1>22. /\ \A j \in Entries(mach.madt, "lapic") : mach.madt[j].processor < Past
       /\ \A j \in Entries(mach.madt, "lapicnmi") : mach.madt[j].processor \notin {Past} \ {255}
  BY <1>5, <1>12 DEF RunInv, Parsing
<1>23. Bootable(mach)
  BY <1>4, <1>18, <1>19, <1>20, <1>21, <1>22 DEF Bootable, Past, core_count
<1> QED
  BY <1>1, <1>12, <1>17, <1>23

\* The steps that touch what waits for the processor.
LEMMA IrrSteps ==
  ASSUME [Next]_vars
  PROVE  \/ irr' = irr /\ (cal' => cal)
         \/ pit_tick \/ lapic_tick
         \/ \E g \in Lines : device_edge(g)
         \/ \E v \in Vectors : deliver(v)
<1>1. CASE UNCHANGED vars
  BY <1>1 DEF vars, bvars
<1>2. CASE cpu
  <2>1. CASE start_idt \/ parse \/ parse_entry \/ parse_next \/ lapic_fails \/ lapic_init \/ lapic_on
    BY <2>1 DEF start_idt, parse, parse_entry, parse_next, lapic_fails, lapic_init, lapic_on
  <2>2. CASE pit_refused \/ pit_init \/ pit_route \/ flags \/ calibrated \/ edit_step
    BY <2>2 DEF pit_refused, pit_init, pit_route, flags, set_flag, calibrated, edit_step, bvars
  <2>3. CASE warm_up \/ calibrate
    BY <2>3 DEF warm_up, calibrate, set_handlers, set_mode, set_count, walk
  <2> QED
    BY <1>2, <2>1, <2>2, <2>3 DEF cpu
<1>3. CASE kernel
  BY <1>3, KernelSteps
<1> QED
  BY <1>1, <1>2, <1>3 DEF Next

LEMMA RunningSteps ==
  ASSUME [Next]_vars, pc' \in Running
  PROVE  pc \in Running \/ (pc = "cal_check" /\ cal)
<1>1. CASE UNCHANGED vars
  BY <1>1 DEF vars, bvars
<1>2. CASE cpu
  <2>1. CASE start_idt \/ parse \/ parse_entry \/ parse_next \/ lapic_fails \/ lapic_init \/ lapic_on
    BY <2>1 DEF start_idt, parse, parse_entry, parse_next, lapic_fails, lapic_init, lapic_on, Go,
                Running
  <2>2. CASE pit_refused \/ pit_init \/ pit_route \/ flags \/ calibrated \/ edit_step
    BY <2>2 DEF pit_refused, pit_init, pit_route, flags, set_flag, calibrated, edit_step, bvars,
                Go, Running
  <2>3. CASE warm_up \/ calibrate
    BY <2>3 DEF warm_up, calibrate, set_handlers, set_mode, set_count, walk, Go, Running
  <2> QED
    BY <1>2, <2>1, <2>2, <2>3 DEF cpu
<1>3. CASE kernel
  BY <1>3, KernelSteps
<1>4. CASE pit_tick \/ lapic_tick \/ \E g \in Lines : device_edge(g)
  BY <1>4 DEF pit_tick, lapic_tick, device_edge
<1>5. CASE \E v \in Vectors : deliver(v)
  BY <1>5 DEF deliver, Resume, Running
<1> QED
  BY <1>1, <1>2, <1>3, <1>4, <1>5 DEF Next

BootInv ==
  /\ ListInv /\ RunInv
  /\ Undisturbed(mach) /\ pc \in Starting /\ (TimerVector \in irr \/ cal) => Bootable(mach)
  /\ Undisturbed(mach) /\ pc \in Running => Bootable(mach)

LEMMA BootStep == ASSUME BootInv, [Next]_vars PROVE BootInv'
<1>1. ListInv' /\ RunInv' /\ mach' = mach /\ ListInv /\ RunInv
  BY ListStep, RunStep, PlatSteps DEF BootInv, ListInv
<1>2. ASSUME Undisturbed(mach), pc' \in Running PROVE Bootable(mach)
  BY <1>2, RunningSteps DEF BootInv, Starting, Measuring
<1>3. ASSUME Undisturbed(mach), pc' \in Starting, TimerVector \in irr' \/ cal' PROVE Bootable(mach)
  <2>1. pc \in Starting
    BY <1>3, StartSteps
  <2>2. CASE irr' = irr /\ (cal' => cal)
    BY <1>3, <2>1, <2>2 DEF BootInv
  <2>3. CASE lapic_tick
    BY <2>1, <2>3 DEF lapic_tick, Starting, Parsing, BeforeRuns, Warming, Measuring
  <2>4. ASSUME NEW g \in Lines, g = TimerLine \/ g \in mach.live, irr' = irr \cup Latched(g),
               cal' = cal
        PROVE  Bootable(mach)
    <3>1. CASE TimerVector \in Latched(g)
      BY <1>1, <1>3, <2>1, <2>4, <3>1, EdgeBootable
    <3>2. CASE TimerVector \notin Latched(g)
      BY <1>3, <2>1, <2>4, <3>2 DEF BootInv
    <3> QED
      BY <3>1, <3>2
  <2>5. CASE pit_tick
    <3>1. TimerLine \in Lines
      BY <1>1, TimerIn DEF ListInv, SourceInv, PlatOK, TimerLine
    <3>2. irr' = irr \cup Latched(TimerLine) /\ cal' = cal
      BY <2>5 DEF pit_tick
    <3>3. PICK g \in Lines : g = TimerLine
      BY <3>1
    <3> QED
      BY <2>4, <3>2, <3>3
  <2>6. CASE \E g \in Lines : device_edge(g)
    <3>1. pc # "done"
      BY <2>1 DEF Starting, Parsing, BeforeRuns, Warming, Measuring
    <3>2. PICK g \in Lines : g \in mach.live /\ irr' = irr \cup Latched(g) /\ cal' = cal
      BY <2>6, <3>1 DEF device_edge
    <3> QED
      BY <2>4, <3>2
  <2>7. CASE \E v \in Vectors : deliver(v)
    <3>1. PICK v \in Vectors : deliver(v)
      BY <2>7
    <3>2. v \in irr /\ irr' = irr \ {v}
      BY <3>1 DEF deliver
    <3>3. CASE Dispatch(v).fn = "pit"
      <4>1. v = TimerVector
        BY <1>1, <2>1, <3>3, TwoHandlers, BootAssumption DEF ListInv, SourceInv, TableInv
      <4> QED
        BY <1>3, <2>1, <3>2, <4>1 DEF BootInv
    <3>4. CASE Dispatch(v).fn # "pit"
      <4>1. cal' = cal
        BY <3>1, <3>4 DEF deliver
      <4> QED
        BY <1>3, <2>1, <3>2, <4>1 DEF BootInv
    <3> QED
      BY <3>3, <3>4
  <2> QED
    BY <2>2, <2>3, <2>5, <2>6, <2>7, IrrSteps
<1> QED
  BY <1>1, <1>2, <1>3 DEF BootInv

LEMMA BootInit == ASSUME Init PROVE BootInv
<1>1. ListInv /\ pc = "start" /\ irr = {} /\ cal = FALSE
  BY ListInit DEF Init
<1> QED
  BY <1>1 DEF BootInv, RunInv, BeforeRuns, Running

\* And of the machine, once the timer has interrupted or init is at its end.
THEOREM BootInvariant == Spec => []BootInv
<1>1. Init => BootInv
  BY BootInit
<1>2. BootInv /\ [Next]_vars => BootInv'
  BY BootStep
<1> QED
  BY <1>1, <1>2, PTL DEF Spec

\* Init gets to its end on bootable machines only, unless a device stands in for the
\* timer: on any other it panics, faults or waits for good.
THEOREM OnlyBootableBoot == Spec => []OnlyBootable
<1>1. BootInv => OnlyBootable
  <2> SUFFICES ASSUME BootInv, pc = "done", Undisturbed(mach) PROVE mach \in BootableMachines
    BY DEF OnlyBootable
  <2>1. mach \in Machines
    BY DEF BootInv, ListInv, SourceInv, PlatOK
  <2> QED
    BY <2>1 DEF BootInv, Running, BootableMachines
<1> QED
  BY <1>1, BootInvariant, PTL

-----------------------------------------------------------------------------
(* Whose tick ends the calibration *)

\* Before the end of init nothing is released, and a gate behind the system vectors is
\* present only if its vector has an owner.
OwnedGates == \A v \in Vectors : gate[v].present /\ v > Reserved => Held(v)
HitInv == pc \in Starting => hit = {} /\ OwnedGates

LEMMA HitStep ==
  ASSUME IdtInv, TwoVectors, HitInv, [Next]_vars
  PROVE  HitInv'
<1> SUFFICES ASSUME pc' \in Starting PROVE HitInv'
  BY DEF HitInv
<1>1. pc \in Starting /\ StartStep
  BY StartSteps
<1>2. hit = {} /\ OwnedGates
  BY <1>1 DEF HitInv
<1>3. /\ gate \in [Vectors -> [present : BOOLEAN, to : {"none", "system", "stub"}, nr : Nat]]
      /\ owner \in [Vectors -> Who]
  BY DEF IdtInv, IdtTypes
<1>4. ASSUME UNCHANGED <<gate, owner, hit>> PROVE HitInv'
  BY <1>2, <1>4 DEF HitInv, OwnedGates, Held
<1>5. CASE idt_init
  <2>1. hit' = hit /\ \A v \in Vectors : gate'[v].present => v <= Reserved
    BY <1>5 DEF idt_init
  <2>2. \A v \in Vectors : ~(v > Reserved /\ v <= Reserved)
    BY Places
  <2> QED
    BY <1>2, <2>1, <2>2 DEF HitInv, OwnedGates
<1>6. CASE set_gate
  <2>1. PICK V, w : V = VectorOf(edit.at) /\ w = edit.who
    OBVIOUS
  <2>2. /\ gate' = [gate EXCEPT ![V] = [present |-> TRUE, to |-> "stub", nr |-> edit.at]]
        /\ owner' = [owner EXCEPT ![V] = w] /\ hit' = hit /\ edit # Idle
    BY <1>6, <2>1 DEF set_gate
  <2>3. w \in {"spurious", "pit"}
    BY <1>1, <2>1, <2>2 DEF TwoVectors, TwoEdits, EditFor
  <2>4. w # "none"
    BY <2>3, BootAssumption
  <2>5. \A v \in Vectors : owner'[v] = IF v = V THEN w ELSE owner[v]
    BY <1>3, <2>2
  <2>6. \A v \in Vectors : v # V => gate'[v] = gate[v]
    BY <1>3, <2>2
  <2> QED
    BY <1>2, <2>2, <2>4, <2>5, <2>6 DEF HitInv, OwnedGates, Held
<1>7. ASSUME NEW w, gate' = [gate EXCEPT ![w] = [@ EXCEPT !.present = FALSE]], owner' = owner,
             hit' = hit
      PROVE  HitInv'
  <2>1. \A v \in Vectors : gate'[v].present => gate[v].present
    BY <1>3, <1>7
  <2> QED
    BY <1>2, <1>7, <2>1 DEF HitInv, OwnedGates, Held
<1>8. CASE clear_gate \/ drop_gate
  BY <1>7, <1>8 DEF clear_gate, drop_gate
<1>9. CASE patch_context \/ set_pointer \/ clear_pointer
  BY <1>4, <1>9 DEF patch_context, set_pointer, clear_pointer
<1> QED
  BY <1>1, <1>4, <1>5, <1>6, <1>8, <1>9 DEF StartStep, EditStep, register_irq_handler, ivars

\* The handlers of the timer.  That for the calibration is set once, and cleared when
\* it has run.
PitFields == {"mode", "set", "source", "one_shot", "periodic"}
Calibrating == {"cal_mode", "cal_load", "cal_check", "cal_hlt", "cal_wait"}
HandlerInv ==
  /\ DOMAIN pit = PitFields /\ DOMAIN seen = History
  /\ pit.one_shot \in {"none", "calibrate", "chain"} /\ pit.periodic \in {"none", "tick"}
  /\ pit.one_shot = "calibrate" => ~cal /\ pc \in Calibrating \cup Dead
  /\ pit.one_shot = "chain" => pc \notin Starting
  /\ "second" \notin seen.ran

LEMMA HandlerStep ==
  ASSUME HandlerInv, [Next]_vars
  PROVE  HandlerInv'
<1>1. pc' \in Starting => pc \in Starting
  BY StartSteps
<1>2. CASE UNCHANGED vars
  BY <1>2 DEF vars, bvars, HandlerInv
<1>3. ASSUME UNCHANGED <<pit, cal>>, pc \notin Calibrating \/ pc' \in Calibrating \cup Dead \/ cal,
             pc \notin Dead \/ pc' = pc, seen' = seen
      PROVE  HandlerInv'
  BY <1>1, <1>3 DEF HandlerInv
<1>4. ASSUME NEW from, NEW to, NEW o, NEW p, set_handlers(from, to, o, p),
             o \in {"none", "calibrate", "chain"}, p \in {"none", "tick"},
             o = "calibrate" => ~cal' /\ to \in Calibrating,
             o = "chain" => to \notin Starting
      PROVE  HandlerInv'
  <2>1. /\ DOMAIN pit' = DOMAIN pit /\ pit'.one_shot = o /\ pit'.periodic = p
        /\ seen' = seen /\ pc' = to
    BY <1>4 DEF set_handlers, Go, HandlerInv, PitFields
  <2> QED
    BY <1>4, <2>1 DEF HandlerInv
<1>5. ASSUME DOMAIN pit' = DOMAIN pit, pit'.one_shot = pit.one_shot, pit'.periodic = pit.periodic,
             cal' = cal, pc \in Calibrating => pc' \in Calibrating \cup Dead,
             pc \in Dead => pc' = pc,
             DOMAIN seen' = DOMAIN seen, seen'.ran = seen.ran
      PROVE  HandlerInv'
  BY <1>1, <1>5 DEF HandlerInv
<1>6. CASE cpu
  <2>1. CASE start_idt \/ parse \/ parse_entry \/ parse_next \/ lapic_fails \/ lapic_init \/ lapic_on
    BY <1>3, <2>1 DEF start_idt, parse, parse_entry, parse_next, lapic_fails, lapic_init, lapic_on,
       Go, Calibrating, Dead
  <2>2. CASE pit_refused \/ pit_init \/ pit_route \/ flags \/ calibrated \/ edit_step
    BY <1>3, <2>2 DEF pit_refused, pit_init, pit_route, flags, set_flag, calibrated, edit_step,
       bvars, Go, Calibrating, Dead
  <2>3. ASSUME NEW from, NEW to, set_mode(from, to), to \in Calibrating \/ from \notin Calibrating,
               from \notin Dead
        PROVE  HandlerInv'
    <3>1. /\ DOMAIN pit' = DOMAIN pit /\ pit'.one_shot = pit.one_shot
          /\ pit'.periodic = pit.periodic /\ cal' = cal /\ seen' = seen
          /\ pc = from /\ pc' = to
      BY <2>3 DEF set_mode, Go, HandlerInv, PitFields
    <3> QED
      BY <1>5, <2>3, <3>1
  <2>4. ASSUME NEW from, NEW to, NEW mode, NEW by, set_count(from, to, mode, by),
               to \in Calibrating \/ from \notin Calibrating, from \notin Dead
        PROVE  HandlerInv'
    <3>1. /\ DOMAIN pit' = DOMAIN pit /\ pit'.one_shot = pit.one_shot
          /\ pit'.periodic = pit.periodic /\ cal' = cal /\ seen' = seen
          /\ pc = from /\ pc' = to
      BY <2>4 DEF set_count, Go, HandlerInv, PitFields
    <3> QED
      BY <1>5, <2>4, <3>1
  <2>5. ASSUME NEW from, NEW to, walk(from, to),
               to \in Calibrating \/ from \notin Calibrating, from \notin Dead
        PROVE  HandlerInv'
    BY <1>3, <2>5 DEF walk, Go
  <2>6. CASE warm_up
    <3>1. CASE set_handlers("warm", "warm_mode", "none", "none")
      BY <1>4, <3>1
    <3> QED
      BY <2>3, <2>4, <2>5, <2>6, <3>1 DEF warm_up, Calibrating, Dead
  <2>7. CASE calibrate
    <3>1. CASE set_handlers("cal", "cal_mode", "calibrate", "none") /\ cal' = FALSE
      BY <1>4, <3>1 DEF Calibrating
    <3>2. CASE set_mode("cal_mode", "cal_load")
      BY <2>3, <3>2 DEF Calibrating, Dead
    <3>3. CASE set_count("cal_load", "cal_check", "armed", "cal")
      BY <2>4, <3>3 DEF Calibrating, Dead
    <3>4. CASE walk("cal_check", "cal_hlt") \/ walk("cal_hlt", "cal_wait")
      BY <2>5, <3>4 DEF Calibrating, Dead
    <3> QED
      BY <2>7, <3>1, <3>2, <3>3, <3>4 DEF calibrate
  <2> QED
    BY <1>6, <2>1, <2>2, <2>6, <2>7 DEF cpu
<1>7. CASE kernel
  <2>1. CASE kernel_timer
    <3>1. CASE set_handlers("done", "one_mode", "chain", "none")
      BY <1>4, <3>1 DEF Starting, Parsing, BeforeRuns, Warming, Measuring
    <3>2. CASE set_handlers("done", "per_mode", "none", "tick")
      BY <1>4, <3>2
    <3>3. CASE set_mode("one_mode", "one_load") \/ set_mode("per_mode", "per_load")
      <4>1. /\ DOMAIN pit' = DOMAIN pit /\ pit'.one_shot = pit.one_shot
            /\ pit'.periodic = pit.periodic /\ cal' = cal /\ seen' = seen
            /\ pc \notin Calibrating \cup Dead
        BY <3>3 DEF set_mode, Go, HandlerInv, PitFields, Calibrating, Dead
      <4> QED
        BY <1>5, <4>1
    <3>4. CASE \/ set_count("one_load", "done", "armed", "kernel")
               \/ set_count("per_load", "done", "periodic", "kernel")
      <4>1. /\ DOMAIN pit' = DOMAIN pit /\ pit'.one_shot = pit.one_shot
            /\ pit'.periodic = pit.periodic /\ cal' = cal /\ seen' = seen
            /\ pc \notin Calibrating \cup Dead
        BY <3>4 DEF set_count, Go, HandlerInv, PitFields, Calibrating, Dead
      <4> QED
        BY <1>5, <4>1
    <3> QED
      BY <2>1, <3>1, <3>2, <3>3, <3>4 DEF kernel_timer
  <2>2. ASSUME NEW target, NEW mode, kernel_ipi(target, mode) PROVE HandlerInv'
    <3>1. /\ UNCHANGED <<pit, cal, pc>> /\ DOMAIN seen' = DOMAIN seen /\ seen'.ran = seen.ran
      BY <2>2 DEF kernel_ipi, HandlerInv, History
    <3> QED
      BY <1>5, <3>1
  <2>3. CASE \/ \E d \in Drivers : driver_register(d)
             \/ \E d \in Drivers, v \in Vectors : driver_route(d, v)
             \/ \E v \in Vectors : driver_release(v) \/ driver_release_wild(v)
             \/ \E d \in Drivers, v \in Vectors : kernel_system_handler(v, d)
             \/ \E v \in Vectors : kernel_lapic_timer(v)
    <3>1. UNCHANGED <<pit, cal, seen>> /\ pc \notin Calibrating \cup Dead
      BY <2>3 DEF driver_register, driver_route, driver_release, driver_release_wild,
         kernel_system_handler, kernel_lapic_timer, Call, Calibrating, Dead
    <3> QED
      BY <1>3, <3>1
  <2> QED
    BY <1>7, <2>1, <2>2, <2>3 DEF kernel
<1>8. CASE pit_tick
  <2>1. /\ DOMAIN pit' = DOMAIN pit /\ pit'.one_shot = pit.one_shot
        /\ pit'.periodic = pit.periodic /\ cal' = cal /\ pc' = pc
    BY <1>8 DEF pit_tick, HandlerInv, PitFields
  <2>2. DOMAIN seen' = DOMAIN seen /\ seen'.ran = seen.ran
    BY <1>8 DEF pit_tick, HandlerInv, History
  <2> QED
    BY <1>5, <2>1, <2>2
<1>9. CASE lapic_tick \/ \E g \in Lines : device_edge(g)
  BY <1>3, <1>9 DEF lapic_tick, device_edge
<1>10. ASSUME NEW v \in Vectors, deliver(v) PROVE HandlerInv'
  <2>1. CASE UNCHANGED <<pit, cal, seen>>
    <3>1. pc \notin Dead /\ (pc \in Calibrating => pc' \in Calibrating \cup Dead)
      BY <1>10 DEF deliver, Resume, Calibrating, Dead
    <3> QED
      BY <1>3, <2>1, <3>1
  <2>2. CASE trigger(v)
    <3>1. pit' = [Called(pit) EXCEPT !.one_shot = "none"] /\ seen' = Noted
      BY <2>2 DEF trigger
    <3>2. /\ DOMAIN pit' = DOMAIN pit /\ pit'.one_shot = "none"
          /\ pit'.periodic \in {"none", "tick"}
      BY <3>1 DEF Called, HandlerInv, PitFields
    <3>3. DOMAIN seen' = DOMAIN seen /\ "second" \notin seen'.ran
      BY <3>1 DEF Noted, HandlerInv, History
    <3> QED
      BY <3>2, <3>3 DEF HandlerInv
  <2> QED
    BY <1>10, <2>1, <2>2 DEF deliver
<1> QED
  BY <1>2, <1>6, <1>7, <1>8, <1>9, <1>10 DEF Next

-----------------------------------------------------------------------------
(* Which tick waits for the processor *)

Waiting == TimerVector \in irr
WaitInv ==
  Undisturbed(mach) /\ pc \in Starting =>
    /\ SpuriousVector \notin irr
    /\ Waiting => pc \notin Parsing \cup Listed /\ Latched(TimerLine) = {TimerVector}

\* Whose tick it is, where the processor is and what the timer does: the firmware's
\* until the timer is programmed, then that of the first one-shot, unless the
\* firmware's ended the wait for it, then that of the calibration.
Before == Parsing \cup Listed \cup {"warm", "warm_mode"}
BeforePhase ==
  pc \in Before =>
    /\ seen.by = "none" /\ pit.set = "firmware" /\ pit.mode = "periodic"
    /\ Waiting => pit.source = "firmware"
LoadPhase ==
  pc = "warm_load" =>
    seen.by = "none" /\ pit.mode = "loading" /\ (Waiting => pit.source = "firmware")
WaitPhase ==
  pc \in {"warm_hlt", "warm_wait"} =>
    /\ seen.by = "none" /\ pit.set = "warm" /\ pit.mode \in {"armed", "expired"}
    /\ Waiting => pit.source = "firmware" \/ (pit.source = "warm" /\ pit.mode = "expired")
WokenPhase ==
  pc \in {"warm_end", "sti", "cal", "cal_mode"} /\ "PIT" \in mach.regions =>
    /\ pit.set = "warm" /\ pit.mode \in {"armed", "expired"} /\ seen.woken \in {"firmware", "warm"}
    /\ seen.woken = "warm" => ~Waiting /\ pit.mode = "expired"
    /\ Waiting => pit.source = "warm" /\ pit.mode = "expired"
StalePhase ==
  pc = "cal_load" =>
    pit.mode = "loading" /\ (Waiting => pit.source = "warm" /\ seen.woken = "firmware")
CalPhase ==
  pc \in {"cal_check", "cal_hlt", "cal_wait"} =>
    /\ pit.set = "cal"
    /\ Waiting => pit.source = "cal" \/ (pit.source = "warm" /\ seen.woken = "firmware")
Phases == BeforePhase /\ LoadPhase /\ WaitPhase /\ WokenPhase /\ StalePhase /\ CalPhase

Own == seen.by \in {"none", "cal"} \/ (seen.by = "warm" /\ seen.woken = "firmware")
OwnInv == Undisturbed(mach) => Own /\ (pc \in Starting => Phases)

\* A tick of the timer, or an edge of a device, in an undisturbed start: the only
\* vector it can add is the timer's, and only a tick adds it.
LEMMA EdgeAdds ==
  ASSUME BootInv, Undisturbed(mach), pc \in Starting,
         NEW g \in Lines, g = TimerLine \/ g \in mach.live
  PROVE  /\ SpuriousVector \notin Latched(g)
         /\ TimerVector \in Latched(g) =>
              /\ g \notin mach.live /\ pc \notin Parsing \cup Listed
              /\ Latched(TimerLine) = {TimerVector}
<1>1. ListInv /\ RunInv
  BY DEF BootInv
<1>2. SpuriousVector # TimerVector
  <2>1. StubOf(VectorOf(0)) = 0 /\ StubOf(VectorOf(1)) = 1
    BY Places
  <2> QED
    BY <2>1 DEF SpuriousVector, TimerVector
<1>3. SpuriousVector \notin Latched(g)
  BY <1>1, <1>2, EdgeBootable
<1>4. ASSUME TimerVector \in Latched(g)
      PROVE  /\ g \notin mach.live /\ pc \notin Parsing \cup Listed
             /\ Latched(TimerLine) = {TimerVector}
  <2>1. /\ g = TimerLine /\ g \notin mach.live /\ pc \notin Parsing \cup Listed
        /\ Latched(g) = {TimerVector}
    BY <1>1, <1>4, EdgeBootable
  <2> QED
    BY <2>1
<1> QED
  BY <1>3, <1>4

LEMMA TimerLineIn == ASSUME BootInv PROVE TimerLine \in Lines
<1>1. mach \in Machines
  BY DEF BootInv, ListInv, SourceInv, PlatOK
<1> QED
  BY <1>1, TimerIn DEF TimerLine

\* Such an edge, seen from the processor.
LEMMA StartEdge ==
  ASSUME BootInv, WaitInv, Undisturbed(mach), pc \in Starting,
         NEW g \in Lines, device_edge(g)
  PROVE  /\ SpuriousVector \notin irr' /\ (Waiting' => Waiting)
         /\ UNCHANGED <<pc, plat, mach, pit, seen>>
<1>1. pc # "done"
  BY DEF Starting, Parsing, BeforeRuns, Warming, Measuring
<1>2. g \in mach.live /\ irr' = irr \cup Latched(g) /\ UNCHANGED <<pc, plat, mach, pit, seen>>
  BY <1>1 DEF device_edge
<1>3. SpuriousVector \notin Latched(g) /\ TimerVector \notin Latched(g)
  BY <1>2, EdgeAdds
<1> QED
  BY <1>2, <1>3 DEF WaitInv, Waiting

LEMMA StartTick ==
  ASSUME BootInv, WaitInv, HandlerInv, Undisturbed(mach), pc \in Starting, pit_tick
  PROVE  /\ UNCHANGED <<pc, plat, mach>> /\ SpuriousVector \notin irr'
         /\ Waiting' => pc \notin Parsing \cup Listed /\ Latched(TimerLine) = {TimerVector}
         /\ Waiting => Waiting' /\ pit'.source = pit.source
         /\ ~Waiting /\ Waiting' => pit'.source = pit.set
         /\ seen'.by = seen.by /\ seen'.woken = seen.woken /\ pit'.set = pit.set
         /\ \/ pit.mode = "armed" /\ pit'.mode = "expired"
            \/ pit.mode = "periodic" /\ pit'.mode = "periodic"
<1>1. /\ UNCHANGED <<pc, plat, mach>> /\ irr' = irr \cup Latched(TimerLine)
      /\ pit.mode \in {"armed", "periodic"}
  BY DEF pit_tick
<1>2. PICK g \in Lines : g = TimerLine
  BY TimerLineIn
<1>3. /\ SpuriousVector \notin Latched(TimerLine)
      /\ TimerVector \in Latched(TimerLine) =>
           pc \notin Parsing \cup Listed /\ Latched(TimerLine) = {TimerVector}
  BY <1>2, EdgeAdds
<1>4. /\ SpuriousVector \notin irr
      /\ Waiting => pc \notin Parsing \cup Listed /\ Latched(TimerLine) = {TimerVector}
  BY DEF WaitInv
<1>5. /\ pit'.source = IF Latched(TimerLine) \subseteq irr THEN pit.source ELSE pit.set
      /\ pit'.mode = IF pit.mode = "armed" THEN "expired" ELSE pit.mode
      /\ pit'.set = pit.set
  BY DEF pit_tick, HandlerInv, PitFields
<1>6. seen'.by = seen.by /\ seen'.woken = seen.woken
  BY DEF pit_tick, HandlerInv, History
<1>7. Waiting => Latched(TimerLine) \subseteq irr
  BY <1>4 DEF Waiting
<1>8. ~Waiting /\ Waiting' => ~(Latched(TimerLine) \subseteq irr)
  BY <1>1 DEF Waiting
<1>9. Waiting => Waiting'
  BY <1>1 DEF Waiting
<1>10. Waiting' => Waiting \/ TimerVector \in Latched(TimerLine)
  BY <1>1 DEF Waiting
<1> QED
  BY <1>1, <1>3, <1>4, <1>5, <1>6, <1>7, <1>8, <1>9, <1>10

\* An interrupt in such a start is that of the timer, and its handler runs; or the
\* default handler halts.
LEMMA StartInterrupt ==
  ASSUME BootInv, WaitInv, HitInv, Undisturbed(mach), pc \in Starting,
         NEW v \in Vectors, deliver(v)
  PROVE  \/ pc' = "fault" /\ UNCHANGED seen
         \/ /\ pc' = Resume /\ trigger(v) /\ Waiting /\ ~Waiting'
            /\ irr' \subseteq irr /\ pc \notin Off
<1>1. /\ IdtInv /\ TwoVectors /\ OffInv
  BY DEF BootInv, ListInv, SourceInv, TableInv
<1>2. v \in irr /\ irr' = irr \ {v} /\ on
  BY DEF deliver
<1>3. pc \notin Off
  BY <1>1, <1>2 DEF OffInv
<1>4. v # SpuriousVector
  BY <1>2 DEF WaitInv
<1>5. CASE Dispatch(v).fn \notin Registrants
  BY <1>5, BootAssumption DEF deliver
<1>6. CASE Dispatch(v).fn \in Registrants
  <2>1. v = TimerVector /\ Dispatch(v).fn = "pit"
    BY <1>1, <1>4, <1>6, TwoHandlers
  <2>2. gate[v].present
    BY <1>6, BootAssumption DEF Dispatch
  <2>3. v > Reserved
    BY <2>1, Places DEF TimerVector
  <2>4. Held(v) /\ ~Taken(v)
    BY <2>2, <2>3 DEF HitInv, OwnedGates, Taken
  <2>5. Dispatch(v) = [fn |-> owner[v], ctx |-> owner[v]]
    BY <1>1, <2>4, WiredIsRight DEF RightHandler
  <2>6. Dispatch(v).ctx = "pit"
    BY <2>1, <2>5
  <2>7. trigger(v) /\ pc' = Resume
    BY <1>6, <2>1, <2>6 DEF deliver
  <2> QED
    BY <1>2, <1>3, <2>1, <2>7 DEF Waiting
<1> QED
  BY <1>5, <1>6

LEMMA WaitStep ==
  ASSUME BootInv, HandlerInv, HitInv, WaitInv, [Next]_vars
  PROVE  WaitInv'
<1> SUFFICES ASSUME Undisturbed(mach)', pc' \in Starting
             PROVE  /\ SpuriousVector \notin irr'
                    /\ Waiting' => pc' \notin Parsing \cup Listed /\ Latched(TimerLine)' = {TimerVector}
  BY DEF WaitInv
<1>1. mach' = mach /\ pc \in Starting /\ StartStep
  BY PlatSteps, StartSteps
<1>2. Undisturbed(mach)
  BY <1>1
<1>3. /\ SpuriousVector \notin irr
      /\ Waiting => pc \notin Parsing \cup Listed /\ Latched(TimerLine) = {TimerVector}
  BY <1>1, <1>2 DEF WaitInv
<1>4. ASSUME plat' = plat PROVE Latched(TimerLine)' = Latched(TimerLine)
  BY <1>1, <1>4 DEF Latched, TimerLine, WiredTo, Pin
<1>5. ASSUME irr' \subseteq irr
      PROVE  /\ SpuriousVector \notin irr'
             /\ Waiting' => pc' \notin Parsing \cup Listed /\ Latched(TimerLine)' = {TimerVector}
  <2> SUFFICES ASSUME Waiting'
               PROVE  pc' \notin Parsing \cup Listed /\ Latched(TimerLine)' = {TimerVector}
    BY <1>3, <1>5
  <2>1. pc \notin Parsing \cup Listed /\ Latched(TimerLine) = {TimerVector}
    BY <1>3, <1>5 DEF Waiting
  <2>2. pc \notin Off
    BY <1>1, <2>1 DEF Off, Listed, Starting, Parsing, BeforeRuns, Warming, Measuring, Dead
  <2>3. Calm
    <3>1. ~parse /\ ~parse_entry /\ ~parse_next /\ ~lapic_init /\ ~lapic_on /\ ~pit_route
      BY <2>2 DEF parse, parse_entry, parse_next, lapic_init, lapic_on, pit_route, Go, Off,
         Parsing, BeforeRuns
    <3>2. pc # "done" /\ pc' # "done"
      BY <1>1 DEF Starting, Parsing, BeforeRuns, Warming, Measuring
    <3>3. /\ ~calibrated /\ ~lapic_tick
          /\ \A d \in Drivers, v \in Vectors : ~driver_route(d, v)
          /\ \A v \in Vectors : ~kernel_lapic_timer(v)
      BY <3>2 DEF calibrated, lapic_tick, driver_route, kernel_lapic_timer, Call, Go
    <3> QED
      BY <3>1, <3>3, PlatSteps
  <2>4. plat' = plat /\ pc' \notin Parsing \cup Listed
    BY <2>1, <2>2, <2>3 DEF Calm, Off, Listed, Parsing, BeforeRuns, Dead
  <2> QED
    BY <1>4, <2>1, <2>4
<1>6. CASE pit_tick
  BY <1>1, <1>2, <1>4, <1>6, StartTick
<1>7. CASE lapic_tick
  BY <1>1, <1>7 DEF lapic_tick, Starting, Parsing, BeforeRuns, Warming, Measuring
<1>8. CASE \E g \in Lines : device_edge(g)
  BY <1>1, <1>2, <1>3, <1>4, <1>8, StartEdge
<1>9. CASE \E v \in Vectors : deliver(v)
  BY <1>5, <1>9 DEF deliver
<1> QED
  BY <1>5, <1>6, <1>7, <1>8, <1>9, IrrSteps

\* What a step of init does to the timer, but for ticks and interrupts.
InPhase(a, b) ==
  \/ b = a \/ {a, b} \subseteq Before \/ {a, b} \subseteq {"warm_hlt", "warm_wait"}
  \/ {a, b} \subseteq {"warm_end", "sti", "cal", "cal_mode"}
  \/ {a, b} \subseteq {"cal_check", "cal_hlt", "cal_wait"}
  \/ b = "sti" /\ "PIT" \notin mach.regions
Stays   == /\ pit'.mode = pit.mode /\ pit'.set = pit.set /\ pit'.source = pit.source
           /\ InPhase(pc, pc')
Loads   == /\ pit'.mode = "loading" /\ pit'.source = pit.source
           /\ \/ pc = "warm_mode" /\ pc' = "warm_load"
              \/ pc = "cal_mode" /\ pc' = "cal_load"
Counts  == /\ pit'.mode = "armed" /\ pit'.source = pit.source
           /\ \/ pc = "warm_load" /\ pc' = "warm_hlt" /\ pit'.set = "warm"
              \/ pc = "cal_load" /\ pc' = "cal_check" /\ pit'.set = "cal"

LEMMA TimerSteps ==
  ASSUME HandlerInv, [Next]_vars, pc' \in Starting
  PROVE  \/ UNCHANGED <<irr, seen>> /\ (Stays \/ Loads \/ Counts)
         \/ pit_tick
         \/ \E g \in Lines : device_edge(g)
         \/ \E v \in Vectors : deliver(v)
<1>1. pc \in Starting
  BY StartSteps
<1>2. DOMAIN pit = PitFields
  BY DEF HandlerInv
<1>3. CASE UNCHANGED vars
  BY <1>3 DEF vars, bvars, Stays, InPhase
<1>4. CASE cpu
  <2>1. CASE start_idt \/ parse \/ parse_entry \/ parse_next
    <3>1. /\ UNCHANGED <<irr, seen, pit>>
          /\ {pc, pc'} \subseteq {"start", "parse", "first_run", "second_run", "third_run", "lapic"}
      BY <2>1 DEF start_idt, parse, parse_entry, parse_next, Go, Starting, Parsing, BeforeRuns,
         Warming, Measuring
    <3> QED
      BY <3>1 DEF Stays, InPhase, Before, Listed, Parsing, BeforeRuns
  <2>2. CASE lapic_fails \/ lapic_init \/ lapic_on
    <3>1. /\ UNCHANGED <<irr, seen, pit>>
          /\ {pc, pc'} \subseteq {"lapic", "enable", "pit"}
      BY <2>2 DEF lapic_fails, lapic_init, lapic_on, Go, Starting, Parsing, BeforeRuns,
         Warming, Measuring
    <3> QED
      BY <3>1 DEF Stays, InPhase, Before, Listed
  <2>3. CASE pit_refused \/ pit_init \/ pit_route
    <3>1. /\ UNCHANGED <<irr, seen, pit>>
          /\ \/ {pc, pc'} \subseteq {"pit", "route", "warm"}
             \/ pc' = "sti" /\ "PIT" \notin mach.regions
      BY <2>3 DEF pit_refused, pit_init, pit_route, Go, Starting, Parsing, BeforeRuns,
         Warming, Measuring
    <3> QED
      BY <3>1 DEF Stays, InPhase, Before, Listed
  <2>4. CASE flags \/ calibrated \/ edit_step
    <3>1. /\ UNCHANGED <<irr, seen, pit>>
          /\ \/ {pc, pc'} \subseteq {"warm_end", "sti", "cal"}
             \/ pc' = pc
      BY <2>4 DEF flags, set_flag, calibrated, edit_step, bvars, Go, Starting, Parsing,
         BeforeRuns, Warming, Measuring
    <3> QED
      BY <3>1 DEF Stays, InPhase
  <2>5. ASSUME NEW o, NEW p, set_handlers("warm", "warm_mode", o, p) \/ set_handlers("cal", "cal_mode", o, p)
        PROVE  UNCHANGED <<irr, seen>> /\ Stays
    <3>1. /\ UNCHANGED <<irr, seen>> /\ pit' = [pit EXCEPT !.one_shot = o, !.periodic = p]
          /\ \/ pc = "warm" /\ pc' = "warm_mode"
             \/ pc = "cal" /\ pc' = "cal_mode"
      BY <2>5 DEF set_handlers, Go
    <3>2. pit'.mode = pit.mode /\ pit'.set = pit.set /\ pit'.source = pit.source
      BY <1>2, <3>1 DEF PitFields
    <3> QED
      BY <3>1, <3>2 DEF Stays, InPhase, Before
  <2>6. CASE set_mode("warm_mode", "warm_load") \/ set_mode("cal_mode", "cal_load")
    BY <1>2, <2>6 DEF set_mode, Go, Loads, PitFields
  <2>7. CASE \/ set_count("warm_load", "warm_hlt", "armed", "warm")
             \/ set_count("cal_load", "cal_check", "armed", "cal")
    BY <1>2, <2>7 DEF set_count, Go, Counts, PitFields
  <2>8. CASE \/ walk("warm_hlt", "warm_wait") \/ walk("cal_check", "cal_hlt")
             \/ walk("cal_hlt", "cal_wait")
    BY <2>8 DEF walk, Go, Stays, InPhase
  <2>9. CASE warm_up \/ calibrate
    BY <2>5, <2>6, <2>7, <2>8, <2>9 DEF warm_up, calibrate
  <2> QED
    BY <1>4, <2>1, <2>2, <2>3, <2>4, <2>9 DEF cpu
<1>5. CASE kernel \/ lapic_tick
  <2>1. pc \in Running
    BY <1>5, KernelSteps DEF lapic_tick, Running
  <2> QED
    BY <1>1, <2>1 DEF Running, Starting, Parsing, BeforeRuns, Warming, Measuring
<1> QED
  BY <1>3, <1>4, <1>5 DEF Next

\* The processor's steps keep what is known of the waiting tick.
LEMMA PhasesKept ==
  ASSUME Phases, mach' = mach, UNCHANGED seen, Waiting' => Waiting,
         Waiting => "PIT" \in mach.regions,
         Stays \/ Loads \/ Counts
  PROVE  Phases'
<1> USE DEF Phases, BeforePhase, LoadPhase, WaitPhase, WokenPhase, StalePhase, CalPhase, Before,
            Listed, Parsing, BeforeRuns
<1>1. CASE Loads
  BY <1>1 DEF Loads
<1>2. CASE Counts
  BY <1>2 DEF Counts
<1>3. CASE Stays
  BY <1>3 DEF Stays, InPhase
<1> QED
  BY <1>1, <1>2, <1>3

\* So does a tick: the timer's programming of the moment is its source.
LEMMA PhasesTick ==
  ASSUME Phases, UNCHANGED <<pc, mach>>,
         Waiting => Waiting' /\ pit'.source = pit.source,
         ~Waiting /\ Waiting' => pit'.source = pit.set,
         seen'.by = seen.by, seen'.woken = seen.woken, pit'.set = pit.set,
         \/ pit.mode = "armed" /\ pit'.mode = "expired"
         \/ pit.mode = "periodic" /\ pit'.mode = "periodic"
  PROVE  Phases'
<1> USE DEF Phases
<1>1. BeforePhase' /\ LoadPhase'
  BY DEF BeforePhase, LoadPhase
<1>2. WaitPhase'
  BY DEF WaitPhase
<1>3. WokenPhase'
  BY DEF WokenPhase
<1>4. StalePhase' /\ CalPhase'
  BY DEF StalePhase, CalPhase
<1> QED
  BY <1>1, <1>2, <1>3, <1>4

\* And the timer's interrupt, which ends the wait it meets.
LEMMA PhasesTrigger ==
  ASSUME Phases, HandlerInv, Own, mach' = mach, pc \in Starting \ Off, Waiting, ~Waiting',
         "PIT" \in mach.regions, NEW v, trigger(v), pc' = Resume
  PROVE  Phases' /\ Own'
<1>1. pit' = [pit EXCEPT !.one_shot = "none"]
  BY DEF trigger, Called, HandlerInv
<1>2. pit'.mode = pit.mode /\ pit'.set = pit.set /\ pit'.source = pit.source
  BY <1>1 DEF HandlerInv, PitFields
<1>3. /\ seen'.by = IF pit.one_shot = "calibrate" THEN pit.source ELSE seen.by
      /\ seen'.woken = IF pc = "warm_wait" THEN pit.source ELSE seen.woken
  BY DEF trigger, Noted, HandlerInv, History
<1>4. pit.one_shot = "calibrate" => pc \in Calibrating
  BY DEF HandlerInv, Starting, Parsing, BeforeRuns, Warming, Measuring, Dead
<1>5. CASE pc = "warm_wait"
  <2>1. pc' = "warm_end" /\ seen'.by = "none" /\ seen'.woken \in {"firmware", "warm"}
    BY <1>3, <1>4, <1>5 DEF Resume, Calibrating, Phases, WaitPhase
  <2>2. WokenPhase'
    BY <1>2, <1>3, <1>5, <2>1 DEF WokenPhase, Phases, WaitPhase
  <2> QED
    BY <2>1, <2>2 DEF Phases, BeforePhase, LoadPhase, WaitPhase, StalePhase, CalPhase, Before,
       Listed, Parsing, BeforeRuns, Own
<1>6. CASE pc = "cal_wait"
  <2>1. pc' = "cal_check" /\ seen'.woken = seen.woken
    BY <1>3, <1>6 DEF Resume
  <2>2. CalPhase'
    BY <1>2, <1>6, <2>1 DEF CalPhase, Phases
  <2>3. Own'
    BY <1>3, <1>6, <2>1 DEF Phases, CalPhase, Own
  <2> QED
    BY <2>1, <2>2, <2>3 DEF Phases, BeforePhase, LoadPhase, WaitPhase, StalePhase, WokenPhase,
       Before, Listed, Parsing, BeforeRuns
<1>7. CASE pc \notin {"warm_wait", "cal_wait"}
  <2>1. pc' = pc /\ seen'.woken = seen.woken /\ (pc \notin Calibrating => seen'.by = seen.by)
    BY <1>3, <1>4, <1>7 DEF Resume
  <2>2. BeforePhase' /\ LoadPhase' /\ WaitPhase'
    BY <1>2, <2>1 DEF Phases, BeforePhase, LoadPhase, WaitPhase, Calibrating, Before, Listed,
       Parsing, BeforeRuns
  <2>3. WokenPhase' /\ StalePhase' /\ CalPhase'
    BY <1>2, <2>1 DEF Phases, WokenPhase, StalePhase, CalPhase
  <2>4. Own'
    <3>1. CASE pit.one_shot # "calibrate"
      BY <1>3, <2>1, <3>1 DEF Own
    <3>2. CASE pit.one_shot = "calibrate"
      <4>1. pit.source = "cal" \/ (pit.source = "warm" /\ seen.woken = "firmware")
        BY <1>4, <1>7, <3>2 DEF Calibrating, Phases, WokenPhase, StalePhase, CalPhase
      <4> QED
        BY <1>3, <2>1, <3>2, <4>1 DEF Own
    <3> QED
      BY <3>1, <3>2
  <2> QED
    BY <2>2, <2>3, <2>4 DEF Phases
<1> QED
  BY <1>5, <1>6, <1>7

\* The history changes in an interrupt of the timer only.
LEMMA SeenSteps ==
  ASSUME HandlerInv, [Next]_vars
  PROVE  \/ seen'.by = seen.by /\ seen'.woken = seen.woken
         \/ \E v \in Vectors : deliver(v) /\ trigger(v)
<1>1. DOMAIN seen = History
  BY DEF HandlerInv
<1>2. CASE UNCHANGED vars
  BY <1>2 DEF vars, bvars
<1>3. CASE cpu
  <2>1. CASE start_idt \/ parse \/ parse_entry \/ parse_next \/ lapic_fails \/ lapic_init \/ lapic_on
    BY <2>1 DEF start_idt, parse, parse_entry, parse_next, lapic_fails, lapic_init, lapic_on
  <2>2. CASE pit_refused \/ pit_init \/ pit_route \/ flags \/ calibrated \/ edit_step
    BY <2>2 DEF pit_refused, pit_init, pit_route, flags, set_flag, calibrated, edit_step, bvars
  <2>3. CASE warm_up \/ calibrate
    BY <2>3 DEF warm_up, calibrate, set_handlers, set_mode, set_count, walk
  <2> QED
    BY <1>3, <2>1, <2>2, <2>3 DEF cpu
<1>4. CASE kernel
  <2>1. ASSUME NEW target, NEW mode, kernel_ipi(target, mode)
        PROVE  seen'.by = seen.by /\ seen'.woken = seen.woken
    BY <1>1, <2>1 DEF kernel_ipi, History
  <2>2. CASE kernel_timer
    BY <2>2 DEF kernel_timer, set_handlers, set_mode, set_count
  <2>3. CASE \/ \E d \in Drivers : driver_register(d)
             \/ \E d \in Drivers, v \in Vectors : driver_route(d, v)
             \/ \E v \in Vectors : driver_release(v) \/ driver_release_wild(v)
             \/ \E d \in Drivers, v \in Vectors : kernel_system_handler(v, d)
             \/ \E v \in Vectors : kernel_lapic_timer(v)
    BY <2>3 DEF driver_register, driver_route, driver_release, driver_release_wild,
       kernel_system_handler, kernel_lapic_timer
  <2> QED
    BY <1>4, <2>1, <2>2, <2>3 DEF kernel
<1>5. CASE pit_tick
  BY <1>1, <1>5 DEF pit_tick, History
<1>6. CASE lapic_tick \/ \E g \in Lines : device_edge(g)
  BY <1>6 DEF lapic_tick, device_edge
<1>7. CASE \E v \in Vectors : deliver(v)
  BY <1>7 DEF deliver
<1> QED
  BY <1>2, <1>3, <1>4, <1>5, <1>6, <1>7 DEF Next

TickInv == BootInv /\ HitInv /\ HandlerInv /\ WaitInv /\ OwnInv

LEMMA OwnStep == ASSUME TickInv, [Next]_vars PROVE OwnInv'
<1>1. BootInv /\ HitInv /\ HandlerInv /\ WaitInv /\ OwnInv /\ mach' = mach
  BY PlatSteps DEF TickInv
<1> SUFFICES ASSUME Undisturbed(mach) PROVE Own' /\ (pc' \in Starting => Phases')
  BY <1>1 DEF OwnInv
<1>2. Own /\ (pc \in Starting => Phases)
  BY <1>1 DEF OwnInv
<1>3. Waiting /\ pc \in Starting => "PIT" \in mach.regions
  BY <1>1 DEF BootInv, Waiting, Bootable
<1>4. pc' \in Starting => pc \in Starting
  BY StartSteps
<1>5. ASSUME NEW v \in Vectors, deliver(v), pc \in Starting
      PROVE  Own' /\ (pc' \in Starting => Phases')
  <2>1. CASE pc' = "fault" /\ UNCHANGED seen
    BY <1>2, <2>1 DEF Own, Starting, Parsing, BeforeRuns, Warming, Measuring
  <2>2. CASE pc' = Resume /\ trigger(v) /\ Waiting /\ ~Waiting' /\ pc \notin Off
    BY <1>1, <1>2, <1>3, <1>5, <2>2, PhasesTrigger
  <2> QED
    BY <1>1, <1>5, <2>1, <2>2, StartInterrupt
<1>6. ASSUME pc \notin Starting, \E v \in Vectors : deliver(v) /\ trigger(v)
      PROVE  seen'.by = seen.by /\ seen'.woken = seen.woken
  <2>1. pc \notin Dead
    BY <1>6 DEF deliver, Dead
  <2>2. pit.one_shot # "calibrate" /\ pc # "warm_wait"
    BY <1>1, <1>6, <2>1 DEF HandlerInv, Calibrating, Starting, Warming, Measuring
  <2> QED
    BY <1>1, <1>6, <2>2 DEF trigger, Noted, HandlerInv, History
<1>7. Own'
  <2>1. CASE seen'.by = seen.by /\ seen'.woken = seen.woken
    BY <1>2, <2>1 DEF Own
  <2>2. CASE \E v \in Vectors : deliver(v) /\ trigger(v)
    BY <1>5, <1>6, <2>1, <2>2
  <2> QED
    BY <1>1, <2>1, <2>2, SeenSteps
<1>8. ASSUME pc' \in Starting PROVE Phases'
  <2>1. pc \in Starting /\ Phases
    BY <1>2, <1>4, <1>8
  <2>2. CASE UNCHANGED <<irr, seen>> /\ (Stays \/ Loads \/ Counts)
    <3>1. Waiting' = Waiting /\ seen' = seen
      BY <2>2 DEF Waiting
    <3> QED
      BY <1>1, <1>3, <2>1, <2>2, <3>1, PhasesKept
  <2>3. CASE pit_tick
    <3>1. /\ UNCHANGED <<pc, mach>>
          /\ Waiting => Waiting' /\ pit'.source = pit.source
          /\ ~Waiting /\ Waiting' => pit'.source = pit.set
          /\ seen'.by = seen.by /\ seen'.woken = seen.woken /\ pit'.set = pit.set
          /\ \/ pit.mode = "armed" /\ pit'.mode = "expired"
             \/ pit.mode = "periodic" /\ pit'.mode = "periodic"
      BY <1>1, <2>1, <2>3, StartTick
    <3> QED
      BY <2>1, <3>1, PhasesTick
  <2>4. CASE \E g \in Lines : device_edge(g)
    <3>1. (Waiting' => Waiting) /\ UNCHANGED <<pc, mach, pit, seen>>
      BY <1>1, <2>1, <2>4, StartEdge
    <3>2. Stays
      BY <3>1 DEF Stays, InPhase
    <3> QED
      BY <1>3, <2>1, <3>1, <3>2, PhasesKept
  <2>5. CASE \E v \in Vectors : deliver(v)
    BY <1>5, <1>8, <2>1, <2>5
  <2> QED
    BY <1>1, <1>8, <2>2, <2>3, <2>4, <2>5, TimerSteps
<1> QED
  BY <1>7, <1>8

LEMMA TickStep == ASSUME TickInv, [Next]_vars PROVE TickInv'
<1>1. BootInv /\ HitInv /\ HandlerInv /\ WaitInv
  BY DEF TickInv
<1>2. IdtInv /\ TwoVectors
  BY <1>1 DEF BootInv, ListInv, SourceInv, TableInv
<1>3. BootInv' /\ HandlerInv' /\ WaitInv'
  BY <1>1, BootStep, HandlerStep, WaitStep
<1>4. HitInv'
  BY <1>1, <1>2, HitStep
<1> QED
  BY <1>3, <1>4, OwnStep DEF TickInv

LEMMA TickInit == ASSUME Init PROVE TickInv
<1>1. BootInv
  BY BootInit
<1>2. /\ pc = "start" /\ irr = {} /\ IdtInit
      /\ pit = [mode |-> "periodic", set |-> "firmware", source |-> "none",
                one_shot |-> "none", periodic |-> "none"]
      /\ seen = [late |-> FALSE, woken |-> "none", by |-> "none", ran |-> {},
                 ipi |-> -1, other |-> FALSE]
  BY DEF Init
<1>3. HitInv
  BY <1>2 DEF HitInv, OwnedGates, IdtInit
<1>4. HandlerInv
  BY <1>2 DEF HandlerInv, PitFields, History, Starting, Dead
<1>5. WaitInv /\ OwnInv
  BY <1>2 DEF WaitInv, OwnInv, Waiting, Own, Phases, BeforePhase, LoadPhase, WaitPhase,
     WokenPhase, StalePhase, CalPhase
<1> QED
  BY <1>1, <1>3, <1>4, <1>5 DEF TickInv

\* What is known at every moment of the tick that waits, of the timer and its handlers,
\* and of the machine.
THEOREM TickInvariant == Spec => []TickInv
<1>1. Init => TickInv
  BY TickInit
<1>2. TickInv /\ [Next]_vars => TickInv'
  BY TickStep
<1> QED
  BY <1>1, <1>2, PTL DEF Spec

\* The tick that ends the calibration (lapic.cc:174) is that of its own one-shot, or of
\* the first one if a tick of the firmware's ended the wait for it (pit.cc:54); and a
\* handler that a one-shot handler sets never runs (pit.cc:100).
THEOREM TickIsOwn == Spec => []OwnTick
<1>1. TickInv => OwnTick
  BY DEF TickInv, OwnInv, Own, HandlerInv, OwnTick
<1> QED
  BY <1>1, TickInvariant, PTL
=============================================================================
