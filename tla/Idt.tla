--------------------------------- MODULE Idt --------------------------------
(***************************************************************************)
(* The interrupt descriptor table, src/kernel/idt.cc, and the code that an *)
(* interrupt runs through, src/kernel/interrupts.S.                        *)
(*                                                                         *)
(* A gate (descriptor) leads to a stub.  The stubs of the system vectors   *)
(* are fixed; the others are patched when a handler is registered: each    *)
(* pushes a number, which selects the handler in the pointer table, and    *)
(* the context of its registrant.  The handler and the context are modelled *)
(* by the name of the registrant.                                          *)
(*                                                                         *)
(* register_irq_handler and release_irq_handler run with interrupts on:    *)
(* each store that an interrupt can tell from the next one is an action.   *)
(* The lock makes them take turns.                                         *)
(***************************************************************************)
EXTENDS Integers, Sequences, FiniteSets

CONSTANTS
  Reserved,     \* IDT_RESERVED, 32: the last system vector
  Descriptors,  \* IDT_DESCRIPTORS, 255
  Unused,       \* system vectors that have neither a stub nor a gate
  Registrants,  \* who registers handlers
  Magic,        \* IDT_STUB_NR_MAGIC: the number in a free stub
  Idle          \* no call is in progress

Vectors == 0 .. Descriptors - 1
Stubs   == 0 .. Descriptors - Reserved - 1

ASSUME IdtAssumption ==
  /\ Reserved \in Nat /\ Descriptors \in Nat /\ Reserved + 1 < Descriptors
  /\ Unused \subseteq 0 .. Reserved - 1
  /\ Magic \notin Int
  /\ Idle \notin [op : {"context", "pointer", "clear", "gate", "unpoint", "absent"},
                  who : Registrants, at : Nat]

VARIABLES
  stub,    \* the patched stubs: number and context
  table,   \* _interrupt_pointer_table
  gate,    \* the descriptors: present, and where they lead
  edit,    \* the register or release call in progress
  owner,   \* the registrant that a vector was returned to, "none" before that
  hit      \* stubs that a release has reset

ivars == <<stub, table, gate, edit, owner, hit>>

FreeStub == [nr |-> Magic, ctx |-> "none"]

-----------------------------------------------------------------------------
(* init *)

\* The numbers that the system stubs push; interrupts.S lists them in order.
SystemStubs == (0 .. Reserved) \ Unused

\* What the stub at place k pushes.
StubAt(k) == CHOOSE n \in SystemStubs : Cardinality({m \in SystemStubs : m < n}) = k

\* The loop of init: the address advances with every vector but the unused.
SystemStub(v) == StubAt(v - Cardinality({u \in Unused : u < v}))

\* The stubs are as the linker left them; register_system_handler finds every
\* entry free.  Behind the system vectors the gates are not present.
idt_init ==
  /\ table' = [v \in Vectors |-> IF v <= Reserved THEN "default" ELSE "none"]
  /\ gate' = [v \in Vectors |-> IF v <= Reserved /\ v \notin Unused
                                THEN [present |-> TRUE, to |-> "system", nr |-> SystemStub(v)]
                                ELSE [present |-> FALSE, to |-> "none", nr |-> 0]]
  /\ UNCHANGED <<stub, edit, owner, hit>>

\* register_system_handler: the first to ask gets the vector.
register_system_handler(v, who) ==
  /\ edit = Idle
  /\ v <= Reserved /\ table[v] \in {"none", "default"}
  /\ table' = [table EXCEPT ![v] = who]
  /\ UNCHANGED <<stub, gate, edit, owner, hit>>

-----------------------------------------------------------------------------
(* register_irq_handler *)

\* Mutation: a stub that is taken is free as well.
FreeStubsAny == {i \in Stubs : i < Descriptors - Reserved - 1}

\* The loop looks at the stubs but the last, in order.
FreeStubs == {i \in Stubs : i < Descriptors - Reserved - 1 /\ stub[i].nr = Magic}
Lowest(S) == CHOOSE i \in S : \A j \in S : i <= j
VectorOf(i) == Reserved + 1 + i

\* A free stub is found, and its number patched.
register_irq_handler(who) ==
  /\ edit = Idle /\ FreeStubs # {}
  /\ LET i == Lowest(FreeStubs) IN
       /\ stub' = [stub EXCEPT ![i] = [@ EXCEPT !.nr = VectorOf(i)]]
       /\ edit' = [op |-> "context", who |-> who, at |-> i]
  /\ UNCHANGED <<table, gate, owner, hit>>

\* No stub is free; the call returns false.
register_full(who) ==
  /\ edit = Idle /\ FreeStubs = {}
  /\ UNCHANGED ivars

patch_context ==
  /\ edit # Idle /\ edit.op = "context"
  /\ stub' = [stub EXCEPT ![edit.at] = [@ EXCEPT !.ctx = edit.who]]
  /\ edit' = [edit EXCEPT !.op = "pointer"]
  /\ UNCHANGED <<table, gate, owner, hit>>

set_pointer ==
  /\ edit # Idle /\ edit.op = "pointer"
  /\ table' = [table EXCEPT ![VectorOf(edit.at)] = edit.who]
  /\ edit' = [edit EXCEPT !.op = "clear"]
  /\ UNCHANGED <<stub, gate, owner, hit>>

\* _setup_idt_descriptor clears the descriptor ...
clear_gate ==
  /\ edit # Idle /\ edit.op = "clear"
  /\ gate' = [gate EXCEPT ![VectorOf(edit.at)] = [@ EXCEPT !.present = FALSE]]
  /\ edit' = [edit EXCEPT !.op = "gate"]
  /\ UNCHANGED <<stub, table, owner, hit>>

\* Mutation: the gate leads to the stub behind.
set_gate_next ==
  /\ edit # Idle /\ edit.op = "gate"
  /\ gate' = [gate EXCEPT ![VectorOf(edit.at)] =
                [present |-> TRUE, to |-> "stub", nr |-> edit.at + 1]]
  /\ owner' = [owner EXCEPT ![VectorOf(edit.at)] = edit.who]
  /\ edit' = Idle
  /\ UNCHANGED <<stub, table, hit>>

\* ... and fills it in, "present" last.  The vector is returned.
set_gate ==
  /\ edit # Idle /\ edit.op = "gate"
  /\ gate' = [gate EXCEPT ![VectorOf(edit.at)] =
                [present |-> TRUE, to |-> "stub", nr |-> edit.at]]
  /\ owner' = [owner EXCEPT ![VectorOf(edit.at)] = edit.who]
  /\ edit' = Idle
  /\ UNCHANGED <<stub, table, hit>>

-----------------------------------------------------------------------------
(* release_irq_handler *)

\* The stub that a release of vector v resets: number v, not that of v.
ReleasedStub(v) == v

\* A vector that its registrant releases; the stub is reset.  A stub behind the
\* last is no stub: release_wild.
release_irq_handler(v) ==
  /\ edit = Idle /\ v > Reserved /\ v \in Vectors /\ owner[v] # "none"
  /\ ReleasedStub(v) \in Stubs
  /\ stub' = [stub EXCEPT ![ReleasedStub(v)] = FreeStub]
  /\ hit' = hit \cup {ReleasedStub(v)}
  /\ owner' = [owner EXCEPT ![v] = "none"]
  /\ edit' = [op |-> "unpoint", who |-> owner[v], at |-> v]
  /\ UNCHANGED <<table, gate>>

clear_pointer ==
  /\ edit # Idle /\ edit.op = "unpoint"
  /\ table' = [table EXCEPT ![edit.at] = "wild"]
  /\ edit' = [edit EXCEPT !.op = "absent"]
  /\ UNCHANGED <<stub, gate, owner, hit>>

drop_gate ==
  /\ edit # Idle /\ edit.op = "absent"
  /\ gate' = [gate EXCEPT ![edit.at] = [@ EXCEPT !.present = FALSE]]
  /\ edit' = Idle
  /\ UNCHANGED <<stub, table, owner, hit>>

-----------------------------------------------------------------------------
(* interrupts.S *)

\* What an interrupt with vector v runs, and with which context: "fault" for a
\* gate that is not present, "wild" for a number that is none.
Dispatch(v) ==
  IF ~gate[v].present THEN [fn |-> "fault", ctx |-> "none"]
  ELSE IF gate[v].to = "system" THEN [fn |-> table[gate[v].nr], ctx |-> "none"]
  ELSE LET s == stub[gate[v].nr]
       IN  [fn |-> IF s.nr = Magic THEN "wild" ELSE table[s.nr], ctx |-> s.ctx]

-----------------------------------------------------------------------------
IdtInit ==
  /\ stub = [i \in Stubs |-> FreeStub]
  /\ table = [v \in Vectors |-> "none"]
  /\ gate = [v \in Vectors |-> [present |-> FALSE, to |-> "none", nr |-> 0]]
  /\ edit = Idle
  /\ owner = [v \in Vectors |-> "none"]
  /\ hit = {}

\* The steps of a call that is in progress.
EditStep ==
  patch_context \/ set_pointer \/ clear_gate \/ set_gate \/ clear_pointer \/ drop_gate

-----------------------------------------------------------------------------
(* Properties *)

Held(v) == owner[v] # "none"
Taken(v) == \E i \in hit : VectorOf(i) = v

\* A vector that a registrant holds runs its handler with its context, at any
\* moment and also while another handler is registered or released, unless a
\* release has reset the stub of that vector (idt.cc:250): then a wild pointer
\* is called, or the handler of whoever gets the stub next.  A system vector
\* runs its own entry of the pointer table: the stubs that the unused vectors
\* lack do not shift the others (idt.cc:316, 334).
RightHandler ==
  \A v \in Vectors :
    /\ Held(v) /\ ~Taken(v) => Dispatch(v) = [fn |-> owner[v], ctx |-> owner[v]]
    /\ gate[v].present /\ gate[v].to = "system" => gate[v].nr = v

\* No one is given a vector that another one holds, but for a stub that a
\* release has reset.
Exclusive ==
  [][\A v \in Vectors : Held(v) /\ owner'[v] # owner[v] /\ owner'[v] # "none" => Taken(v)]_ivars
=============================================================================
