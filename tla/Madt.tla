-------------------------------- MODULE Madt --------------------------------
(***************************************************************************)
(* The ACPI table of the interrupt controllers, read by parse_madt in      *)
(* src/kernel/acpi/acpi.cc, and the parts of src/kernel/processor/core.cc  *)
(* it calls.                                                               *)
(*                                                                         *)
(* A table is a sequence of entries, as the iterator over it yields them.  *)
(* Three runs over it build the platform p: irqs (the global interrupt and *)
(* the flags of each ISA source), lapics (one per processor, NoLapic while *)
(* none is known) and ioapics, which are known by the place of their entry *)
(* in the table.  An operator here is what a run does with one entry.      *)
(* Finding and verifying the tables in the firmware's memory is not        *)
(* modelled; a machine without one is "no table".                          *)
(***************************************************************************)
EXTENDS Apic, FiniteSetsExt

CONSTANTS
  Irqs,      \* bound: NUM_IRQ_ENTRIES
  NoLapic,   \* a null pointer
  NoTable    \* _get_table found no MADT

ASSUME MadtAssumption == Irqs \in 1 .. 256

Sources == 0 .. Irqs - 1

\* Processor ids, lints and (bound: as core::set_nmi takes them) interrupts are bytes.
Byte == 0 .. 255

\* What a table consists of.
EntryOK(e) ==
  \/ e \in [type : {"lapic"}, processor : Byte, apic : Byte]
  \/ \E n \in 1 .. 256 : e \in [type : {"ioapic"}, base : Nat, pins : [0 .. n - 1 -> Entry]]
  \/ e \in [type : {"override"}, source : Byte, global : Byte, trigger : Modes, polarity : Levels]
  \/ e \in [type : {"nmi"}, global : Byte, trigger : Modes, polarity : Levels]
  \/ e \in [type : {"lapicnmi"}, processor : Byte, lint : Byte, trigger : Modes,
            polarity : Levels]
  \/ e \in [type : {"address"}, base : Nat]

Fresh(s) == [target |-> s, trigger |-> "conform", polarity |-> "conform"]

\* The places of the entries of a type.
Entries(madt, type) ==
  IF madt = NoTable THEN {} ELSE {j \in DOMAIN madt : madt[j].type = type}

-----------------------------------------------------------------------------
(* First run: count, and collect the overrides. *)

core_base(madt) == Min({255} \cup {madt[j].processor : j \in Entries(madt, "lapic")})
core_count(madt) == Cardinality(Entries(madt, "lapic"))

\* core::irqs and interrupt::setup
Override(irqs, e) ==
  IF e.source \in Sources
  THEN [irqs EXCEPT ![e.source] = [target |-> e.global, trigger |-> e.trigger,
                                   polarity |-> e.polarity]]
  ELSE irqs

first_run(p, e) ==
  CASE e.type = "override" -> [p EXCEPT !.irqs = Override(@, e)]
    [] e.type = "address"  -> [p EXCEPT !.lapic_base = e.base]
    [] OTHER               -> p

-----------------------------------------------------------------------------
(* Second run: the objects.  The sums and differences of processor ids are *)
(* unsigned, so that an id below the base is out of every range.           *)

\* core::instance, as an index of lapics; FALSE for the null pointer.
Instance(madt, id) ==
  id >= core_base(madt) /\ (id = core_base(madt) \/ id - core_base(madt) < core_count(madt))

\* The objects, as constructed before the second run.
NewLapics(madt) == [c \in 0 .. core_count(madt) - 1 |-> NoLapic]
NewIoapics(madt) ==
  [j \in Entries(madt, "ioapic") |-> [base |-> 0, size |-> 0, pins |-> madt[j].pins]]

second_run(madt, lvt, granted, p, j) ==
  LET e == madt[j]
  IN  CASE e.type = "lapic"  ->
             [p EXCEPT !.lapics[e.processor - core_base(madt)] =
                         new_lapic(e.apic, p.lapic_base, lvt)]
        [] e.type = "ioapic" ->
             [p EXCEPT !.ioapics[j] = ioapic_init(@, e.base % 256, granted)]
        [] OTHER             -> p

-----------------------------------------------------------------------------
(* Third run: non-maskable interrupts. *)

\* The IO APIC that core::route_isa_irq and core::set_nmi find, 0 if none.
FirstServing(ioapics, g) ==
  LET I == {i \in DOMAIN ioapics : Serves(ioapics[i], g)} IN IF I = {} THEN 0 ELSE Min(I)

\* core::set_nmi.  The global interrupt of the entry is looked up as if it were
\* an ISA source; only what lies behind the table of sources is refused.
set_nmi(p, e) ==
  LET i == IF e.global \in Sources THEN FirstServing(p.ioapics, p.irqs[e.global].target) ELSE 0
  IN  IF i = 0 THEN p
      ELSE [p EXCEPT !.irqs[e.global] = [@ EXCEPT !.trigger = e.trigger, !.polarity = e.polarity],
                     !.ioapics[i] = ioapic_set_nmi(@, p.irqs[e.global].target,
                                                   e.trigger, e.polarity)]

\* The processors that an entry for a local NMI is about.
Named(madt, e) ==
  IF e.processor = 255 THEN 0 .. core_count(madt) - 1
  ELSE {e.processor - core_base(madt)} \cap 0 .. core_count(madt) - 1

SetLocalNmi(madt, p, e) ==
  [p EXCEPT !.lapics = [c \in DOMAIN p.lapics |->
     IF c \in Named(madt, e) /\ p.lapics[c] # NoLapic
     THEN lapic_set_nmi(p.lapics[c], e.lint, e.trigger, e.polarity)
     ELSE p.lapics[c]]]

\* Mutation: a local NMI is taken for one of all processors only.
third_run_all(madt, p, e) ==
  IF e.type = "nmi" THEN set_nmi(p, e)
  ELSE IF e.type = "lapicnmi" /\ e.processor = 255 THEN SetLocalNmi(madt, p, e) ELSE p

third_run(madt, p, e) ==
  CASE e.type = "nmi"      -> set_nmi(p, e)
    [] e.type = "lapicnmi" -> SetLocalNmi(madt, p, e)
    [] OTHER               -> p

-----------------------------------------------------------------------------
(* Entries at which a run uses a null pointer, or writes to address 0. *)

\* A local NMI for the processor behind the last passes the check in line 287,
\* and the null pointer that core::instance returns is used.
PastTheLast(madt, e) ==
  /\ e.type = "lapicnmi" /\ e.processor # 255
  /\ e.processor - core_base(madt) = core_count(madt)

\* An IO APIC whose registers were not mapped counts as serving interrupt 0, and
\* is written to at address 0.
second_run_faults(madt, e) == e.type = "lapic" /\ ~Instance(madt, e.processor)
third_run_faults(madt, granted, p, e) ==
  \/ PastTheLast(madt, e)
  \/ e.type = "nmi" /\ e.global \in Sources /\ ~granted /\ p.irqs[e.global].target = 0

-----------------------------------------------------------------------------
\* core::route_isa_irq; p unchanged and FALSE when no IO APIC serves the target.
Routable(p, source) ==
  source \in Sources /\ FirstServing(p.ioapics, p.irqs[source].target) # 0

route_isa_irq(p, source, vector) ==
  LET g == p.irqs[source].target  i == FirstServing(p.ioapics, g)
  IN  [p EXCEPT !.ioapics[i] =
         ioapic_set_mask(
           ioapic_set_route(@, g, vector, p.irqs[source].trigger, p.irqs[source].polarity),
           g, FALSE)]
=============================================================================
