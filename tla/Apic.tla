-------------------------------- MODULE Apic --------------------------------
(***************************************************************************)
(* The registers of the interrupt controllers and what the kernel does to  *)
(* them: src/kernel/processor/ioapic.cc and src/kernel/processor/lapic.cc. *)
(*                                                                         *)
(* A redirection entry or an entry of the local vector table holds a       *)
(* vector (bits 0 to 7) and the set of the bits from 8 on that are set:    *)
(* 8 to 10 the delivery mode, 11 logical destination, 12 delivery status,  *)
(* 13 active low, 15 level triggered, 16 masked, 17 periodic.  The upper   *)
(* half of a redirection entry is the destination, which is always "all".  *)
(***************************************************************************)
EXTENDS Integers, Sequences, FiniteSets

Modes  == {"conform", "edge", "reserved", "level"}   \* TriggerMode
Levels == {"conform", "high", "reserved", "low"}     \* Polarity

Bits  == 8 .. 17
NMI   == {10}                                        \* kNMI, 0x400
Entry == [vector : 0 .. 255, bits : SUBSET Bits]
Clear == [vector |-> 0, bits |-> {}]

Masked(e) == 16 \in e.bits
With(e, B)    == [e EXCEPT !.bits = @ \cup B]
Without(e, B) == [e EXCEPT !.bits = @ \ B]

-----------------------------------------------------------------------------
(* IO APICs: base and size are what the driver remembers, pins the device. *)
(* size is the highest index of a pin, as the version register gives it.   *)

start(a) == a.base
range(a) == (a.base + a.size) % 256
Serves(a, g) == start(a) <= g /\ g <= range(a)

\* The window register: an index behind the last pin reads 0, writes are lost.
ReadPin(a, r) == IF r \in DOMAIN a.pins THEN a.pins[r] ELSE Clear
WritePin(a, r, e) == IF r \in DOMAIN a.pins THEN [a EXCEPT !.pins[r] = e] ELSE a

\* ioapic::_irq_flags
ioapic_flags(trigger, polarity) ==
  (IF trigger = "level" THEN {15} ELSE {}) \cup (IF polarity = "low" THEN {13} ELSE {})

\* Mutation: the pins keep what the firmware left.
ioapic_init_unmasked(a, base, granted) ==
  IF ~granted THEN a ELSE [a EXCEPT !.base = base, !.size = Cardinality(DOMAIN a.pins) - 1]

\* ioapic::init.  The device's pins count from 0 to the size, of which the loop
\* masks all but the last.  Without the region the object stays as constructed.
ioapic_init(a, base, granted) ==
  LET last == Cardinality(DOMAIN a.pins) - 1
  IN  IF ~granted THEN a
      ELSE [base |-> base, size |-> last,
            pins |-> [r \in DOMAIN a.pins |-> IF r < last THEN With(a.pins[r], {16})
                                              ELSE a.pins[r]]]

\* ioapic::set_route: the entry is written anew, masked.  The register index is
\* the global interrupt, not its distance from the base.
ioapic_set_route(a, g, target, trigger, polarity) ==
  IF ~Serves(a, g) THEN a
  ELSE WritePin(a, g, [vector |-> target,
                       bits   |-> ioapic_flags(trigger, polarity) \cup {11, 16}])

ioapic_set_mask(a, g, masked) ==
  IF ~Serves(a, g) THEN a
  ELSE WritePin(a, g, With(Without(ReadPin(a, g), {16}), IF masked THEN {16} ELSE {}))

ioapic_set_nmi(a, g, trigger, polarity) ==
  IF ~Serves(a, g) THEN a
  ELSE WritePin(a, g, With(Without(ReadPin(a, g), {8, 9, 10, 13, 14, 15}),
                           ioapic_flags(trigger, polarity) \cup NMI))

-----------------------------------------------------------------------------
(* Local APICs.  nmi is the pin that the tables name for the NMI, 255 while *)
(* there is none; lvt is the local vector table; svr is the vector of the   *)
(* spurious interrupt, 0 before the controller is enabled.                  *)

LvtNames == {"LINT0", "LINT1", "Timer", "Thermal", "PerfMon", "Error"}

\* The constructor: an object for the controller with the given id.
new_lapic(id, address, lvt) ==
  [id |-> id, address |-> address, nmi |-> 255, trigger |-> "conform",
   polarity |-> "conform", init_done |-> FALSE, mapped |-> FALSE, svr |-> 0,
   timer |-> "stopped", lvt |-> lvt]

\* lapic::_irq_flags: active low is meant, bit 12 is the delivery status.
lapic_flags(trigger, polarity) ==
  (IF trigger = "level" THEN {15} ELSE {}) \cup (IF polarity = "low" THEN {12} ELSE {})

\* lapic::set_mask
lapic_set_mask(l, name, masked) ==
  [l EXCEPT !.lvt[name] = IF masked THEN With(@, {16}) ELSE Without(@, {16})]

\* lapic::set_route: the flags are added to what is there.
lapic_set_route(l, name, target, trigger, polarity) ==
  [l EXCEPT !.lvt[name] = With([@ EXCEPT !.vector = target],
                               lapic_flags(trigger, polarity))]

\* lapic::set_timer.  The argument is called msec and counts microseconds: less
\* than 1000 of them load a count of 0, which is to stop the timer.
lapic_set_timer(l, msec, repeat) ==
  [l EXCEPT !.lvt["Timer"] = With(Without(@, {16, 17}), IF repeat THEN {17} ELSE {}),
            !.timer = IF msec \div 1000 = 0 THEN "stopped"
                      ELSE IF repeat THEN "again" ELSE "once"]

\* lapic::clr_timer
lapic_clr_timer(l) == [lapic_set_mask(l, "Timer", TRUE) EXCEPT !.timer = "stopped"]

\* The register behind numeric(kLINT0) or numeric(kLINT1): the offsets 1 and 2
\* are in the reserved part of the page, where writes are lost.
NmiRegister(l, lint) == "reserved"
WriteLvt(l, name, e) == IF name \in LvtNames THEN [l EXCEPT !.lvt[name] = e] ELSE l

\* lapic::set_nmi: kept for init until that has run.
lapic_set_nmi(l, lint, trigger, polarity) ==
  IF ~l.init_done
  THEN [l EXCEPT !.nmi = lint, !.trigger = trigger, !.polarity = polarity]
  ELSE WriteLvt(l, NmiRegister(l, lint), With(Clear, lapic_flags(trigger, polarity) \cup NMI))

MaskAll(l) == [l EXCEPT !.lvt = [n \in LvtNames |-> With(l.lvt[n], {16})]]

\* The first part of lapic::init, up to the spurious vector.
lapic_map(l) == [MaskAll(l) EXCEPT !.mapped = TRUE]

\* The rest of lapic::init: software enable, then the NMI.
lapic_enable(l, vector) ==
  LET on == [l EXCEPT !.svr = vector]
  IN  IF l.nmi = 255 THEN on
      ELSE lapic_set_nmi([on EXCEPT !.init_done = TRUE], l.nmi, l.trigger, l.polarity)

-----------------------------------------------------------------------------
(* Interprocessor interrupts: the command register in two halves. *)

\* Mutation: the target is written for a broadcast only.
send_ipi_swapped(icr, target, mode, delivery, vector) ==
  [hi |-> IF mode # "none" /\ target # 0 THEN target ELSE icr.hi,
   lo |-> [mode |-> mode, delivery |-> delivery,
           vector |-> IF delivery \in {"fixed", "sipi"} THEN vector ELSE 0]]

\* lapic::_send_ipi: hi holds the target, lo what is sent.  A target of 0 is not
\* written, the register keeps the one before; so it is with a broadcast.
send_ipi(icr, target, mode, delivery, vector) ==
  IF delivery = "extint" THEN icr ELSE
  [hi |-> IF mode = "none" /\ target # 0 THEN target ELSE icr.hi,
   lo |-> [mode |-> mode, delivery |-> delivery,
           vector |-> IF delivery \in {"fixed", "sipi"} THEN vector ELSE 0]]
=============================================================================
