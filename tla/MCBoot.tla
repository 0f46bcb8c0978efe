------------------------------- MODULE MCBoot -------------------------------
(* Machines for Boot: the tables differ in what the parser could trip over. *)
EXTENDS Boot

FirmwareVector == 6

\* n pins as the firmware leaves them: masked, or live with its own vector.
Pins(n, live) ==
  [r \in 0 .. n - 1 |-> IF r \in live THEN [vector |-> FirmwareVector, bits |-> {}]
                        ELSE [vector |-> 0, bits |-> {16}]]

Lapic(id)     == [type |-> "lapic", processor |-> id, apic |-> id]
Ioapic(b, n)  == [type |-> "ioapic", base |-> b, pins |-> Pins(n, {})]
To(s, g)      == [type |-> "override", source |-> s, global |-> g,
                  trigger |-> "conform", polarity |-> "low"]
Nmi(g)        == [type |-> "nmi", global |-> g, trigger |-> "edge", polarity |-> "high"]
LocalNmi(p,l) == [type |-> "lapicnmi", processor |-> p, lint |-> l,
                  trigger |-> "level", polarity |-> "low"]
Address       == [type |-> "address", base |-> 1]

Usual == <<Lapic(0), Ioapic(0, 4), To(0, 2)>>

GoodTables == {
  Usual,
  <<LocalNmi(255, 1), Nmi(3), To(0, 2), Address, Ioapic(0, 4), Lapic(2), Lapic(1)>>,
  <<Lapic(0), LocalNmi(0, 0), LocalNmi(7, 1), Ioapic(0, 4), To(0, 2), Nmi(0), Nmi(9)>>,
  <<Ioapic(0, 3), Ioapic(3, 1), Lapic(0), Nmi(3), To(1, 0)>>,
  <<Lapic(0), Ioapic(0, 4), To(0, 1), To(9, 1), To(0, 3)>>,
  <<Ioapic(0, 4), Lapic(254), Lapic(254), LocalNmi(255, 1)>> }

BadTables == {
  NoTable,
  <<Ioapic(0, 4)>>,                             \* no processor
  <<Lapic(0)>>,                                 \* no IO APIC
  <<Lapic(0), Lapic(2), Ioapic(0, 4)>>,         \* a gap in the ids
  <<Lapic(1), LocalNmi(2, 1), Ioapic(0, 4)>>,   \* an NMI for the next processor
  <<Lapic(0), Ioapic(0, 2), Ioapic(2, 2), To(0, 2)>>, \* no such pin
  <<Lapic(0), Ioapic(0, 1), Ioapic(1, 3), To(0, 2)>>, \* another pin
  <<Lapic(0), Ioapic(0, 4), To(0, 7)>>,         \* no such interrupt
  <<Lapic(0), Ioapic(1, 4), Ioapic(254, 4), To(0, 2)>> } \* beside the pin

All == {"LAPIC", "IOAPIC", "PIT"}
Machine(madt, regions, live, pic, ops, n) ==
  [madt |-> madt, regions |-> regions, live |-> live, has8259 |-> pic,
   ops |-> ops, calls |-> n]

MCMachines ==
  {Machine(t, All, {}, TRUE, {"driver"}, 2) : t \in GoodTables \cup BadTables}
  \cup {Machine(Usual, All, {}, TRUE, {"driver"}, 5),
        Machine(Usual, All, {}, TRUE, {"driver", "lapic"}, 3),
        Machine(Usual, All, {}, TRUE, {"timer", "system"}, 2),
        Machine(Usual, All, {}, TRUE, {"ipi"}, 4)}
  \cup {Machine(Usual, All \ {r}, {}, FALSE, {}, 0) : r \in All}
  \cup {Machine(t, {"LAPIC", "PIT"}, {}, FALSE, {}, 0) :
          t \in {<<Lapic(0), Ioapic(0, 4), Nmi(0)>>, <<Lapic(0), Ioapic(0, 4)>>}}
  \cup {Machine(<<Lapic(0), [Ioapic(0, 4) EXCEPT !.pins = Pins(4, {g})], To(0, 2)>>,
                R, {g}, TRUE, {}, 0) : g \in {1, 3}, R \in {All, {"LAPIC", "PIT"}}}
  \cup {Machine(<<Lapic(0), Ioapic(1, 4), To(0, 2)>>, All, {3}, TRUE, {}, 0),
        Machine(Usual, All, {2}, TRUE, {}, 0)} \* a device beside the timer

MCLine == [d \in {"d1", "d2"} |-> IF d = "d1" THEN 1 ELSE 3]

\* LINT0 passes on the 8259, LINT1 is the NMI; the rest is masked.
MCLvt == [n \in LvtNames |-> CASE n = "LINT0" -> [vector |-> 0, bits |-> {8, 9, 10}]
                               [] n = "LINT1" -> [vector |-> 0, bits |-> {10}]
                               [] OTHER -> [vector |-> 0, bits |-> {16}]]
=============================================================================
